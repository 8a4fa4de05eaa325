------------------------------ MODULE ShellRun ------------------------------
(***************************************************************************)
(* The shell running commands (sh.c, main and runcmd): the processes it    *)
(* forks, their descriptors and the pipes between them.  A process has a   *)
(* list of the system calls it has still to make; each is one step.  The   *)
(* kernel calls are as Proc, File and Pipe have them; the programs it      *)
(* starts are external: they copy, produce or ignore, and end.             *)
(***************************************************************************)
EXTENDS Integers, Sequences, FiniteSets, FiniteSetsExt

CONSTANTS Slots,    \* processes that the shell can have besides itself
          Pipes,    \* pipes there can be at a time
          Capacity, \* of a pipe
          Amount,    \* what a producing program writes
          Sessions  \* bound: the sequences of command lines that may be typed

VARIABLES procs, \* the processes, slot 0 is the shell
          fill,  \* items in each pipe
          typed, \* the lines still to be typed
          failed \* a fork or pipe has failed: somebody has called panic()

shellVars == <<procs, fill, typed, failed>>

Fds == 0 .. 4

\* What a descriptor refers to; <<i, 1>> and <<i, 2>> are the ends of pipe i > 0.
Closed == <<0, 0>>
TheConsole == <<0, 1>>
AFile == <<0, 2>>
IsPipe(f) == f[1] > 0

Dead == [todo |-> <<>>, fd |-> [f \in Fds |-> Closed], p |-> <<0, 0>>, parent |-> -1,
         prog |-> "none", left |-> 0, bg |-> FALSE, zombie |-> FALSE,
         in |-> Closed, out |-> Closed]

Live(q) == procs[q].parent # -1

\* The shell has opened the console three times.
ShellInit ==
  /\ procs = [q \in 0 .. Slots |->
                IF q = 0 THEN [Dead EXCEPT !.fd = [f \in Fds |-> IF f < 3 THEN TheConsole ELSE Closed],
                                           !.parent = 0, !.in = TheConsole, !.out = TheConsole]
                ELSE Dead]
  /\ fill = [i \in Pipes |-> 0]
  /\ typed \in Sessions /\ failed = FALSE

-----------------------------------------------------------------------------
\* The system calls that a process makes one after the other.
Close(f) == [op |-> "close", fd |-> f]
CloseP(k) == [op |-> "closep", end |-> k]
DupP(k) == [op |-> "dupp", end |-> k]
OpenFile(f) == [op |-> "open", fd |-> f]
Fork1(script, bg) == [op |-> "fork", script |-> script, bg |-> bg]
Op(name) == [op |-> name]
Run(cmd) == [op |-> "run", cmd |-> cmd]

\* Fault: the right child keeps its write end of the pipe.
RightKeeps(cmd) == <<Close(0), DupP(1), CloseP(1), Run(cmd)>>

\* What the children of a pipeline do before runcmd; the ends of p are 1 and 2.
LeftChild(cmd) == <<Close(1), DupP(2), CloseP(1), CloseP(2), Run(cmd)>>
RightChild(cmd) == <<Close(0), DupP(1), CloseP(1), CloseP(2), Run(cmd)>>

\* Fault: the parent waits before it closes its ends of the pipe.
PipelineKeeps(l, r) ==
  <<Op("pipe"), Fork1(LeftChild(l), FALSE), Fork1(RightChild(r), FALSE),
    Op("wait"), Op("wait"), CloseP(1), CloseP(2), Op("exit")>>

\* runcmd's PIPE.
Pipeline(l, r) ==
  <<Op("pipe"), Fork1(LeftChild(l), FALSE), Fork1(RightChild(r), FALSE),
    CloseP(1), CloseP(2), Op("wait"), Op("wait"), Op("exit")>>

\* runcmd's switch.
runcmd(cmd) ==
  CASE cmd.type = "EXEC" -> IF cmd.prog = "none" THEN <<Op("exit")>>
                            ELSE <<[op |-> "exec", prog |-> cmd.prog]>>
    [] cmd.type = "REDIR" -> <<Close(cmd.fd), OpenFile(cmd.fd), Run(cmd.cmd)>>
    [] cmd.type = "LIST" -> <<Fork1(<<Run(cmd.left)>>, FALSE), Op("wait"), Run(cmd.right)>>
    [] cmd.type = "PIPE" -> Pipeline(cmd.left, cmd.right)
    [] cmd.type = "BACK" -> <<Fork1(<<Run(cmd.cmd)>>, TRUE), Op("exit")>>

\* The prompt: main forks a child for the line, and waits.
Prompt ==
  /\ Live(0) /\ procs[0].todo = <<>> /\ typed # <<>>
  /\ typed' = Tail(typed)
  /\ procs' = [procs EXCEPT ![0].todo = <<Fork1(<<Run(Head(typed))>>, FALSE), Op("wait")>>]
  /\ UNCHANGED <<fill, failed>>

-----------------------------------------------------------------------------
\* q makes its first system call, op; it is then left with the others.
Calls(q, op) == Live(q) /\ ~procs[q].zombie /\ procs[q].todo # <<>> /\ Head(procs[q].todo).op = op
Arg(q) == Head(procs[q].todo)
Rest(q) == Tail(procs[q].todo)

\* The lowest descriptor that is not open.
Lowest(fd) == Min({f \in Fds : fd[f] = Closed})

\* exit: descriptors are closed and children go to init, which reaps them.
Exited(q) ==
  [r \in 0 .. Slots |->
     IF r = q THEN IF q = 0 \/ procs[q].parent = Slots + 1 THEN Dead
                   ELSE [Dead EXCEPT !.parent = procs[q].parent, !.zombie = TRUE]
     ELSE IF procs[r].parent = q /\ r # 0 THEN IF procs[r].zombie THEN Dead
                                               ELSE [procs[r] EXCEPT !.parent = Slots + 1]
     ELSE procs[r]]

Exits(q) == procs' = Exited(q) /\ UNCHANGED <<typed, failed>>

\* panic: a message, and exit.
Panics(q) == procs' = Exited(q) /\ failed' = TRUE /\ UNCHANGED <<fill, typed>>

SysExit(q) == Calls(q, "exit") /\ Exits(q) /\ UNCHANGED fill

\* The holders of an end of pipe i.
EndHolders(i, end) == {q \in 0 .. Slots : \E f \in Fds : procs[q].fd[f] = <<i, end>>}

SysPipe(q) ==
  /\ Calls(q, "pipe")
  /\ LET free == {i \in Pipes : EndHolders(i, 1) \cup EndHolders(i, 2) = {}}
         a == Lowest(procs[q].fd)
         b == Lowest([procs[q].fd EXCEPT ![a] = AFile])
         i == Min(free)
     IN  IF free = {} \/ Cardinality({f \in Fds : procs[q].fd[f] = Closed}) < 2 THEN Panics(q)
         ELSE /\ procs' = [procs EXCEPT ![q].fd[a] = <<i, 1>>, ![q].fd[b] = <<i, 2>>,
                                        ![q].p = <<a, b>>, ![q].todo = Rest(q)]
              /\ fill' = [fill EXCEPT ![i] = 0]
              /\ UNCHANGED <<typed, failed>>

\* close(fd), close(p[0]) and close(p[1]).
SysClose(q) ==
  /\ Calls(q, "close") \/ Calls(q, "closep")
  /\ LET f == IF Arg(q).op = "close" THEN Arg(q).fd ELSE procs[q].p[Arg(q).end]
     IN  procs' = [procs EXCEPT ![q].fd[f] = Closed, ![q].todo = Rest(q)]
  /\ UNCHANGED <<fill, typed, failed>>

\* dup(p[k]), which tells the child what it is to read or to write.
SysDup(q) ==
  /\ Calls(q, "dupp")
  /\ LET end == procs[q].fd[procs[q].p[Arg(q).end]]
         s == [procs[q] EXCEPT !.fd[Lowest(procs[q].fd)] = end, !.todo = Rest(q)]
     IN  procs' = [procs EXCEPT ![q] = IF end[2] = 1 THEN [s EXCEPT !.in = end]
                                       ELSE [s EXCEPT !.out = end]]
  /\ UNCHANGED <<fill, typed, failed>>

\* open of the file of a redirection, which may fail.
SysOpen(q) ==
  /\ Calls(q, "open")
  /\ \/ LET s == [procs[q] EXCEPT !.fd[Lowest(procs[q].fd)] = AFile, !.todo = Rest(q)]
        IN  /\ procs' = [procs EXCEPT ![q] = IF Arg(q).fd = 0 THEN [s EXCEPT !.in = AFile]
                                             ELSE [s EXCEPT !.out = AFile]]
            /\ UNCHANGED <<fill, typed, failed>>
     \/ Exits(q) /\ UNCHANGED fill

\* fork1: a free slot, or panic("fork").
SysFork(q) ==
  /\ Calls(q, "fork")
  /\ LET free == {c \in 1 .. Slots : ~Live(c)}
         c == Min(free)
         child == [procs[q] EXCEPT !.todo = Arg(q).script, !.parent = q, !.bg = @ \/ Arg(q).bg]
     IN  IF free = {} THEN Panics(q)
         ELSE /\ procs' = [procs EXCEPT ![q].todo = Rest(q), ![c] = child]
              /\ UNCHANGED <<fill, typed, failed>>

\* wait: a zombie child, or -1 when there are no children.
SysWait(q) ==
  /\ Calls(q, "wait")
  /\ LET kids == {c \in 1 .. Slots : procs[c].parent = q}
     IN  \/ \E c \in kids : /\ procs[c].zombie
                            /\ procs' = [procs EXCEPT ![q].todo = Rest(q), ![c] = Dead]
         \/ kids = {} /\ procs' = [procs EXCEPT ![q].todo = Rest(q)]
  /\ UNCHANGED <<fill, typed, failed>>

RunCmd(q) ==
  /\ Calls(q, "run")
  /\ procs' = [procs EXCEPT ![q].todo = runcmd(Arg(q).cmd)]
  /\ UNCHANGED <<fill, typed, failed>>

\* exec: the program has everything before it.
SysExec(q) ==
  /\ Calls(q, "exec")
  /\ procs' = [procs EXCEPT ![q].todo = <<>>, ![q].prog = Arg(q).prog,
                            ![q].left = IF Arg(q).prog = "source" THEN Amount ELSE 0]
  /\ UNCHANGED <<fill, typed, failed>>

-----------------------------------------------------------------------------
Running(q) == Live(q) /\ ~procs[q].zombie /\ procs[q].prog # "none"

\* A program writes an item: into the pipe when there is room and a reader, and
\* it ends when there is none.
ProgWrite(q) ==
  LET out == procs[q].fd[1]
  IN  /\ Running(q) /\ procs[q].left > 0
      /\ IF IsPipe(out) /\ EndHolders(out[1], 1) = {} THEN Exits(q) /\ UNCHANGED fill
         ELSE /\ IsPipe(out) => fill[out[1]] < Capacity
              /\ fill' = IF IsPipe(out) THEN [fill EXCEPT ![out[1]] = @ + 1] ELSE fill
              /\ procs' = [procs EXCEPT ![q].left = @ - 1]
              /\ UNCHANGED <<typed, failed>>

\* A program that copies reads an item, and ends at the end of its input.
ProgRead(q) ==
  LET in == procs[q].fd[0]
  IN  /\ Running(q) /\ procs[q].prog = "copy" /\ procs[q].left = 0
      /\ IF IsPipe(in) /\ fill[in[1]] > 0
         THEN /\ fill' = [fill EXCEPT ![in[1]] = @ - 1]
              /\ procs' = [procs EXCEPT ![q].left = 1]
              /\ UNCHANGED <<typed, failed>>
         ELSE /\ ~IsPipe(in) \/ EndHolders(in[1], 2) = {}
              /\ Exits(q) /\ UNCHANGED fill

\* The others end when they have written what they have.
ProgEnd(q) == Running(q) /\ procs[q].prog # "copy" /\ procs[q].left = 0 /\ Exits(q) /\ UNCHANGED fill

ShellStep(q) ==
  \/ SysExit(q) \/ SysPipe(q) \/ SysClose(q) \/ SysDup(q) \/ SysOpen(q) \/ SysFork(q)
  \/ SysWait(q) \/ RunCmd(q) \/ SysExec(q) \/ ProgWrite(q) \/ ProgRead(q) \/ ProgEnd(q)

ShellNext == (\E q \in 0 .. Slots : ShellStep(q)) \/ Prompt

ShellSpec == ShellInit /\ [][ShellNext]_shellVars

\* Some process goes on as long as one can; nobody has to type.
ShellFairness == WF_shellVars(\E q \in 0 .. Slots : ShellStep(q))

ShellFairSpec == ShellSpec /\ ShellFairness

-----------------------------------------------------------------------------
(***************************************************************************)
(* Properties.                                                             *)
(***************************************************************************)

\* A program starts with its input and output where the command line puts them
\* and with no other end of a pipe open: close and dup, which take the lowest
\* free descriptor, meet in every nesting of pipes, lists and redirections.
Wired ==
  \A q \in 1 .. Slots : Running(q) =>
    procs[q].fd = [f \in Fds |-> CASE f = 0 -> procs[q].in [] f = 1 -> procs[q].out
                                   [] f = 2 -> TheConsole [] OTHER -> Closed]

\* The shell prompts when every process of the last line has ended, except those
\* in the background: the calls of wait are as many as the children, and none
\* of them returns for a process of an earlier line.  (Not so when fork fails.)
ForegroundDone ==
  Live(0) /\ procs[0].todo = <<>> /\ ~failed =>
    \A q \in 1 .. Slots : Live(q) /\ ~procs[q].zombie => procs[q].bg

\* A pipeline's programs have the ends they should have, and the shell has
\* waited for them when it prompts again.
PipelinesWired == Wired /\ ForegroundDone

\* Every command line comes to an end, also when a program leaves a pipeline
\* early: all copies of the ends of its pipes are closed, so that readers see
\* the end of file and writers see that nobody reads.
PromptReturns == procs[0].todo # <<>> ~> procs[0].todo = <<>>
=============================================================================
