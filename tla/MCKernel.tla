------------------------------ MODULE MCKernel ------------------------------
(***************************************************************************)
(* Parts of the kernel that share no state are checked in one run: a       *)
(* behaviour is one of LockOrder, Cli, Buf, Args, Syscall or Clock.        *)
(***************************************************************************)
EXTENDS LockOrder, Cli, Buf, Args, Syscall, Clock, TLC

VARIABLE part

\* No definition tells apart two CPUs, two clients of the buffer cache, or two
\* blocks that nobody writes.  A behaviour has CPUs or clients, so they have the
\* same names.
KernelSymmetry == Permutations(Client) \cup Permutations(Block \ Written)

\* Ints in memory, sizes of blocks, lengths of sleeps, and registers of the clock.
MCVals == {-8, -1, 0, 1, 3}
MCAsked == {-1, 0, 1, 3, 7}
MCLengths == {-1, 0, 2}
MCRadix == <<3, 3, 12>>

MCInit ==
  /\ part \in {"locks", "cli", "buf", "args", "syscall", "clock"}
  /\ Init /\ CliInit /\ BufInit /\ SysInit /\ ClockInit
  /\ part # "syscall" => ticks = 0
  /\ part # "args" => usz = 0 /\ esp = 0 /\ ofiles = {}
  /\ ArgInit

locksRest == <<cliVars, bcacheVars, argVars, sysVars, clockVars>>
cliRest == <<vars, bcacheVars, argVars, sysVars, clockVars>>
bufRest == <<vars, cliVars, argVars, sysVars, clockVars>>
argRest == <<vars, cliVars, bcacheVars, sysVars, clockVars>>
sysRest == <<vars, cliVars, bcacheVars, argVars, clockVars>>
clockRest == <<vars, cliVars, bcacheVars, argVars, sysVars>>

\* A call that has its arguments is done.
MCNext ==
  /\ UNCHANGED part
  /\ \/ part = "locks" /\ Next /\ UNCHANGED locksRest
     \/ part = "cli" /\ CliNext /\ UNCHANGED cliRest
     \/ part = "buf" /\ BufNext /\ UNCHANGED bufRest
     \/ part = "args" /\ (ArgNext \/ UNCHANGED argVars) /\ UNCHANGED argRest
     \/ part = "syscall" /\ SysNext /\ UNCHANGED sysRest
     \/ part = "clock" /\ ClockNext /\ UNCHANGED clockRest

MCSpec == MCInit /\ [][MCNext]_<<part, vars, locksRest>>
=============================================================================
