------------------------------- MODULE MCLog --------------------------------
(***************************************************************************)
(* The log on its disk, the keyboard, console input and the screen share   *)
(* no state and are checked in one run: a behaviour is one of Log, Kbd,    *)
(* Console or Screen.                                                      *)
(***************************************************************************)
EXTENDS Log, Kbd, Screen, Console, TLC

VARIABLE part

\* No definition tells two threads, two contents of a block, two readers or two
\* printing keys apart.
LogSymmetry ==
  UNION {Permutations(Thread), Permutations(Val), Permutations(Reader), Permutations(Key)}

\* What nothing reads before it is written again: the blocks of the log that
\* hold no transaction, what a call that has ended wrote, and what a read that
\* has returned got.
Logged == CASE phase = "write_log" -> tail - 1
            [] phase = "write_head" -> Len(lh)
            [] OTHER -> Len(dhead)
LogView ==
  <<part, [b \in Home |-> disk[b]], [i \in 1 .. LogSize - 1 |-> IF i <= Logged THEN disk[i] ELSE NoBuf],
    dhead, logVars, bufVars, phase, tail, pc, held,
    [t \in Thread |-> IF pc[t] \in {"op", "check", "record"} THEN wrote[t] ELSE {}],
    kbdVars, screenVars,
    inputVars, where, n, [p \in Reader |-> IF where[p] = "user" THEN <<>> ELSE got[p]], killed>>

MCInit ==
  /\ part \in {"log", "kbd", "screen", "console"}
  /\ IF part = "log" THEN Init ELSE InitIn("up")
  /\ KbdInit /\ ScreenInit
  /\ ConInit /\ (part # "console" => buf[0] = Newline)

MCNext ==
  /\ UNCHANGED part
  /\ \/ part = "log" /\ Next /\ UNCHANGED <<kbdVars, screenVars, conVars>>
     \/ part = "kbd" /\ KbdNext /\ UNCHANGED <<vars, screenVars, conVars>>
     \/ part = "screen" /\ ScreenNext /\ UNCHANGED <<vars, kbdVars, conVars>>
     \/ part = "console" /\ ConNext /\ UNCHANGED <<vars, kbdVars, screenVars>>

MCSpec == MCInit /\ [][MCNext]_<<part, vars, kbdVars, screenVars, conVars>>
=============================================================================
