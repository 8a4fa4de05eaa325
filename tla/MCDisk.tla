------------------------------- MODULE MCDisk -------------------------------
(***************************************************************************)
(* What must eventually happen in the log, in the buffer cache with the    *)
(* disk queue and in the pipelines of the shell is checked in one run: a   *)
(* behaviour is one of Log, Buf or ShellRun.                               *)
(***************************************************************************)
EXTENDS Log, Buf, ShellRun

VARIABLE part

Prog(name) == [type |-> "EXEC", prog |-> name]
Pipe2(l, rt) == [type |-> "PIPE", left |-> l, right |-> rt]
Seq2(l, rt) == [type |-> "LIST", left |-> l, right |-> rt]
Back(c) == [type |-> "BACK", cmd |-> c]
To(c, f) == [type |-> "REDIR", cmd |-> c, fd |-> f]

\* source | copy | ignore
\* (source; source) | copy > f
\* source | copy &  and then  copy
\* (source & ; copy) < f | copy  and then an empty command
MCSessions ==
  {<<Pipe2(Prog("source"), Pipe2(Prog("copy"), Prog("ignore")))>>,
   <<Pipe2(Seq2(Prog("source"), Prog("source")), To(Prog("copy"), 1))>>,
   <<Back(Pipe2(Prog("source"), Prog("copy"))), Prog("copy")>>,
   <<Pipe2(To(Seq2(Back(Prog("source")), Prog("copy")), 0), Prog("copy")), Prog("none")>>}

\* The log is taken with all threads on one block, so that some sleep while
\* others end, and with all threads but one on all blocks, so that it fills up.
LogParts == {"threads", "blocks"}
Bounded ==
  /\ part = "threads" => \A t \in Thread : held[t] \in {0, LogSize}
  /\ part = "blocks" => pc[CHOOSE t \in Thread : TRUE] = "out"

\* While the log has no part it is recovered and empty; the other parts wait
\* for a call or a command, so that their fairness asks for nothing.
MCInit ==
  /\ part \in LogParts \cup {"buf", "shell"}
  /\ IF part \in LogParts THEN Init ELSE InitIn("up")
  /\ BufInit
  /\ part # "shell" => typed = CHOOSE s \in MCSessions : TRUE
  /\ ShellInit

\* The commands of a session run out.
MCNext ==
  /\ UNCHANGED part
  /\ \/ part \in LogParts /\ Next /\ Bounded' /\ UNCHANGED <<bcacheVars, shellVars>>
     \/ part = "buf" /\ BufNext /\ UNCHANGED <<vars, shellVars>>
     \/ part = "shell" /\ (ShellNext \/ UNCHANGED shellVars) /\ UNCHANGED <<vars, bcacheVars>>

MCSpec ==
  /\ MCInit /\ [][MCNext]_<<part, vars, bcacheVars, shellVars>>
  /\ Fairness /\ BufFairness /\ ShellFairness
=============================================================================
