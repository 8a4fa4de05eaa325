----------------------------- MODULE AtomicDisk -----------------------------
(***************************************************************************)
(* What log.c promises the file system: the updates of the system calls    *)
(* between two commits reach the disk together or not at all, a commit     *)
(* never falls inside a system call, and a crash takes memory back to the  *)
(* last commit.                                                            *)
(***************************************************************************)
EXTENDS Integers

CONSTANTS Block, Val

VARIABLES durable,  \* what a crash would leave of each block
          current,  \* what the file system reads from each block
          open      \* system calls in progress

avars == <<durable, current, open>>

Init ==
  /\ durable \in [Block -> Val]
  /\ current = durable
  /\ open = 0

Begin == open' = open + 1 /\ UNCHANGED <<durable, current>>

Write ==
  /\ open > 0
  /\ \E b \in Block, v \in Val : current' = [current EXCEPT ![b] = v]
  /\ UNCHANGED <<durable, open>>

End == open > 0 /\ open' = open - 1 /\ UNCHANGED <<durable, current>>

Commit == open = 0 /\ durable' = current /\ UNCHANGED <<current, open>>

Crash == current' = durable /\ open' = 0 /\ UNCHANGED durable

Next == Begin \/ Write \/ End \/ Commit \/ Crash

Spec == Init /\ [][Next]_avars
=============================================================================
