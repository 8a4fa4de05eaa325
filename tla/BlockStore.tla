----------------------------- MODULE BlockStore -----------------------------
(***************************************************************************)
(* What the buffer cache promises: blocks that keep what was last put in   *)
(* them, each used by one process at a time.                               *)
(***************************************************************************)
CONSTANTS Process, Block, Value

VARIABLES
  content,  \* what each block holds, to those who use it
  user      \* the process between bread and brelse of each block, if any

Init ==
  /\ content \in [Block -> Value]
  /\ user = [k \in Block |-> {}]

Take(p, k) ==
  /\ user[k] = {}
  /\ user' = [user EXCEPT ![k] = {p}]
  /\ UNCHANGED content

Put(p, k) ==
  /\ user[k] = {p}
  /\ \E v \in Value : content' = [content EXCEPT ![k] = v]
  /\ UNCHANGED user

Give(p, k) ==
  /\ user[k] = {p}
  /\ user' = [user EXCEPT ![k] = {}]
  /\ UNCHANGED content

Next == \E p \in Process, k \in Block : Take(p, k) \/ Put(p, k) \/ Give(p, k)

Spec == Init /\ [][Next]_<<content, user>>
=============================================================================
