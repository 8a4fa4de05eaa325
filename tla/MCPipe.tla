------------------------------- MODULE MCPipe -------------------------------
(***************************************************************************)
(* Pipes and the user's allocator share no state and are checked in one    *)
(* run: a behaviour is one of Pipe or Umalloc.                             *)
(***************************************************************************)
EXTENDS Pipe, Umalloc

VARIABLE part

\* Nothing, one byte, and as many as the ring holds.
MCText == {<<>>, <<1>>, <<0, 1>>}

MCInit ==
  /\ part \in {"pipe", "malloc"}
  /\ UmInit /\ Init /\ (part # "pipe" => data[0] = 0)

MCNext ==
  /\ UNCHANGED part
  /\ \/ part = "pipe" /\ Next /\ UNCHANGED umVars
     \/ part = "malloc" /\ UmNext /\ UNCHANGED vars

\* Whatever is not part of a behaviour is idle, so that its fairness asks for nothing.
MCSpec == MCInit /\ [][MCNext]_<<part, vars, umVars>> /\ Fairness /\ UmFairness
=============================================================================
