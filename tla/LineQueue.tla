----------------------------- MODULE LineQueue ------------------------------
(***************************************************************************)
(* What the console promises its readers: the keys typed since the last    *)
(* newline can still be erased, the ones before are read once, in order.   *)
(***************************************************************************)
EXTENDS Integers, Sequences

CONSTANTS Reader,    \* who reads
          Key,       \* printing keys
          Newline,
          Capacity   \* keys typed and not yet read

VARIABLES ready,     \* keys that can be read
          edit,      \* keys of the line being typed
          got        \* what the last read of each reader has got

lvars == <<ready, edit, got>>

Init == ready = <<>> /\ edit = <<>> /\ got = [p \in Reader |-> <<>>]

Full == Len(ready) + Len(edit) = Capacity

\* A key; the line is handed over at its end, or when no more fits.
Type(k) ==
  /\ ~Full
  /\ IF k = Newline \/ Len(ready) + Len(edit) + 1 = Capacity
     THEN ready' = ready \o Append(edit, k) /\ edit' = <<>>
     ELSE edit' = Append(edit, k) /\ UNCHANGED ready
  /\ UNCHANGED got

EraseKey == edit # <<>> /\ edit' = SubSeq(edit, 1, Len(edit) - 1) /\ UNCHANGED <<ready, got>>

EraseLine == edit' = <<>> /\ UNCHANGED <<ready, got>>

\* A call begins, with nothing yet.
Read(p) == got' = [got EXCEPT ![p] = <<>>] /\ UNCHANGED <<ready, edit>>

\* A reader takes some keys, none beyond a newline.
Take(p) ==
  \E k \in 1 .. Len(ready) :
    /\ \A i \in 1 .. k - 1 : ready[i] # Newline
    /\ got' = [got EXCEPT ![p] = @ \o SubSeq(ready, 1, k)]
    /\ ready' = SubSeq(ready, k + 1, Len(ready))
    /\ UNCHANGED edit

Next ==
  \/ EraseKey \/ EraseLine
  \/ \E k \in Key \cup {Newline} : Type(k)
  \/ \E p \in Reader : Read(p) \/ Take(p)

Spec == Init /\ [][Next]_lvars
=============================================================================
