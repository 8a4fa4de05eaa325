------------------------------ MODULE Channel -------------------------------
(***************************************************************************)
(* What a pipe promises its users: a bounded queue of bytes.  Every byte a *)
(* write() was called with goes in once and in order, comes out once and   *)
(* in order, and a read() returns with nothing only at the end of file.    *)
(***************************************************************************)
EXTENDS Integers, Sequences

CONSTANTS Reader, Writer,
          Text,         \* what is written in one call
          Capacity,
          MaxAsk        \* bytes a reader asks for in one call

VARIABLES queue,        \* bytes put and not yet taken
          readopen,     \* a reader is left
          writeopen,    \* a writer is left
          killed,       \* the killed processes
          rest,         \* what each writer's call has still to put
          asked,        \* what each reader's call asked for, or NotReading
          got           \* what the last read of each reader returned

cvars == <<queue, readopen, writeopen, killed, rest, asked, got>>

NotReading == -1

Init ==
  /\ queue = <<>>
  /\ readopen = TRUE /\ writeopen = TRUE
  /\ killed = {}
  /\ rest = [w \in Writer |-> <<>>]
  /\ asked = [r \in Reader |-> NotReading]
  /\ got = [r \in Reader |-> <<>>]

Write(w) ==
  /\ writeopen /\ rest[w] = <<>>
  /\ \E s \in Text : rest' = [rest EXCEPT ![w] = s]
  /\ UNCHANGED <<queue, readopen, writeopen, killed, asked, got>>

\* The next bytes of the call go in.  It drops the others only if nobody is left
\* to read them, or it was killed.
Put(w) ==
  /\ \E k \in 0 .. Len(rest[w]) :
       /\ k <= Capacity - Len(queue)
       /\ queue' = queue \o SubSeq(rest[w], 1, k)
       /\ \/ rest' = [rest EXCEPT ![w] = SubSeq(@, k + 1, Len(@))]
          \/ (~readopen \/ w \in killed) /\ rest' = [rest EXCEPT ![w] = <<>>]
  /\ UNCHANGED <<readopen, writeopen, killed, asked, got>>

Read(r) ==
  /\ asked[r] = NotReading
  /\ \E k \in 0 .. MaxAsk : asked' = [asked EXCEPT ![r] = k]
  /\ got' = [got EXCEPT ![r] = <<>>]
  /\ UNCHANGED <<queue, readopen, writeopen, killed, rest>>

\* A read returns once there is a byte, or the end of file, with what there is
\* of what was asked for.
Get(r) ==
  /\ asked[r] # NotReading
  /\ queue # <<>> \/ ~writeopen
  /\ LET k == IF asked[r] <= Len(queue) THEN asked[r] ELSE Len(queue)
     IN  /\ got' = [got EXCEPT ![r] = SubSeq(queue, 1, k)]
         /\ queue' = SubSeq(queue, k + 1, Len(queue))
  /\ asked' = [asked EXCEPT ![r] = NotReading]
  /\ UNCHANGED <<readopen, writeopen, killed, rest>>

\* Or it fails, if its process was killed.
Fail(r) ==
  /\ asked[r] # NotReading /\ r \in killed
  /\ asked' = [asked EXCEPT ![r] = NotReading]
  /\ UNCHANGED <<queue, readopen, writeopen, killed, rest, got>>

\* An end is closed by its last process, so not during a call.
CloseRead ==
  /\ \A r \in Reader : asked[r] = NotReading
  /\ readopen' = FALSE
  /\ UNCHANGED <<queue, writeopen, killed, rest, asked, got>>

CloseWrite ==
  /\ \A w \in Writer : rest[w] = <<>>
  /\ writeopen' = FALSE
  /\ UNCHANGED <<queue, readopen, killed, rest, asked, got>>

Kill(p) ==
  /\ killed' = killed \cup {p}
  /\ UNCHANGED <<queue, readopen, writeopen, rest, asked, got>>

Next ==
  \/ \E w \in Writer : Write(w) \/ Put(w)
  \/ \E r \in Reader : Read(r) \/ Get(r) \/ Fail(r)
  \/ CloseRead \/ CloseWrite
  \/ \E p \in Reader \cup Writer : Kill(p)

Spec == Init /\ [][Next]_cvars
=============================================================================
