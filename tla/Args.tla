-------------------------------- MODULE Args --------------------------------
(***************************************************************************)
(* How a system call gets its arguments (syscall.c, argfd of sysfile.c):   *)
(* words on the user's stack, pointers to blocks and to strings.  Addresses*)
(* are uints and wrap around, ints are their signed reading.               *)
(***************************************************************************)
EXTENDS Integers, FiniteSets

CONSTANTS UWORD,  \* number of values of a uint
          WORD,   \* bytes of a word
          MaxSz,  \* bound: size of a process
          Vals,   \* bound: ints in the memory of a process
          Asked,  \* bound: sizes of blocks a call asks for
          Fds     \* NOFILE

ASSUME ArgsAssumption ==
  /\ UWORD \in Nat /\ WORD \in Nat /\ WORD > 0 /\ MaxSz \in Nat
  /\ 2 * MaxSz <= UWORD /\ 2 * WORD <= UWORD
  /\ \A i \in Vals \cup Asked : i \in Int /\ -UWORD <= 2 * i /\ 2 * i < UWORD
  /\ Fds \in Nat

VARIABLES
  usz,    \* curproc->sz
  umem,   \* the int, or the byte, at each address below usz
  esp,    \* tf->esp
  ofiles, \* the open descriptors
  args    \* the argument fetched: its kind and number, a length, the answer, the value

argVars == <<usz, umem, esp, ofiles, args>>

Fetched(kind, arg, n, ok, val) == [kind |-> kind, arg |-> arg, n |-> n, ok |-> ok, val |-> val]

ArgInit ==
  /\ usz \in 0 .. MaxSz
  /\ umem \in [0 .. usz - 1 -> Vals]
  /\ esp \in 0 .. UWORD - 1
  /\ ofiles \in SUBSET (0 .. Fds - 1)
  /\ args = Fetched("none", 0, 0, FALSE, 0)

\* An int taken for a uint, and a sum of uints.
Uint(i) == i % UWORD
Plus(a, b) == (a + b) % UWORD

\* Fault: a word may end one byte beyond the memory of the process.
FetchOkEdge(addr) == addr < usz /\ Plus(addr, WORD) <= usz + 1

\* fetchint's test.
FetchOk(addr) == addr < usz /\ Plus(addr, WORD) <= usz

\* Where argument n of the call is.
ArgAddr(n) == Plus(esp, WORD + WORD * n)

\* argptr's test of a pointer.
PtrOk(i, size) == size >= 0 /\ Uint(i) < usz /\ Plus(Uint(i), size) <= usz

\* fetchstr's loop: up to the first 0, or -1.
StrLen(addr) ==
  IF \E s \in addr .. usz - 1 : umem[s] = 0
  THEN (CHOOSE s \in addr .. usz - 1 : umem[s] = 0 /\ \A t \in addr .. s - 1 : umem[t] # 0) - addr
  ELSE -1

\* argint(n, ip).
ArgInt(n) ==
  LET a == ArgAddr(n)
  IN  args' = Fetched("int", n, 0, FetchOk(a), IF FetchOk(a) THEN umem[a] ELSE 0)

\* argptr(n, pp, size).
ArgPtr(n, size) ==
  LET a == ArgAddr(n)
  IN  args' = IF FetchOk(a) /\ PtrOk(umem[a], size)
              THEN Fetched("ptr", n, size, TRUE, Uint(umem[a])) ELSE Fetched("ptr", n, size, FALSE, 0)

\* argstr(n, pp).
ArgStr(n) ==
  LET a == ArgAddr(n)
      s == Uint(umem[a])
  IN  args' = IF FetchOk(a) /\ s < usz /\ StrLen(s) >= 0
              THEN Fetched("str", n, StrLen(s), TRUE, s) ELSE Fetched("str", n, 0, FALSE, 0)

\* argfd's test.
FdOk(fd) == fd >= 0 /\ fd < Fds /\ fd \in ofiles

\* argfd(n, pfd, pf).
ArgFd(n) ==
  LET a == ArgAddr(n)
  IN  args' = IF FetchOk(a) /\ FdOk(umem[a])
              THEN Fetched("fd", n, 0, TRUE, umem[a]) ELSE Fetched("fd", n, 0, FALSE, 0)

ArgNext ==
  /\ args.kind = "none"
  /\ \E n \in 0 .. 1 :
       \/ ArgInt(n) \/ ArgStr(n) \/ ArgFd(n)
       \/ \E size \in Asked : ArgPtr(n, size)
  /\ UNCHANGED <<usz, umem, esp, ofiles>>

ArgSpec == ArgInit /\ [][ArgNext]_argVars

-----------------------------------------------------------------------------
(***************************************************************************)
(* Properties.                                                             *)
(***************************************************************************)

\* What the kernel goes on to read or write for a call lies in the memory of
\* the process, though the tests add uints that could wrap around.
ArgsInside ==
  args.ok =>
    /\ args.kind = "ptr" => args.val >= 0 /\ args.n >= 0 /\ args.val + args.n <= usz
    /\ args.kind = "int" =>
         \E a \in 0 .. usz - WORD : a = ArgAddr(args.arg) /\ args.val = umem[a]
    /\ args.kind = "str" =>
         args.val + args.n < usz /\ umem[args.val + args.n] = 0
    /\ args.kind = "fd" => args.val \in ofiles

\* An argument is refused only when it is wrong: the word is not in memory, or
\* what it says is not.
ArgsComplete ==
  args.kind # "none" /\ ~args.ok =>
    LET a == ArgAddr(args.arg)
    IN  \/ a + WORD > usz
        \/ args.kind = "ptr" /\ (umem[a] < 0 \/ umem[a] >= usz
                                  \/ args.n < 0 \/ umem[a] + args.n > usz)
        \/ args.kind = "str" /\ (umem[a] < 0 \/ \A t \in umem[a] .. usz - 1 : umem[t] # 0)
        \/ args.kind = "fd" /\ umem[a] \notin ofiles

\* The tests of argint, argptr, argstr and argfd are exact: they accept what lies
\* in the memory of the process and refuse only what does not.
ArgsExact == ArgsInside /\ ArgsComplete
=============================================================================
