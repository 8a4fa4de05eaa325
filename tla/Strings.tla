------------------------------- MODULE Strings ------------------------------
(***************************************************************************)
(* Strings and numbers: the kernel's string.c, skipelem of fs.c and        *)
(* printint and cprintf of console.c, the user library's ulib.c and        *)
(* printf.c.  A loop of the code is a recursive operator; a string is a    *)
(* sequence, whose end stands for the 0.  A job is a call with its         *)
(* arguments, and a step does it.                                          *)
(***************************************************************************)
EXTENDS Integers, Sequences, SequencesExt

CONSTANTS Cells,  \* size of the memory that memmove works on
          DIRSIZ, \* longest name
          Bits,   \* width of an int
          Jobs    \* bound: the calls to look at

VARIABLES job, result

stringVars == <<job, result>>

Z(s, i) == IF i <= Len(s) THEN s[i] ELSE "0"
Cut(s, n) == SubSeq(s, 1, IF n < Len(s) THEN n ELSE Len(s))

-----------------------------------------------------------------------------
\* The loop that copies upwards, and the one that copies downwards.
RECURSIVE CopyUp(_, _, _, _)
CopyUp(mem, d, s, n) == IF n = 0 THEN mem ELSE CopyUp([mem EXCEPT ![d] = mem[s]], d + 1, s + 1, n - 1)

RECURSIVE CopyDown(_, _, _, _)
CopyDown(mem, d, s, n) ==
  IF n = 0 THEN mem ELSE CopyDown([mem EXCEPT ![d + n - 1] = mem[s + n - 1]], d, s, n - 1)

\* Fault: the direction is always upwards.
memmoveUp(mem, d, s, n) == CopyUp(mem, d, s, n)

\* memmove of string.c.
memmove(mem, d, s, n) ==
  IF s < d /\ s + n > d THEN CopyDown(mem, d, s, n) ELSE CopyUp(mem, d, s, n)

\* memmove of ulib.c.
umemmove(mem, d, s, n) == CopyUp(mem, d, s, n)

\* strncpy(s, t, n): the n characters at s afterwards.
strncpy(t, n) == [i \in 1 .. n |-> IF i <= Len(t) THEN t[i] ELSE "0"]

\* safestrcpy(s, t, n): the string at s afterwards, for n > 0.
safestrcpy(t, n) == Cut(t, n - 1)

\* strncmp(p, q, n) = 0.
RECURSIVE strncmp(_, _, _)
strncmp(p, q, n) ==
  IF n > 0 /\ Z(p, 1) # "0" /\ Z(p, 1) = Z(q, 1) THEN strncmp(Tail(p), Tail(q), n - 1)
  ELSE n = 0 \/ Z(p, 1) = Z(q, 1)

-----------------------------------------------------------------------------
\* The first position from i on where path has, or has not, a slash.
Slash(path, i) ==
  CHOOSE j \in i .. Len(path) + 1 : Z(path, j) \in {"/", "0"} /\ \A k \in i .. j - 1 : path[k] # "/"
NoSlash(path, i) ==
  CHOOSE j \in i .. Len(path) + 1 : Z(path, j) # "/" /\ \A k \in i .. j - 1 : path[k] = "/"

\* skipelem: the next element, cut to DIRSIZ characters, and the rest of the path.
skipelem(path) ==
  LET s == NoSlash(path, 1)
      e == Slash(path, s)
  IN  IF s > Len(path) THEN [ok |-> FALSE, name |-> <<>>, path |-> <<>>]
      ELSE [ok |-> TRUE, name |-> Cut(SubSeq(path, s, e - 1), DIRSIZ),
            path |-> SubSeq(path, NoSlash(path, e), Len(path))]

\* namex's loop: the elements it looks up, and whether it stops one short
\* because the caller wants the parent.
RECURSIVE namex(_, _)
namex(path, parent) ==
  LET r == skipelem(path)
  IN  IF ~r.ok THEN [found |-> ~parent, walked |-> <<>>, name |-> <<>>]
      ELSE IF parent /\ r.path = <<>> THEN [found |-> TRUE, walked |-> <<>>, name |-> r.name]
      ELSE LET x == namex(r.path, parent) IN [x EXCEPT !.walked = <<r.name>> \o @]

-----------------------------------------------------------------------------
Word == 2 ^ Bits
Digit == <<"0", "1", "2", "3", "4", "5", "6", "7", "8", "9", "A", "B", "C", "D", "E", "F">>
Value(ch) == CHOOSE v \in 0 .. 15 : Digit[v + 1] = ch

\* The do-while loop of printint, least digit first.
RECURSIVE DigitsOf(_, _)
DigitsOf(x, base) ==
  <<Digit[(x % base) + 1]>> \o (IF x \div base = 0 THEN <<>> ELSE DigitsOf(x \div base, base))

\* printint(fd, xx, base, sgn), where x is a uint, also of the smallest int, whose
\* negation the build lets wrap.  console.c has the same loop; that one writes the
\* digits above 9 in lower case, which is not told apart.
printint(xx, base, sgn) ==
  IF sgn /\ xx < 0 THEN Reverse(DigitsOf((-xx) % Word, base) \o <<"-">>)
  ELSE Reverse(DigitsOf(xx % Word, base))

\* atoi with base 10, atoo with base 8.  n is an int; the build lets it wrap.
RECURSIVE Number(_, _, _)
Number(s, n, base) ==
  IF s # <<>> /\ s[1] \in {Digit[i] : i \in 1 .. base}
  THEN Number(Tail(s), (n * base + Value(s[1])) % Word, base) ELSE n
Signed(n) == IF n >= Word \div 2 THEN n - Word ELSE n
RECURSIVE atoi(_, _)
atoi(s, base) ==
  CASE s # <<>> /\ s[1] = " " -> atoi(Tail(s), base)
    [] s # <<>> /\ s[1] = "-" -> Signed((-Number(Tail(s), 0, base)) % Word)
    [] s # <<>> /\ s[1] = "+" -> Signed(Number(Tail(s), 0, base))
    [] OTHER -> Signed(Number(s, 0, base))

\* What a conversion prints of argument a: an int and a string.
Converted(c, a) == CASE c = "d" -> printint(a.n, 10, TRUE)
                     [] c = "x" -> printint(a.n, 16, FALSE)
                     [] c = "s" -> a.s

\* Whether a conversion takes an argument.
Takes(c) == c \in {"d", "x", "s"}

\* printf's loop over the format, with its state.
RECURSIVE printf(_, _, _)
printf(fmt, state, ap) ==
  CASE fmt = <<>> -> <<>>
    [] fmt # <<>> /\ state = "0" ->
         IF fmt[1] = "%" THEN printf(Tail(fmt), "%", ap) ELSE <<fmt[1]>> \o printf(Tail(fmt), "0", ap)
    [] OTHER ->
         LET c == fmt[1]
         IN  (CASE c \in {"d", "x", "s"} -> Converted(c, ap[1])
                [] c = "%" -> <<"%">>
                [] OTHER -> <<"%", c>>) \o printf(Tail(fmt), "0", IF Takes(c) THEN Tail(ap) ELSE ap)

\* cprintf's loop, which looks at the next character at once.
RECURSIVE cprintf(_, _)
cprintf(fmt, ap) ==
  CASE fmt = <<>> -> <<>>
    [] fmt # <<>> /\ fmt[1] # "%" -> <<fmt[1]>> \o cprintf(Tail(fmt), ap)
    [] fmt = <<"%">> -> <<>>
    [] OTHER ->
         LET c == fmt[2]
             tl == Tail(Tail(fmt))
         IN  CASE c \in {"d", "x", "s"} -> Converted(c, ap[1]) \o cprintf(tl, Tail(ap))
               [] c = "%" -> <<"%">> \o cprintf(tl, ap)
               [] OTHER -> <<"%", c>> \o cprintf(tl, ap)

-----------------------------------------------------------------------------
Memory0 == [i \in 1 .. Cells |-> i]
Args4 == [i \in 1 .. 4 |-> [n |-> -i, s |-> <<"s", Digit[i + 1]>>]]

Do(j) ==
  CASE j.fn = "move" -> [kernel |-> memmove(Memory0, j.d, j.s, j.n), user |-> umemmove(Memory0, j.d, j.s, j.n)]
    [] j.fn = "name" -> [same |-> strncmp(strncpy(j.s, DIRSIZ), j.t, DIRSIZ), safe |-> safestrcpy(j.s, DIRSIZ)]
    [] j.fn = "path" -> [all |-> namex(j.s, FALSE), parent |-> namex(j.s, TRUE)]
    [] j.fn = "int" -> [dec |-> atoi(<<" ">> \o printint(j.n, 10, TRUE), 10), hex |-> printint(j.n, 16, FALSE),
                        oct |-> atoi(Reverse(DigitsOf(j.n % Word, 8)), 8)]
    [] j.fn = "fmt" -> [user |-> printf(j.s, "0", Args4), kernel |-> cprintf(j.s, Args4)]

StringStart(j) == job = j /\ result = <<>>
StringInit == \E j \in Jobs : StringStart(j)

DoJob == result = <<>> /\ result' = <<Do(job)>> /\ UNCHANGED job

StringSpec == StringInit /\ [][DoJob]_stringVars

-----------------------------------------------------------------------------
(***************************************************************************)
(* Properties.                                                             *)
(***************************************************************************)
JobDone(fn) == result # <<>> /\ job.fn = fn

\* The memory after the n cells at s were moved to d, whatever they overlap.
Moved(d, s, n) == [i \in 1 .. Cells |-> IF i \in d .. d + n - 1 THEN Memory0[s + i - d] ELSE Memory0[i]]

\* The kernel's memmove copies the source as it was, also when it overlaps the
\* destination on either side; the user library's does so when the destination
\* does not begin inside the source, as in grep, its only caller with overlap.
MovesOverlap ==
  JobDone("move") =>
    /\ result[1].kernel = Moved(job.d, job.s, job.n)
    /\ job.d \notin job.s + 1 .. job.s + job.n - 1 => result[1].user = Moved(job.d, job.s, job.n)

\* A name that dirlink stores with strncpy is found by dirlookup's strncmp
\* exactly for the names that agree in the first DIRSIZ characters, though a
\* name of DIRSIZ characters is stored without a 0; safestrcpy leaves room for one.
NamesCompare ==
  JobDone("name") =>
    /\ result[1].same = (Cut(job.s, DIRSIZ) = Cut(job.t, DIRSIZ))
    /\ Len(result[1].safe) < DIRSIZ /\ IsPrefix(result[1].safe, job.s)

\* The elements of a path: what is between slashes, cut to DIRSIZ.
Elements(path) ==
  LET starts == SelectSeq([i \in DOMAIN path |-> i],
                          LAMBDA i : path[i] # "/" /\ (i = 1 \/ path[i - 1] = "/"))
  IN  [k \in DOMAIN starts |->
         Cut(SubSeq(path, starts[k], Slash(path, starts[k]) - 1), DIRSIZ)]

\* namex walks through all elements of a path, and nameiparent through all but
\* the last, which it returns: repeated and trailing slashes count for nothing,
\* and a path without an element has no parent.
PathsWalked ==
  JobDone("path") =>
    LET es == Elements(job.s)
    IN  /\ result[1].all.walked = es
        /\ IF es = <<>> THEN ~result[1].parent.found
           ELSE /\ result[1].parent.found
                /\ result[1].parent.walked = Front(es) /\ result[1].parent.name = Last(es)

\* atoi reads what printint prints, for every int down to the smallest, whose
\* absolute value is no int; and the octal digits of a number with atoo.
ReadsBackInts ==
  JobDone("int") => result[1].dec = job.n /\ result[1].oct = job.n

\* printf and cprintf print the same for the same format and arguments: both
\* take an argument for exactly the conversions they know.  (They differ for a
\* % at the end, and printf knows %c.)
PrintsAgree ==
  JobDone("fmt") => result[1].user = result[1].kernel

\* The string routines of the kernel and of the user library compute what their
\* callers take them to compute, at the edges of their arguments too.
StringsExact == MovesOverlap /\ NamesCompare /\ PathsWalked /\ ReadsBackInts /\ PrintsAgree
=============================================================================
