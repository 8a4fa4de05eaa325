------------------------------ MODULE Filters -------------------------------
(***************************************************************************)
(* Two filters, grep.c and wc.c: grep's matcher, and how both take their   *)
(* input apart that comes in pieces.  A position after the end of a        *)
(* sequence stands for its terminating 0.                                  *)
(***************************************************************************)
EXTENDS Integers, Sequences, SequencesExt

CONSTANTS Patterns, Texts, \* bound: what is searched for, and in
          Inputs,          \* bound: contents of a file or pipe
          Pattern,         \* what grep's loop searches for
          BufSize          \* sizeof(buf)

VARIABLES
  re, text, found, \* match(re, text), and its result
  source,          \* "file" or "pipe"
  input, rest,     \* the contents, and what is not yet read
  kept, out,        \* grep's buffer up to m, and what it has written
  counts           \* wc's counters: lines, words, characters, inword

filterVars == <<re, text, found, source, input, rest, kept, out, counts>>

C(s, i) == IF i <= Len(s) THEN s[i] ELSE "0"

-----------------------------------------------------------------------------
RECURSIVE matchhere(_, _, _, _)

RECURSIVE matchstar(_, _, _, _, _)
matchstar(c, r, i, t, j) ==
  \/ matchhere(r, i, t, j)
  \/ C(t, j) # "0" /\ (C(t, j) = c \/ c = ".") /\ matchstar(c, r, i, t, j + 1)

matchhere(r, i, t, j) ==
  CASE C(r, i) = "0" -> TRUE
    [] C(r, i) # "0" /\ C(r, i + 1) = "*" -> matchstar(r[i], r, i + 2, t, j)
    [] C(r, i) = "$" /\ C(r, i + 1) = "0" -> C(t, j) = "0"
    [] OTHER -> C(t, j) # "0" /\ C(r, i) \in {".", C(t, j)} /\ matchhere(r, i + 1, t, j + 1)

match(r, t) ==
  IF C(r, 1) = "^" THEN matchhere(r, 2, t, 1)
  ELSE \E j \in 1 .. Len(t) + 1 : matchhere(r, 1, t, j)

-----------------------------------------------------------------------------
\* A search in one text, or a file or a pipe to read from.
FilterStart(r, t, src, inp) ==
  /\ re = r /\ text = t /\ source = src /\ input = inp /\ rest = inp
  /\ found = "none" /\ kept = <<>> /\ out = <<>> /\ counts = [l |-> 0, w |-> 0, c |-> 0, inword |-> FALSE]

FilterInit ==
  \/ \E r \in Patterns, t \in Texts : FilterStart(r, t, "none", <<>>)
  \/ \E src \in {"file", "pipe"}, inp \in Inputs : FilterStart(<<>>, <<>>, src, inp)

Match ==
  /\ source = "none" /\ found = "none"
  /\ found' = IF match(re, text) THEN "yes" ELSE "no"
  /\ UNCHANGED <<re, text, source, input, rest, kept, out, counts>>

\* Where the first line of s ends, 0 if it does not.
LineEnd(s) == IF "n" \in Range(s) THEN CHOOSE i \in DOMAIN s : s[i] = "n" /\ \A j \in 1 .. i - 1 : s[j] # "n"
              ELSE 0

\* grep's inner loop on s: what it writes, and what is left from p on.
RECURSIVE Scan(_, _)
Scan(s, w) ==
  LET q == LineEnd(s)
  IN  IF q = 0 THEN [left |-> s, out |-> w]
      ELSE Scan(SubSeq(s, q + 1, Len(s)),
                IF match(Pattern, SubSeq(s, 1, q - 1)) THEN w \o SubSeq(s, 1, q) ELSE w)

\* Fault: what is left of the buffer after its last line is dropped.
KeptNothing(s, left) == <<>>

\* What grep keeps for its next read: nothing when there was no line at all.
Kept(s, left) == IF left = s THEN <<>> ELSE left

\* wc's loop over n characters.
Counted(k, s) ==
  FoldLeft(LAMBDA a, ch : [l |-> IF ch = "n" THEN a.l + 1 ELSE a.l,
                           w |-> IF ch \notin {" ", "n"} /\ ~a.inword THEN a.w + 1 ELSE a.w,
                           c |-> a.c + 1,
                           inword |-> ch \notin {" ", "n"}], k, s)

\* One read: a file gives as much as there is room for, a pipe any part of it.
\* wc reads the same pieces.
ReadPiece ==
  /\ source # "none" /\ rest # <<>>
  /\ LET room == BufSize - 1 - Len(kept)
         most == IF Len(rest) < room THEN Len(rest) ELSE room
     IN  \E n \in IF source = "file" THEN {most} ELSE 1 .. most :
           LET s == kept \o SubSeq(rest, 1, n)
               r == Scan(s, out)
           IN  /\ kept' = Kept(s, r.left)
               /\ out' = r.out
               /\ counts' = Counted(counts, SubSeq(rest, 1, n))
               /\ rest' = SubSeq(rest, n + 1, Len(rest))
  /\ UNCHANGED <<re, text, found, source, input>>

FilterNext == Match \/ ReadPiece

FilterSpec == FilterInit /\ [][FilterNext]_filterVars

-----------------------------------------------------------------------------
(***************************************************************************)
(* Properties.                                                             *)
(***************************************************************************)

\* The items of a pattern: a character, whether it is starred, where it begins.
\* A star that is first, or follows a starred character, is a plain character.
RECURSIVE Items(_, _)
Items(r, i) ==
  CASE i > Len(r) -> <<>>
    [] i <= Len(r) /\ C(r, i + 1) = "*" -> <<[c |-> r[i], star |-> TRUE]>> \o Items(r, i + 2)
    [] OTHER -> <<[c |-> r[i], star |-> FALSE]>> \o Items(r, i + 1)

\* The positions in t that the items reach from the positions in S.
Fits(c, ch) == c = "." \/ c = ch
Reach(its, t, S) ==
  FoldLeft(LAMBDA P, it :
             IF it.star
             THEN {j \in 1 .. Len(t) + 1 : \E i \in P : i <= j /\ \A k \in i .. j - 1 : Fits(it.c, t[k])}
             ELSE {i + 1 : i \in {k \in P : k <= Len(t) /\ Fits(it.c, t[k])}}, S, its)

\* match finds a pattern exactly when one of the substrings of the text is made
\* of the pattern's items, at the beginning after ^ and at the end before $.
MatchesPattern ==
  found # "none" =>
    LET start == IF C(re, 1) = "^" THEN 2 ELSE 1
        its == Items(re, start)
        toEnd == its # <<>> /\ Last(its) = [c |-> "$", star |-> FALSE]
        body == IF toEnd THEN Front(its) ELSE its
        ends == Reach(body, text, IF start = 2 THEN {1} ELSE 1 .. Len(text) + 1)
    IN  (found = "yes") = IF toEnd THEN Len(text) + 1 \in ends ELSE ends # {}

\* The lines of s with their newlines.
RECURSIVE LinesOf(_)
LinesOf(s) == IF LineEnd(s) = 0 THEN <<>>
              ELSE <<SubSeq(s, 1, LineEnd(s))>> \o LinesOf(SubSeq(s, LineEnd(s) + 1, Len(s)))

\* grep writes the lines of a file that match, all of them and each once, however
\* they fall on the buffer, if no line is longer than the buffer.  (What comes
\* in smaller pieces from a pipe may lose the beginning of a line.)
GrepExact ==
  source = "file" /\ rest = <<>> /\ (\A i \in DOMAIN LinesOf(input) : Len(LinesOf(input)[i]) < BufSize) =>
    out = FlattenSeq(SelectSeq(LinesOf(input), LAMBDA l : match(Pattern, Front(l))))

\* wc counts a word once though its characters come in several reads.
WordsCounted ==
  source # "none" /\ rest = <<>> =>
    counts.w = Cardinality({i \in DOMAIN input : input[i] \notin {" ", "n"}
                                                 /\ (i = 1 \/ input[i - 1] \in {" ", "n"})})

\* grep and wc say of an input what their definitions say, however the input falls
\* on their buffers.
FiltersExact == MatchesPattern /\ GrepExact /\ WordsCounted
=============================================================================
