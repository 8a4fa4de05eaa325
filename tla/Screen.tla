------------------------------- MODULE Screen -------------------------------
(***************************************************************************)
(* The display: cgaputc() of console.c, which scrolls the lines up when    *)
(* the cursor leaves the last one.  Beside the CGA memory stands a paper   *)
(* of any length, on which nothing scrolls.                                *)
(***************************************************************************)
EXTENDS Integers

CONSTANTS COLS, ROWS, \* the part of the screen in use: 80 columns, 24 rows
          Glyph,      \* printable characters
          MaxLines    \* bound: lines on the paper

ASSUME ScreenAssumption ==
  /\ COLS \in Nat \ {0} /\ ROWS \in Nat \ {0, 1} /\ MaxLines \in Nat /\ ROWS <= MaxLines + 1
  /\ "nl" \notin Glyph /\ "bs" \notin Glyph

VARIABLES crt,   \* the CGA memory: a row more than is in use
          pos,   \* the cursor
          cgaPanic,
          paper, \* what was written, by position
          cursor \* the cursor on the paper

screenVars == <<crt, pos, cgaPanic, paper, cursor>>

Blank == "blank"
Cell == 0 .. (ROWS + 1) * COLS
Sheet == 0 .. (MaxLines + 1) * COLS

ScreenInit ==
  /\ crt = [i \in Cell |-> Blank] /\ pos = 0 /\ cgaPanic = FALSE
  /\ paper = [i \in Sheet |-> Blank] /\ cursor = 0

\* The cursor after c was written at p; the code's own word for a 0 and for a
\* space is Blank.
Advance(p, c) == CASE c = "nl" -> p + COLS - (p % COLS)
                   [] c = "bs" -> IF p > 0 THEN p - 1 ELSE p
                   [] OTHER -> p + 1

Put(mem, p, c) == IF c \in Glyph THEN [mem EXCEPT ![p] = c] ELSE mem

\* The rows move up, and what is behind the cursor p is cleared.
Scroll(mem, p) ==
  [i \in Cell |-> IF i \in p .. ROWS * COLS - 1 THEN Blank
                  ELSE IF i < (ROWS - 1) * COLS THEN mem[i + COLS] ELSE mem[i]]

\* Fault: it scrolls only behind the row after the last.
ScrollsLate(p) == p \div COLS > ROWS

Scrolls(p) == p \div COLS >= ROWS

\* cgaputc, and the same character on the paper.
Cgaputc(c) ==
  /\ ~cgaPanic
  /\ LET p == Advance(pos, c)
         q == IF Scrolls(p) THEN p - COLS ELSE p
         mem == Put(crt, pos, c)
     IN  IF p > (ROWS + 1) * COLS
         THEN cgaPanic' = TRUE /\ crt' = mem /\ UNCHANGED <<pos, paper, cursor>>
         ELSE /\ pos' = q
              /\ crt' = [(IF Scrolls(p) THEN Scroll(mem, q) ELSE mem) EXCEPT ![q] = Blank]
              /\ cursor' = IF c = "bs" /\ pos = 0 THEN cursor ELSE Advance(cursor, c)
              /\ paper' = [Put(paper, cursor, c) EXCEPT ![cursor'] = Blank]
              /\ UNCHANGED cgaPanic

ScreenNext ==
  \E c \in Glyph \cup {"nl", "bs"} : Advance(cursor, c) < MaxLines * COLS /\ Cgaputc(c)

ScreenSpec == ScreenInit /\ [][ScreenNext]_screenVars

-----------------------------------------------------------------------------
(***************************************************************************)
(* Properties.                                                             *)
(***************************************************************************)
\* The cursor stays in the rows in use, so that the panic "pos under/overflow"
\* cannot happen and nothing is written behind the screen.
CursorInside ==
  pos \in 0 .. ROWS * COLS - 1 /\ ~cgaPanic

\* The screen shows a window of the paper: its rows are consecutive rows of what
\* was written, the cursor included, whatever was scrolled, wrapped or erased.
ShowsPaper ==
  \A i \in 0 .. ROWS * COLS - 1 : crt[i] = paper[i + cursor - pos] /\ (cursor - pos) % COLS = 0

\* cgaputc shows what was written, and keeps the cursor and its stores on the screen.
ScreenExact == CursorInside /\ ShowsPaper
=============================================================================
