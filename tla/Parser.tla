------------------------------- MODULE Parser -------------------------------
(***************************************************************************)
(* The shell's parser (sh.c, parsecmd and below).  Positions in the        *)
(* command line stand for pointers into it.  A parse function takes the    *)
(* position *ps and returns the command, the new position and whether it   *)
(* panicked; the recursion of the C functions is kept.                     *)
(***************************************************************************)
EXTENDS Integers, Sequences, SequencesExt

CONSTANTS MAXARGS, \* arguments of a command
          MaxLine  \* bound: characters in a line

VARIABLES line, parsed

parserVars == <<line, parsed>>

\* "a" stands for characters that are neither space nor symbol.
Letters == {"a"}
Symbols == {"<", "|", ">", "&", ";", "(", ")"}
LineChars == Letters \cup Symbols \cup {" "}

NoCommand == [type |-> "none"]
NotParsed == [ok |-> FALSE, cmd |-> NoCommand, buf |-> <<>>]

\* *s, which is 0 at the end of the line.
CharAt(s) == IF s <= Len(line) THEN line[s] ELSE "0"

\* The first position from s on whose character is not in C.
Skip(s, C) ==
  CHOOSE e \in s .. Len(line) + 1 :
    CharAt(e) \notin C /\ \A i \in s .. e - 1 : CharAt(i) \in C

Blanks(s) == IF s > Len(line) THEN s ELSE Skip(s, {" "})

-----------------------------------------------------------------------------
\* gettoken: "w" for the code's 'a', "+" for >>.
TokenEnd(q, c) ==
  CASE c = "0" -> q
    [] c = ">" /\ CharAt(q + 1) = ">" -> q + 2
    [] c \in Letters -> Skip(q, Letters)
    [] OTHER -> q + 1
Token(q, c, eq) ==
  [tok |-> IF c \in Letters THEN "w" ELSE IF eq = q + 2 THEN "+" ELSE c,
   q |-> q, eq |-> eq, ps |-> Blanks(eq)]
TokenAt(q) == Token(q, CharAt(q), TokenEnd(q, CharAt(q)))
gettoken(ps) == TokenAt(Blanks(ps))

peek(ps, toks) == CharAt(Blanks(ps)) \in toks

Panic == [ok |-> FALSE, cmd |-> NoCommand, ps |-> 0]
Parsed(cmd, ps) == [ok |-> TRUE, cmd |-> cmd, ps |-> ps]

\* The constructors.
execcmd(argv) == [type |-> "EXEC", argv |-> argv]
redircmd(cmd, q, eq, mode) == [type |-> "REDIR", cmd |-> cmd, file |-> <<q, eq>>, mode |-> mode]
pipecmd(l, r) == [type |-> "PIPE", left |-> l, right |-> r]
listcmd(l, r) == [type |-> "LIST", left |-> l, right |-> r]
backcmd(cmd) == [type |-> "BACK", cmd |-> cmd]

\* parseredirs: what it wraps around a command is a sequence, innermost first.
RECURSIVE parseredirs(_, _)
Redir(rs, t, f) ==
  IF f.tok # "w" THEN [ok |-> FALSE, rs |-> rs, ps |-> t.ps]
  ELSE parseredirs(Append(rs, [q |-> f.q, eq |-> f.eq, mode |-> t.tok]), f.ps)
RedirBy(rs, t) == Redir(rs, t, gettoken(t.ps))
parseredirs(rs, ps) ==
  IF peek(ps, {"<", ">"}) THEN RedirBy(rs, gettoken(ps)) ELSE [ok |-> TRUE, rs |-> rs, ps |-> ps]

Redirected(cmd, rs) ==
  FoldLeft(LAMBDA c, r : redircmd(c, r.q, r.eq, r.mode), cmd, rs)

TooMany(argc) == argc >= MAXARGS

\* parseexec's loop.
RECURSIVE parseargs(_, _, _)
MoreArgs(argv, r) == IF r.ok THEN parseargs(argv, r.rs, r.ps) ELSE Panic
ParseArg(argv, rs, t) ==
  CASE t.tok = "0" -> Parsed(Redirected(execcmd(argv), rs), t.ps)
    [] t.tok # "w" -> Panic
    [] t.tok = "w" /\ TooMany(Len(argv) + 1) -> Panic
    [] OTHER -> MoreArgs(Append(argv, <<t.q, t.eq>>), parseredirs(rs, t.ps))
parseargs(argv, rs, ps) ==
  IF peek(ps, {"|", ")", "&", ";"}) THEN Parsed(Redirected(execcmd(argv), rs), ps)
  ELSE ParseArg(argv, rs, gettoken(ps))

RECURSIVE parseline(_)
RECURSIVE parsepipe(_)
RECURSIVE parseexec(_)

BlockRedirs(cmd, r) == IF r.ok THEN Parsed(Redirected(cmd, r.rs), r.ps) ELSE Panic
BlockEnd(l) ==
  IF l.ok /\ peek(l.ps, {")"}) THEN BlockRedirs(l.cmd, parseredirs(<<>>, gettoken(l.ps).ps))
  ELSE Panic
parseblock(ps) == BlockEnd(parseline(gettoken(ps).ps))

parseexec(ps) == IF peek(ps, {"("}) THEN parseblock(ps) ELSE MoreArgs(<<>>, parseredirs(<<>>, ps))

\* What follows the left end e of a pipeline.
PipeOf(e, r) == IF r.ok THEN Parsed(pipecmd(e.cmd, r.cmd), r.ps) ELSE Panic

\* Fault: the right end of a pipeline is a single command.
PipeRestOnce(e) ==
  IF e.ok /\ peek(e.ps, {"|"}) THEN PipeOf(e, parseexec(gettoken(e.ps).ps)) ELSE e

PipeRest(e) ==
  IF e.ok /\ peek(e.ps, {"|"}) THEN PipeOf(e, parsepipe(gettoken(e.ps).ps)) ELSE e
parsepipe(ps) == PipeRest(parseexec(ps))

\* parseline's loop over "&".
RECURSIVE parseback(_, _)
parseback(cmd, ps) ==
  IF peek(ps, {"&"}) THEN parseback(backcmd(cmd), gettoken(ps).ps) ELSE Parsed(cmd, ps)

ListOf(b, r) == IF r.ok THEN Parsed(listcmd(b.cmd, r.cmd), r.ps) ELSE Panic
ListRest(b) == IF peek(b.ps, {";"}) THEN ListOf(b, parseline(gettoken(b.ps).ps)) ELSE b
LineRest(p) == IF p.ok THEN ListRest(parseback(p.cmd, p.ps)) ELSE Panic
parseline(ps) == LineRest(parsepipe(ps))

-----------------------------------------------------------------------------
\* Where nulterminate writes a 0: after every word of the command.
RECURSIVE Ends(_)
Ends(cmd) ==
  CASE cmd.type = "EXEC" -> {cmd.argv[i][2] : i \in DOMAIN cmd.argv}
    [] cmd.type = "REDIR" -> Ends(cmd.cmd) \cup {cmd.file[2]}
    [] cmd.type = "BACK" -> Ends(cmd.cmd)
    [] OTHER -> Ends(cmd.left) \cup Ends(cmd.right)

\* The line after nulterminate.
nulterminate(cmd) ==
  [i \in 1 .. Len(line) + 1 |-> IF i \in Ends(cmd) THEN "0" ELSE CharAt(i)]

\* parsecmd's test that the whole line was parsed.
Leftovers(ps) == Blanks(ps) # Len(line) + 1

parsecmd ==
  LET l == parseline(1)
  IN  IF ~l.ok \/ Leftovers(l.ps) THEN [NotParsed EXCEPT !.buf = <<"0">>]
      ELSE [ok |-> TRUE, cmd |-> l.cmd, buf |-> nulterminate(l.cmd)]

\* The line grows, character by character as it is typed, and is parsed.
ParserInit == line = <<>> /\ parsed = NotParsed

Type(c) ==
  /\ parsed = NotParsed /\ Len(line) < MaxLine
  /\ line' = Append(line, c)
  /\ UNCHANGED parsed

Parse ==
  /\ parsed = NotParsed
  /\ parsed' = parsecmd
  /\ UNCHANGED line

ParserNext == Parse \/ \E c \in LineChars : Type(c)

ParserSpec == ParserInit /\ [][ParserNext]_parserVars

-----------------------------------------------------------------------------
(***************************************************************************)
(* Properties.  The grammar: the trees that a sequence of tokens has.      *)
(***************************************************************************)
RECURSIVE TokensFrom(_)
TokensFrom(s) ==
  LET t == gettoken(s) IN IF t.tok = "0" THEN <<>> ELSE <<t>> \o TokensFrom(t.ps)

Kinds(ts) == {ts[i].tok : i \in DOMAIN ts}
Redirs == {"<", ">", "+"}

\* A simple command: words, and redirections each followed by a word.
Files(ts) == {i + 1 : i \in {j \in DOMAIN ts : ts[j].tok \in Redirs}}
SimpleTrees(ts) ==
  LET words == SelectSeq([i \in DOMAIN ts |-> i], LAMBDA i : ts[i].tok = "w" /\ i \notin Files(ts))
      files == SelectSeq([i \in DOMAIN ts |-> i], LAMBDA i : i \in Files(ts))
  IN  IF /\ Kinds(ts) \subseteq Redirs \cup {"w"}
         /\ \A i \in Files(ts) : i \in DOMAIN ts /\ ts[i].tok = "w"
         /\ Len(words) < MAXARGS
      THEN {Redirected(execcmd([k \in DOMAIN words |-> <<ts[words[k]].q, ts[words[k]].eq>>]),
                       [k \in DOMAIN files |-> [q |-> ts[files[k]].q, eq |-> ts[files[k]].eq,
                                                mode |-> ts[files[k] - 1].tok]])}
      ELSE {}

RECURSIVE LineTrees(_)
RECURSIVE PipeTrees(_)

BlockTrees(ts) ==
  UNION {{Redirected(c, LET fs == SelectSeq([k \in 1 .. Len(ts) |-> k], LAMBDA k : k > j /\ ts[k].tok = "w")
                        IN [k \in DOMAIN fs |-> [q |-> ts[fs[k]].q, eq |-> ts[fs[k]].eq,
                                                 mode |-> ts[fs[k] - 1].tok]]) :
            c \in LineTrees(SubSeq(ts, 2, j - 1))} :
         j \in {i \in 2 .. Len(ts) :
                  /\ ts[1].tok = "(" /\ ts[i].tok = ")"
                  /\ (Len(ts) - i) % 2 = 0
                  /\ \A k \in i + 1 .. Len(ts) :
                       IF (k - i) % 2 = 1 THEN ts[k].tok \in Redirs ELSE ts[k].tok = "w"}}

CommandTrees(ts) == SimpleTrees(ts) \cup BlockTrees(ts)

PipeTrees(ts) ==
  CommandTrees(ts) \cup
  UNION {{pipecmd(l, r) : l \in CommandTrees(SubSeq(ts, 1, i - 1)), r \in PipeTrees(SubSeq(ts, i + 1, Len(ts)))} :
         i \in {j \in DOMAIN ts : ts[j].tok = "|"}}

\* Pipelines put into the background any number of times.
RECURSIVE BackTrees(_)
BackTrees(ts) ==
  PipeTrees(ts) \cup
  (IF ts # <<>> /\ Last(ts).tok = "&" THEN {backcmd(c) : c \in BackTrees(Front(ts))} ELSE {})

LineTrees(ts) ==
  BackTrees(ts) \cup
  UNION {{listcmd(l, r) : l \in BackTrees(SubSeq(ts, 1, i - 1)), r \in LineTrees(SubSeq(ts, i + 1, Len(ts)))} :
         i \in {j \in DOMAIN ts : ts[j].tok = ";"}}

\* parsecmd, which looks one token ahead and recurses, accepts exactly the
\* lines of the grammar, and returns the only tree that the line has.
ParsesGrammar ==
  parsed # NotParsed =>
    LineTrees(TokensFrom(1)) = IF parsed.ok THEN {parsed.cmd} ELSE {}

\* The words of a command: where they begin and end.
RECURSIVE WordsOf(_)
WordsOf(cmd) ==
  CASE cmd.type = "EXEC" -> Range(cmd.argv)
    [] cmd.type = "REDIR" -> WordsOf(cmd.cmd) \cup {cmd.file}
    [] cmd.type = "BACK" -> WordsOf(cmd.cmd)
    [] OTHER -> WordsOf(cmd.left) \cup WordsOf(cmd.right)

\* After nulterminate every word of the command, read up to the first 0, is
\* what was typed: no terminator falls inside a word, and none is missing where
\* a symbol follows the word directly.
WordsTerminated ==
  parsed.ok =>
    \A w \in WordsOf(parsed.cmd) :
      /\ parsed.buf[w[2]] = "0"
      /\ w[1] < w[2]
      /\ \A i \in w[1] .. w[2] - 1 : parsed.buf[i] = line[i] /\ line[i] \in Letters

\* The shell understands a line as the grammar does, and every word it hands to
\* exec is the word that was typed.
LinesUnderstood == ParsesGrammar /\ WordsTerminated
=============================================================================
