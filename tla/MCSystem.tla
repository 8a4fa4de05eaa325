------------------------------ MODULE MCSystem ------------------------------
(***************************************************************************)
(* Parts of the system that share no state are checked in one run: a       *)
(* behaviour is one of Proc, Memory, Parser, Filters or Strings, and the   *)
(* other parts keep one initial state.                                     *)
(***************************************************************************)
EXTENDS Proc, Memory, Parser, Filters, Strings

VARIABLE part

\* Segments of a program (virtual address, size in memory, size in the file), and
\* the arguments of sbrk.
MCSegments == {<<0, 0, 0>>, <<0, 2, 2>>, <<0, 3, 1>>, <<1, 1, 1>>, <<2, 1, 1>>, <<0, 1, 2>>, <<4, 14, 3>>}
MCAmounts == {2, 3, -1, -2, -4}

\* What grep matches and reads.
MCPatterns == SeqOf({"a", "b", ".", "*", "^", "$"}, 4)
MCTexts == SeqOf({"a", "b"}, 3)
MCInputs == SeqOf({"a", "b", " ", "n"}, 5)
MCPattern == <<"a", "$">>

\* A format that ends in a lone % is left out: there printf and cprintf differ.
MCFormats == {f \in SeqOf({"%", "d", "s", "x", "q"}, 4) :
                f = <<>> \/ Last(f) # "%" \/ (Len(f) > 1 /\ f[Len(f) - 1] = "%")}
MCJobs ==
  {[fn |-> "move", d |-> d, s |-> s, n |-> n] : d \in 1 .. 4, s \in 1 .. 4, n \in 0 .. 3}
  \cup {[fn |-> "name", s |-> s, t |-> t] : s, t \in SeqOf({"a", "b"}, 4)}
  \cup {[fn |-> "path", s |-> s] : s \in SeqOf({"a", "b", "/"}, 6)}
  \cup {[fn |-> "int", n |-> n] : n \in -128 .. 127}
  \cup {[fn |-> "fmt", s |-> s] : s \in MCFormats}

MCInit ==
  /\ part \in {"proc", "memory", "parser", "filters", "strings"}
  /\ Init /\ MemInit /\ ParserInit
  /\ IF part = "filters" THEN FilterInit ELSE FilterStart(<<>>, <<>>, "file", <<>>)
  /\ IF part = "strings" THEN StringInit ELSE StringStart([fn |-> "int", n |-> 0])

procRest == <<memVars, parserVars, filterVars, stringVars>>
memRest == <<vars, parserVars, filterVars, stringVars>>
parserRest == <<vars, memVars, filterVars, stringVars>>
filterRest == <<vars, memVars, parserVars, stringVars>>
stringRest == <<vars, memVars, parserVars, filterVars>>

\* The programs end, and the calls on memory run out.
MCNext ==
  /\ UNCHANGED part
  /\ \/ part = "proc" /\ Next /\ UNCHANGED procRest
     \/ part = "memory" /\ (MemNext \/ UNCHANGED memVars) /\ UNCHANGED memRest
     \/ part = "parser" /\ (ParserNext \/ UNCHANGED parserVars) /\ UNCHANGED parserRest
     \/ part = "filters" /\ (FilterNext \/ UNCHANGED filterVars) /\ UNCHANGED filterRest
     \/ part = "strings" /\ (DoJob \/ UNCHANGED stringVars) /\ UNCHANGED stringRest

MCSpec == MCInit /\ [][MCNext]_<<part, vars, procRest>>
=============================================================================
