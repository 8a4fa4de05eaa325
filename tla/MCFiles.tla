------------------------------- MODULE MCFiles ------------------------------
(***************************************************************************)
(* Descriptors, names and the blocks of files are checked in one run: a    *)
(* behaviour is one of File, of Names or of Mkfs.                          *)
(***************************************************************************)
EXTENDS File, Names, Mkfs, TLC

VARIABLE part

\* Which slot a process has makes no difference to descriptors or names.
FilesSymmetry == Permutations(Process) \cup Permutations(Caller)

\* The fields of a file that is not a pipe's are left over from its last use and
\* never read before they are set.
Fields == [f \in FileIds |-> IF type[f] = "FD_PIPE" THEN <<pipe[f], writable[f]>> ELSE <<>>]
FilesView ==
  <<part, ref, type, Fields, ends, irefs, opening, ofile, alive, todo, panic, namesVars, mkfsVars>>

\* Two names, and a name below a directory.
ShortPaths == {<<"a">>, <<"b">>, <<"a", "b">>}

\* What is written to the two inodes, and the order in which mkfs makes files.
MCBytes == <<{3}, {1, 2}>>
MCOrdered == <<2>>

MCInit ==
  /\ part \in {"file", "names", "blocks"}
  /\ Init /\ NamesInit /\ MkfsInit
  /\ part # "names" => dents[1]["a"] = 2

\* Calls on names, which may wait for each other, and on blocks run out.
MCNext ==
  /\ UNCHANGED part
  /\ \/ part = "file" /\ Next /\ UNCHANGED <<namesVars, mkfsVars>>
     \/ part = "names" /\ (NamesNext \/ UNCHANGED namesVars) /\ UNCHANGED <<vars, mkfsVars>>
     \/ part = "blocks" /\ (MkfsNext \/ UNCHANGED mkfsVars) /\ UNCHANGED <<vars, namesVars>>

MCSpec == MCInit /\ [][MCNext]_<<part, vars, namesVars, mkfsVars>>
=============================================================================
