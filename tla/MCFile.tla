------------------------------- MODULE MCFile -------------------------------
EXTENDS File, TLC

\* Which slot a process has makes no difference.
ProcessSymmetry == Permutations(Process)
=============================================================================
