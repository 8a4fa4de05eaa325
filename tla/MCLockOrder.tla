---------------------------- MODULE MCLockOrder -----------------------------
EXTENDS LockOrder, TLC

\* No definition tells two CPUs apart.
CPUSymmetry == Permutations(CPU)
=============================================================================
