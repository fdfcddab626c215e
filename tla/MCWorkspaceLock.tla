-------------------------- MODULE MCWorkspaceLock ---------------------------
EXTENDS WorkspaceLock, TLC

Symmetry == Permutations(Workers) \cup Permutations(Tasks)
=============================================================================
