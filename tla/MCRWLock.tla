------------------------------ MODULE MCRWLock ------------------------------
EXTENDS RWLock, TLC

Symmetry == Permutations(Threads \ MayInterrupt) \cup Permutations(MayInterrupt)
=============================================================================
