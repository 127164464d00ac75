------------------------------ MODULE MCMutex ------------------------------
EXTENDS Mutex

Symmetry == Permutations(Tasks \ {Idle})
=============================================================================
