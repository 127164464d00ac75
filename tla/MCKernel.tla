------------------------------ MODULE MCKernel ------------------------------
EXTENDS Kernel

\* The control blocks other than the idle task's are interchangeable.
Symmetry == Permutations(Tasks \ {Idle})
=============================================================================
