---------------------------- MODULE MCFileSystem ----------------------------
EXTENDS FileSystem, TLC

Symmetry == Permutations(Names) \cup Permutations(Values)

\* After a power failure the run follows only histories in which some file is
\* still settled: nothing is claimed of the others.
Followed == damaged => \E n \in Names : settled[n] # None
=============================================================================
