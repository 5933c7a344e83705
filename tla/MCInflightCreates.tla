--------------------------- MODULE MCInflightCreates ---------------------------
EXTENDS InflightCreates, TLC

\* jobs and pods are told apart by nothing but their identity
Symmetry == Permutations(Job) \cup Permutations(Pod)
=============================================================================
