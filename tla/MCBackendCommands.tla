--------------------------- MODULE MCBackendCommands ---------------------------
EXTENDS BackendCommands, TLC

\* deliveries differ only by their uuid
JobSymmetry == Permutations(Job)
=============================================================================
