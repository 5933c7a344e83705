---------------------------- MODULE MCPodSwap ----------------------------
EXTENDS PodSwap, TLC

INSTANCE PodSwapContract

\* edits are told apart by nothing but their identity, unless one of them is resent
EditSymmetry == Permutations(Edit)
=============================================================================
