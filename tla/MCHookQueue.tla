---------------------------- MODULE MCHookQueue ----------------------------
EXTENDS HookQueue, TLC
Symmetry == Permutations(Workers)
=============================================================================
