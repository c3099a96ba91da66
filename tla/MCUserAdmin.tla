---------------------------- MODULE MCUserAdmin ----------------------------
EXTENDS UserAdmin, TLC

CONSTANTS c1, c2, ann, bob

Symmetry == Permutations(Calls) \cup Permutations(Names)
============================================================================
