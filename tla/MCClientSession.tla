-------------------------- MODULE MCClientSession --------------------------
EXTENDS ClientSession, TLC

CONSTANTS ann, bob, here, there, r1, r2

Symmetry == Permutations(Users) \cup Permutations(Servers) \cup Permutations(Requests)
=============================================================================
