--------------------------- MODULE MCClientCache ---------------------------
EXTENDS ClientCache, TLC

CONSTANTS i1, i2, w1, w2, c1, c2

Symmetry == Permutations(Issues) \cup Permutations(Members) \cup Permutations(Ids)
\* A session at the tracker and the pages, or at the presence strip.
TwoScreens == {{"tracker", "detail"}, {"presence"}}
=============================================================================
