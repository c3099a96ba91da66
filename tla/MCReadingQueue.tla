--------------------------- MODULE MCReadingQueue ---------------------------
EXTENDS ReadingQueue, TLC

CONSTANTS a, a2, b, g, e1, e2, e3, e4, c1, c2

\* a2 is the book a scan makes of a's file.
IssueOfBook == (a :> "A") @@ (a2 :> "A") @@ (b :> "B")
MembersOf == g :> {b}
AAndB == <<a, b>>

Symmetry == Permutations(Entries) \cup Permutations(Calls)
=============================================================================
