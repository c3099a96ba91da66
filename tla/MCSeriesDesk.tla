---------------------------- MODULE MCSeriesDesk ----------------------------
EXTENDS SeriesDesk, TLC

CONSTANTS n1, n01, n2, fe, v, w, r1, r2, c1, c2

\* "001" and "1" are one number; "Futures End 1" files a book as a special.
MCNorm == n1 :> n1 @@ n01 :> n1 @@ n2 :> n2 @@ fe :> fe
MCDerived == n1 :> "issue" @@ n01 :> "issue" @@ n2 :> "issue" @@ fe :> "special"

\* Two files that were read as one number; one of them names a subtitle.
MCScanned == 1 :> n01 @@ 2 :> n01
MCSuggested == 1 :> None @@ 2 :> fe

MCIssues == v :> (n1 :> n1 @@ n2 :> n2) @@ w :> (n2 :> n2)

\* Neither jobs nor calls are told apart.
Symmetric == Permutations({r1, r2}) \cup Permutations({c1, c2})
=============================================================================
