----------------------------- MODULE MCCatalog -----------------------------
(* A small library: two paths of one series, a content that is written,     *)
(* moved or copied, and one that is no whole archive.                       *)
EXTENDS Catalog, TLC

CONSTANTS f1, v1, v2, v3, v4, c1, c2, cut

MCFolder == [p \in Paths |-> f1]
MCBytes == [v \in Versions |-> CASE v \in {v1, v2} -> c1 [] v = v3 -> cut [] OTHER -> c2]

\* v1 and v2 have one content and versions are never ordered.
Symmetry == Permutations(Books) \cup Permutations(Scans) \cup Permutations({v1, v2})
=============================================================================
