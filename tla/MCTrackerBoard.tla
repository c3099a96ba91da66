--------------------------- MODULE MCTrackerBoard ---------------------------
EXTENDS TrackerBoard, TLC

CONSTANTS t1, t2, c1, c2

Is(row, sort, number) == [row |-> row, sort |-> sort, number |-> number]

\* An issue #1; a #1.5 that may be filed as the annual #5, or as a variant cover;
\* a file to come, for the #2 that was added or an annual without a figure.
MCForms ==
    (1 :> {Is("main", 2, 2)}) @@
    (2 :> {Is("main", 3, 3), Is("annual", 10, 10), Is("left out", 0, 0)}) @@
    (3 :> {Is("main", 4, 4), Is("annual", 200, 0)})
MCFiled == (1 :> Is("main", 2, 2)) @@ (2 :> Is("main", 3, 3))
MCJotted == 11 :> 4

MCFilters ==
    {[NoFilter EXCEPT !.hideRead = TRUE], [NoFilter EXCEPT !.scope = "grouping", !.status = "gaps"]}
=============================================================================
