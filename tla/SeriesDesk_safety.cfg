\* Two files read as one number and a provider with two volumes, one of which has
\* both numbers: five things the user does, two match jobs and two calls under
\* way at once, any of which fails, is cancelled or is overtaken.
\* The series may be deleted, and the bounds end every behaviour: no deadlock check.
SPECIFICATION DeskSpec
CONSTANTS
    n1 = n1
    n01 = n01
    n2 = n2
    fe = fe
    v = v
    w = w
    r1 = r1
    r2 = r2
    c1 = c1
    c2 = c2
    None = None
    Blank = Blank
    Books = {1, 2}
    Numbers = {n1, n01, n2, fe}
    Volumes = {v, w}
    Runs = {r1, r2}
    Edits = {c1, c2}
    MaxRuns = 2
    MaxActs = 5
    Norm <- MCNorm
    Derived <- MCDerived
    Scanned <- MCScanned
    Suggested <- MCSuggested
    Issues <- MCIssues
SYMMETRY Symmetric
CHECK_DEADLOCK FALSE
INVARIANT DetailFollows
PROPERTIES CorrectionsHold  SaveSendsWhatWasTouched
