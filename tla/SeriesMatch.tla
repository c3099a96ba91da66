----------------------------- MODULE SeriesMatch -----------------------------
(***************************************************************************)
(* One series and the two writers of its books' metadata                   *)
(* (server/internal/service/metadata/service.go): EditBook, a correction   *)
(* by hand, which locks what it sets, and the job MatchSeries, which links *)
(* the series to a provider's volume, applies the volume's issues book by  *)
(* book and is resumed by running it again.  Both read a row, then its     *)
(* locks, then write the whole row: nothing holds a transaction or a lock  *)
(* across the three.                                                       *)
(*                                                                         *)
(* Titles, credits and the other fields that derive nothing are left out;  *)
(* the arcs of a series are the books filed in them.                       *)
(***************************************************************************)
EXTENDS Integers, FiniteSets

CONSTANTS
    Books,      \* the series' books, as the numbers they are listed by
    Numbers,    \* issue numbers as they are written
    Norm,       \* number -> what normalizeNumber makes of it
    Derived,    \* number -> the kind ClassifyKind derives
    Scanned,    \* book -> number the scanner parsed
    Volumes,    \* the provider's candidates
    Issues,     \* volume -> (normalized number -> number of its issue)
    None,
    Runs, Edits,    \* match jobs and edit calls that can be under way at once
    MaxRuns         \* bound on match jobs

Kinds == {"issue", "special", "cover"}
Lockable == {"number", "kind"}
Fields == Lockable \cup {"ignored"}
Classes == {Norm[n] : n \in Numbers}

ASSUME MatchAssumption ==
    /\ Books \subseteq Nat /\ IsFiniteSet(Books)
    /\ Norm \in [Numbers -> Numbers]
    /\ Derived \in [Numbers -> Kinds \ {"cover"}]
    /\ Scanned \in [Books -> Numbers]
    /\ \A v \in Volumes : DOMAIN Issues[v] \subseteq Classes
    /\ \A v \in Volumes : \A k \in DOMAIN Issues[v] : Issues[v][k] \in Numbers
    /\ None \notin Volumes /\ None \notin Volumes \X Numbers
    /\ MaxRuns \in Nat

VARIABLES
    meta,        \* book -> number, kind, ignored flag and the provider's issue it is linked to
    locks,      \* book -> its locked fields
    series,     \* metadata state, the volume it is linked to, whether it still exists
    arcs,       \* the books the stored story arcs hold
    run,        \* match job -> how far it is and what it has gathered
    edit,       \* edit call -> how far it is and what it has read
    started,    \* number of match jobs so far
    spoiled     \* history: arcs may have been lost, see ResumeKeepsArcs

matchVars == <<meta, locks, series, arcs, run, edit, started, spoiled>>

Idle == [at |-> "idle"]

MatchInit ==
    /\ meta = [b \in Books |-> [number |-> Scanned[b], kind |-> Derived[Scanned[b]],
                               ignored |-> FALSE, id |-> None]]
    /\ locks = [b \in Books |-> {}]
    /\ series = [state |-> "none", link |-> None, there |-> TRUE]
    /\ arcs = {}
    /\ run = [r \in Runs |-> Idle] /\ edit = [c \in Edits |-> Idle]
    /\ started = 0 /\ spoiled = FALSE

-----------------------------------------------------------------------------
(***************************************************************************)
(* EditBook.                                                               *)
(***************************************************************************)
Ask(c, b, patch) == edit' = [edit EXCEPT ![c] = [at |-> "get", book |-> b, patch |-> patch]]

EditStep(c, from, e) == edit[c].at = from /\ edit' = [edit EXCEPT ![c] = e]

ReadBook(c) ==
    LET e == edit[c] IN
    /\ series.there
    /\ EditStep(c, "get",
           IF DOMAIN e.patch \cap Lockable = {} THEN [e EXCEPT !.at = "ignore"]
           ELSE [at |-> "locks", book |-> e.book, patch |-> e.patch, copy |-> meta[e.book]])
    /\ UNCHANGED <<meta, locks, series, arcs, run, started, spoiled>>

ReadLocks(c) ==
    LET e == edit[c] IN
    /\ series.there
    /\ EditStep(c, "locks",
           [at |-> "write", book |-> e.book, patch |-> e.patch,
            copy |-> [e.copy EXCEPT !.id = meta[e.book].id], locks |-> locks[e.book]])
    /\ UNCHANGED <<meta, locks, series, arcs, run, started, spoiled>>

\* A number that is set derives the kind anew, unless the kind is set with it.
Corrected(old, patch) ==
    LET number == IF "number" \in DOMAIN patch THEN patch.number ELSE old.number
    IN  [old EXCEPT !.number = number,
                    !.kind = IF "kind" \in DOMAIN patch THEN patch.kind
                             ELSE IF "number" \in DOMAIN patch THEN Derived[number] ELSE @]

\* The ignored column is not among those WriteBookMeta writes.
Put(b, new) == meta' = [meta EXCEPT ![b] = [new EXCEPT !.ignored = meta[b].ignored]]

WriteEdit(c) ==
    LET e == edit[c] IN
    /\ series.there
    /\ EditStep(c, "write",
           [at |-> IF "ignored" \in DOMAIN e.patch THEN "ignore" ELSE "ok",
            book |-> e.book, patch |-> e.patch])
    /\ Put(e.book, Corrected(e.copy, e.patch))
    /\ locks' = [locks EXCEPT ![e.book] = e.locks \cup (DOMAIN e.patch \cap Lockable)]
    /\ spoiled' = (spoiled \/ (meta'[e.book].number # meta[e.book].number /\ meta[e.book].id # None)
                           \/ meta'[e.book].id \notin {None, meta[e.book].id})
    /\ UNCHANGED <<series, arcs, run, started>>

SetIgnored(c) ==
    LET e == edit[c] IN
    /\ series.there
    /\ EditStep(c, "ignore", [at |-> "ok", book |-> e.book, patch |-> e.patch])
    /\ meta' = [meta EXCEPT ![e.book].ignored = e.patch.ignored]
    /\ UNCHANGED <<locks, series, arcs, run, started, spoiled>>

\* A statement fails, the book is gone, or the answer is lost: what is written stays.
FailEdit(c) ==
    /\ edit[c].at \in {"get", "locks", "write", "ignore", "ok"}
    /\ edit' = [edit EXCEPT ![c] = [at |-> "error"]]
    /\ UNCHANGED <<meta, locks, series, arcs, run, started, spoiled>>

EditRuns(c) == ReadBook(c) \/ ReadLocks(c) \/ WriteEdit(c) \/ SetIgnored(c) \/ FailEdit(c)

-----------------------------------------------------------------------------
(***************************************************************************)
(* MatchSeries.                                                            *)
(***************************************************************************)
Ended == {"done", "failed", "canceled"}
Working(r) == run[r].at \notin Ended \cup {"idle", "queued"}
HasIssue(g, b) == Norm[g.listed[b]] \in DOMAIN Issues[g.volume]
IssueId(g, b) == <<g.volume, Norm[g.listed[b]]>>
Next1(g) == CHOOSE b \in g.left : \A c \in g.left : b <= c

RunStep(r, from, g) == run[r].at = from /\ run' = [run EXCEPT ![r] = g]
End(r, how) == run' = [run EXCEPT ![r] = [at |-> how]]

Submit(r, v) ==
    /\ run[r].at = "idle" /\ started < MaxRuns
    /\ run' = [run EXCEPT ![r] = [at |-> "queued", volume |-> v]]
    /\ started' = started + 1

\* ListBySeries, then the provider's list of the volume's issues.
List(r) ==
    /\ series.there
    /\ RunStep(r, "queued", [at |-> "link", volume |-> run[r].volume,
                             listed |-> [b \in Books |-> meta[b].number],
                             written |-> {b \in Books : meta[b].id # None \/ locks[b] # {}}])
    /\ spoiled' = (spoiled \/ \E q \in Runs : Working(q))
    /\ UNCHANGED <<meta, locks, series, arcs, edit, started>>

Link(r) ==
    /\ series.there
    /\ RunStep(r, "link", [run[r] EXCEPT !.at = "skim"])
    /\ series' = [series EXCEPT !.state = "incomplete", !.link = run[r].volume]
    /\ spoiled' = (spoiled \/ series.link \notin {None, run[r].volume})
    /\ UNCHANGED <<meta, locks, arcs, edit, started>>

\* What an earlier run applied is skipped, and its part of the stored arcs kept.
Skim(r) ==
    LET g == run[r]
        applied == {b \in g.written : HasIssue(g, b) /\ meta[b].id = IssueId(g, b)}
    IN  /\ series.there
        /\ RunStep(r, "skim", [at |-> "next", volume |-> g.volume, listed |-> g.listed,
                               applied |-> applied, arcs |-> arcs \cap applied, left |-> Books])
        /\ UNCHANGED <<meta, locks, series, arcs, edit, started, spoiled>>

Skip(r) ==
    LET g == run[r] IN
    /\ g.at = "next" /\ g.left # {}
    /\ ~HasIssue(g, Next1(g)) \/ Next1(g) \in g.applied
    /\ RunStep(r, "next", [g EXCEPT !.left = @ \ {Next1(g)}])
    /\ UNCHANGED <<meta, locks, series, arcs, edit, started, spoiled>>

Fetch(r) ==
    LET g == run[r] IN
    /\ series.there
    /\ g.at = "next" /\ g.left # {}
    /\ HasIssue(g, Next1(g)) /\ Next1(g) \notin g.applied
    /\ RunStep(r, "next", [at |-> "locks", volume |-> g.volume, listed |-> g.listed,
                           applied |-> g.applied, arcs |-> g.arcs, left |-> g.left,
                           copy |-> meta[Next1(g)]])
    /\ UNCHANGED <<meta, locks, series, arcs, edit, started, spoiled>>

ReadRunLocks(r) ==
    LET g == run[r] IN
    /\ series.there
    /\ RunStep(r, "locks", [at |-> "write", volume |-> g.volume, listed |-> g.listed,
                            applied |-> g.applied, arcs |-> g.arcs, left |-> g.left,
                            copy |-> g.copy, locks |-> locks[Next1(g)]])
    /\ UNCHANGED <<meta, locks, series, arcs, edit, started, spoiled>>

AppliedAfresh(old, locked, number) ==  \* mutation: the kind is derived although it is locked
    LET n == IF "number" \in locked THEN old.number ELSE number
    IN  [old EXCEPT !.number = n, !.kind = Derived[n]]

Applied(old, locked, number) ==
    LET n == IF "number" \in locked THEN old.number ELSE number
    IN  [old EXCEPT !.number = n, !.kind = IF "kind" \in locked THEN @ ELSE Derived[n]]

WriteIssue(r) ==
    LET g == run[r]
        b == Next1(g)
        number == Issues[g.volume][Norm[g.listed[b]]]
    IN  /\ series.there
        /\ RunStep(r, "write", [at |-> "credits", volume |-> g.volume, listed |-> g.listed,
                                applied |-> g.applied, arcs |-> g.arcs, left |-> g.left])
        /\ Put(b, [Applied(g.copy, g.locks, number) EXCEPT !.id = IssueId(g, b)])
        /\ locks' = [locks EXCEPT ![b] = g.locks]
        /\ UNCHANGED <<series, arcs, edit, started, spoiled>>

\* People, genres and characters; then the issue's arcs are noted.
WriteCredits(r) ==
    LET g == run[r] IN
    /\ series.there
    /\ RunStep(r, "credits", [at |-> "next", volume |-> g.volume, listed |-> g.listed,
                              applied |-> g.applied, arcs |-> g.arcs \cup {Next1(g)},
                              left |-> g.left \ {Next1(g)}])
    /\ UNCHANGED <<meta, locks, series, arcs, edit, started, spoiled>>

\* The provider refuses (a rate limit), or a statement fails, at one issue: the
\* arcs gathered so far are stored and the job fails.
StopAtIssueForgetting(r) ==  \* mutation: the arcs gathered so far are not stored
    /\ \/ run[r].at \in {"locks", "write", "credits"}
       \/ run[r].at = "next" /\ run[r].left # {}
    /\ End(r, "failed")
    /\ UNCHANGED <<meta, locks, series, arcs, edit, started, spoiled>>

StopAtIssue(r) ==
    LET g == run[r] IN
    /\ series.there
    /\ \/ g.at \in {"locks", "write", "credits"}
       \/ /\ g.at = "next" /\ g.left # {}
          /\ HasIssue(g, Next1(g)) /\ Next1(g) \notin g.applied
    /\ End(r, "failed")
    /\ arcs' = g.arcs
    /\ spoiled' = (spoiled \/ g.at = "credits")
    /\ UNCHANGED <<meta, locks, series, edit, started>>

\* A failure before the first issue or at the end, or the series is gone.
FailRun(r) ==
    LET g == run[r] IN
    /\ \/ g.at \in {"queued", "link", "skim", "finish"}
       \/ g.at = "next" /\ g.left = {}
       \/ ~series.there /\ Working(r)
    /\ End(r, "failed")
    /\ spoiled' = (spoiled \/ g.at = "next")
    /\ UNCHANGED <<meta, locks, series, arcs, edit, started>>

\* The job is cancelled at the head of the loop, where nothing is stored.
CancelRun(r) ==
    /\ run[r].at = "next" /\ run[r].left # {}
    /\ End(r, "canceled")
    /\ spoiled' = TRUE
    /\ UNCHANGED <<meta, locks, series, arcs, edit, started>>

WriteArcs(r) ==
    LET g == run[r] IN
    /\ series.there
    /\ g.at = "next" /\ g.left = {}
    /\ RunStep(r, "next", [at |-> "finish", volume |-> g.volume, listed |-> g.listed])
    /\ arcs' = g.arcs
    /\ UNCHANGED <<meta, locks, series, edit, started, spoiled>>

SetMatched(r) ==
    /\ series.there
    /\ run[r].at = "finish"
    /\ End(r, "done")
    /\ series' = [series EXCEPT !.state = "matched"]
    /\ UNCHANGED <<meta, locks, arcs, edit, started, spoiled>>

RunRuns(r) ==
    \/ List(r) \/ Link(r) \/ Skim(r)
    \/ Skip(r) \/ Fetch(r) \/ ReadRunLocks(r) \/ WriteIssue(r) \/ WriteCredits(r)
    \/ StopAtIssue(r) \/ FailRun(r) \/ CancelRun(r)
    \/ WriteArcs(r) \/ SetMatched(r)

-----------------------------------------------------------------------------
(***************************************************************************)
(* Properties.                                                             *)
(***************************************************************************)
ReadBefore(g, b) == g.copy # meta[b] \/ g.locks # locks[b]
StaleWrite(b) ==
    \/ \E c \in Edits : edit[c].at = "write" /\ edit[c].book = b /\ ReadBefore(edit[c], b)
    \/ \E r \in Runs : run[r].at = "write" /\ Next1(run[r]) = b /\ ReadBefore(run[r], b)
Sets(b, f) ==
    \E c \in Edits :
        /\ edit[c].at = "write" /\ edit[c].book = b
        /\ f \in DOMAIN edit[c].patch \/ (f = "kind" /\ "number" \in DOMAIN edit[c].patch)

\* What a user has corrected, and its lock, outlast every match of the series:
\* only a later correction of that field (of the number, for a kind) changes it,
\* or a write by somebody who had read the book before (service.go:365-367).
CorrectionsHold ==
    [][\A b \in Books, f \in Lockable :
          f \in locks[b] /\ (meta'[b][f] # meta[b][f] \/ f \notin locks'[b]) =>
              Sets(b, f) \/ StaleWrite(b)]_<<meta, locks>>

\* A match that was interrupted at an issue and run again loses no story arc: when
\* the series is declared matched, every book the volume has an issue for is
\* filed in its arcs (service.go:255-257, 317-319).  The exceptions are in spoiled:
\* runs that overlap, a run cancelled between two issues or failing after a book
\* was linked and before its arcs were noted, a book renumbered after it was
\* linked, an edit that writes back a link it had read, and a series linked to
\* another volume in between.
ResumeKeepsArcs ==
    [][\A r \in Runs : run[r].at = "finish" /\ run'[r].at = "done" /\ ~spoiled =>
          {b \in Books : HasIssue(run[r], b)} \subseteq arcs]_<<run, arcs>>
=============================================================================
