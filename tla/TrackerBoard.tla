---------------------------- MODULE TrackerBoard ----------------------------
(***************************************************************************)
(* The Tracker (apps/client/src/routes/Tracker.tsx): every series a row,   *)
(* every issue a cell.  The server projects the rows from the catalogue,   *)
(* the reader's progress and the issues the reader added                   *)
(* (service/organize/tracker.go); the screen filters them, lays the issues *)
(* out under a common ruler, marks cells and runs of cells, and shows a    *)
(* popover for the cell or the row header under the pointer.               *)
(*                                                                         *)
(* One library series, with a row for its annuals, and standalone tracks.  *)
(* Numbers are counted in halves: 2 is #1, 3 is #1.5.  A failed mark and   *)
(* the refetches around one are the subject of ClientCache.                *)
(***************************************************************************)
EXTENDS Integers, FiniteSets

CONSTANTS
    Files,        \* the series' files, as numbers: at equal keys they sort by them
    Forms,        \* what the catalogue may say of each: row, sort key, number
    Filed,        \* what it says at first
    Jotted,       \* the issues added to the series at first
    Followed,     \* the standalone tracks at first
    Additions,    \* ids of added issues, numbers above those of the books
    Numbers,      \* the numbers that are added
    Tracks,       \* ids of standalone tracks
    Filters,      \* the choices of the toolbar that are made
    Grouped,      \* whether the grouping chosen as a scope has a book of the series
    None,
    Slots,        \* calls that can be under way at once
    MaxMarks,     \* bound on clicks
    MaxEvents     \* bound on additions, deletions and what happens elsewhere

Form == [row : {"main", "annual", "left out"}, sort : Nat, number : Nat]
Scopes == {"all", "standalone", "library", "grouping"}
StatusFilters == {"all", "progress", "incomplete", "gaps"}
Filter == [scope : Scopes, hideRead : BOOLEAN, status : StatusFilters, named : BOOLEAN]
NoFilter == [scope |-> "all", hideRead |-> FALSE, status |-> "all", named |-> FALSE]

ASSUME ConstantsAssumption ==
    /\ Files \subseteq 1..99 /\ Additions \subseteq 1..99 /\ Numbers \subseteq Nat
    /\ \A b \in Files, o \in Additions : b < o
    /\ Tracks \cap {"main", "annual"} = {}
    /\ Forms \in [Files -> SUBSET Form] /\ DOMAIN Filed \subseteq Files
    /\ \A b \in DOMAIN Filed : Filed[b] \in Forms[b]
    /\ DOMAIN Jotted \subseteq Additions /\ \A o \in DOMAIN Jotted : Jotted[o] \in Numbers
    /\ Followed \subseteq Tracks
    /\ Filters \subseteq Filter /\ Grouped \in BOOLEAN /\ MaxMarks \in Nat /\ MaxEvents \in Nat

VARIABLES
    catalog,      \* the books, each in one of its forms
    added,        \* the reader's own issues: row and number
    standalone,   \* the standalone tracks
    progress,     \* what is read
    shown,        \* the rows as last fetched or marked since
    filter,       \* the toolbar
    scoped,       \* whether the grouping's books have been loaded
    anchor,       \* the cell clicked last: where a run starts
    pointer,      \* what the pointer is over
    hover,        \* what the popover is about
    timer,        \* hideTimer is running
    dialog,       \* the add popover, the dialog for a series, or the edit sheet
    calls, marks, events

server == <<catalog, added, standalone, progress>>
mouse == <<pointer, hover, timer>>
trackerVars == <<catalog, added, standalone, progress, shown, filter, scoped, anchor,
          pointer, hover, timer, dialog, calls, marks, events>>

Issue == [id : Files \cup Additions, at : Nat, num : Nat, state : {"read", "reading", "unread"}]
RowIds == {"main", "annual"} \cup Tracks
Idle == [op |-> "none"]
NoDialog == [kind |-> "none", row |-> None, busy |-> FALSE]

-----------------------------------------------------------------------------
(***************************************************************************)
(* The server's projection.                                                *)
(***************************************************************************)
InRow(r) == {b \in DOMAIN catalog : catalog[b].row = r}
Key(b) == 100 * catalog[b].sort + b

libraryIssue(b, num) == [id |-> b, at |-> Key(b), num |-> num, state |-> progress[b]]
overlayIssue(o) ==
    [id |-> o, at |-> 100 * added[o].num + o, num |-> added[o].num, state |-> progress[o]]

\* An added issue gives way to a book of the same number.
Taken(o) == \E b \in InRow("main") : catalog[b].sort = added[o].num
Main ==
    {libraryIssue(b, catalog[b].sort) : b \in InRow("main")} \cup
    {overlayIssue(o) : o \in {x \in DOMAIN added : added[x].row = "main" /\ ~Taken(x)}}

\* Annuals are in the order of the sort key and go by the figure of their
\* label; without one, by their place.
localSpecialNumber(b) ==
    IF catalog[b].number # 0 THEN catalog[b].number
    ELSE 2 * Cardinality({c \in InRow("annual") : Key(c) <= Key(b)})
Annual == {libraryIssue(b, localSpecialNumber(b)) : b \in InRow("annual")}

RowOf(r) ==
    IF r = "main" THEN Main ELSE IF r = "annual" THEN Annual
    ELSE {overlayIssue(o) : o \in {x \in DOMAIN added : added[x].row = r}}
Tracker ==
    [r \in standalone \cup {s \in {"main", "annual"} : RowOf(s) # {}} |-> RowOf(r)]

-----------------------------------------------------------------------------
(***************************************************************************)
(* What the screen draws.                                                  *)
(***************************************************************************)
Base(n) == n \div 2
Whole(i) == i.num % 2 = 0
owned(i) == i.id \in Files
Read(S) == {i \in S : i.state = "read"}
Gaps(S) == {i \in S : ~owned(i)}
First(S) == CHOOSE i \in S : \A j \in S : i.at <= j.at
Last(S) == CHOOSE i \in S : \A j \in S : j.at <= i.at

Complete(S) == S # {} /\ Read(S) = S
Started(S) == \E i \in S : i.state # "unread"

useScopeSeriesIds(r) ==
    CASE filter.scope = "all" -> TRUE
      [] filter.scope = "standalone" -> r \in Tracks
      [] filter.scope = "library" -> r \notin Tracks
      [] OTHER -> r \notin Tracks /\ (scoped => Grouped)

\* The name typed into the toolbar is taken to be the series'.
Visible ==
    {r \in DOMAIN shown :
        /\ filter.named => r \notin Tracks
        /\ useScopeSeriesIds(r)
        /\ filter.hideRead => ~Complete(shown[r])
        /\ filter.status = "progress" => Started(shown[r]) /\ ~Complete(shown[r])
        /\ filter.status = "incomplete" => ~Complete(shown[r])
        /\ filter.status = "gaps" => Gaps(shown[r]) # {}}

\* The panel above the grid counts the issues of the rows shown, and says how
\* many of the rows these are.
sum ==
    LET rows == {p \in Visible \X UNION {shown[r] : r \in Visible} : p[2] \in shown[p[1]]}
    IN  [issues |-> Cardinality(rows),
         read |-> Cardinality({p \in rows : p[2].state = "read"}),
         reading |-> Cardinality({p \in rows : p[2].state = "reading"}),
         gaps |-> Cardinality({p \in rows : ~owned(p[2])})]
SummaryPanel == [sum |-> sum, series |-> Cardinality(Visible), filtered |-> Visible # DOMAIN shown]

ruler == UNION {{Base(i.num) : i \in shown[r]} : r \in Visible}
Stack(r, s) == {i \in shown[r] : Base(i.num) = s}

\* Cells are drawn up to the column of the row's last issue.
\* Mutant: up to the column of its number of issues.
lastBaseByCount(r) == Cardinality(shown[r])
lastBase(r) == IF shown[r] = {} THEN -1 ELSE Base(Last(shown[r]).num)
TrackRow(r) == {s \in ruler : s <= lastBase(r) /\ Stack(r, s) # {}}

\* A click on a cell is a click on its whole number, without one on the first.
IssueCell(S) ==
    LET main == {i \in S : Whole(i)} IN First(IF main = {} THEN S ELSE main)

\* The popover of a cell has a button for each issue when there are several;
\* that of a header only leads to the series.
CellPopover(S) == IF Cardinality(S) > 1 THEN S ELSE {}
SeriesPopover(r) == r \in Visible
Shows(h) ==
    /\ h # None /\ h.row \in Visible
    /\ IF h.at = "header" THEN SeriesPopover(h.row) ELSE Stack(h.row, h.base) # {}

-----------------------------------------------------------------------------
(***************************************************************************)
(* The pointer and the popover.                                            *)
(***************************************************************************)
Away == [at |-> "away", row |-> None, base |-> 0]
Bare == [at |-> "bare", row |-> None, base |-> 0]
InPopover == [at |-> "popover", row |-> None, base |-> 0]
Cell(r, s) == [at |-> "cell", row |-> r, base |-> s]
Header(r) == [at |-> "header", row |-> r, base |-> 0]
Places ==
    {Away, Bare} \cup {Header(r) : r \in Visible}
    \cup (UNION {{Cell(r, s) : s \in TrackRow(r)} : r \in Visible})
    \cup (IF Shows(hover) THEN {InPopover} ELSE {})

\* The dialog for a series and the edit sheet cover the screen.
Modal == dialog.kind \in {"series", "edit"}

scheduleHide == timer' = (hover # None) /\ UNCHANGED hover
onHover(p) == hover' = p /\ timer' = FALSE
holdPopover == timer' = FALSE /\ UNCHANGED hover

\* Mutant: leaving the grid hides nothing.
MoveToWithoutLeave(p) ==
    /\ ~Modal /\ p \in Places \ {pointer} /\ pointer' = p
    /\ IF p.at \in {"cell", "header"} THEN onHover(p)
       ELSE IF p = InPopover THEN holdPopover
       ELSE IF Bare \in {p, pointer} /\ Away \in {p, pointer} THEN UNCHANGED <<hover, timer>>
       ELSE scheduleHide
    /\ UNCHANGED <<server, shown, filter, scoped, anchor, dialog, calls, marks, events>>

\* What is left schedules first, then what is entered takes over.
MoveTo(p) ==
    /\ ~Modal /\ p \in Places \ {pointer} /\ pointer' = p
    /\ IF p.at \in {"cell", "header"} THEN onHover(p)
       ELSE IF p = InPopover THEN holdPopover
       ELSE IF p = Bare /\ pointer = Away THEN UNCHANGED <<hover, timer>>
       ELSE scheduleHide
    /\ UNCHANGED <<server, shown, filter, scoped, anchor, dialog, calls, marks, events>>

\* What the pointer was over is drawn no more: nothing is told of it.
Unmounts == pointer' = IF pointer \in Places' THEN pointer ELSE Bare

TimerFires ==
    /\ timer /\ timer' = FALSE /\ hover' = None
    /\ UNCHANGED <<server, shown, filter, scoped, anchor, dialog, calls, marks, events>>
    /\ Unmounts

-----------------------------------------------------------------------------
TrackerInit ==
    /\ catalog = Filed
    /\ added = [o \in DOMAIN Jotted |-> [row |-> "main", num |-> Jotted[o]]]
    /\ standalone = Followed
    /\ progress = [i \in Files \cup Additions |-> "unread"]
    /\ shown = Tracker
    /\ filter = NoFilter /\ scoped = FALSE /\ anchor = None
    /\ pointer = Away /\ hover = None /\ timer = FALSE
    /\ dialog = NoDialog /\ calls = [c \in Slots |-> Idle] /\ marks = 0 /\ events = 0

Redrawn == UNCHANGED <<hover, timer>> /\ Unmounts

\* useTracker: after a mark, a progress event, a scan.
Refetch ==
    /\ shown' = Tracker /\ shown' # shown
    /\ UNCHANGED <<server, filter, scoped, anchor, dialog, calls, marks, events>>
    /\ Redrawn

Toolbar(f) ==
    /\ ~Modal /\ f # filter /\ pointer = Away
    /\ filter' = f /\ scoped' = FALSE
    /\ UNCHANGED <<server, shown, anchor, dialog, calls, marks, events>>
    /\ Redrawn

clearFilters == Visible = {} /\ DOMAIN shown # {} /\ Toolbar(NoFilter)

ScopeLoads ==
    /\ filter.scope = "grouping" /\ ~scoped /\ scoped' = TRUE
    /\ UNCHANGED <<server, shown, filter, anchor, dialog, calls, marks, events>>
    /\ Redrawn

-----------------------------------------------------------------------------
(***************************************************************************)
(* Marking.                                                                *)
(***************************************************************************)
More == events < MaxEvents
Happens == More /\ events' = events + 1 /\ UNCHANGED marks
Send(call) == \E c \in Slots : calls[c] = Idle /\ calls' = [calls EXCEPT ![c] = call]

\* The mark shows at once, in whatever row has the issue.
optimisticMark(ids, state) ==
    shown' = [r \in DOMAIN shown |->
                 {IF i.id \in ids THEN [i EXCEPT !.state = state] ELSE i : i \in shown[r]}]

Mark(ids, state) ==
    /\ optimisticMark(ids, state)
    /\ Send([op |-> "mark", ids |-> ids, state |-> state])
    /\ marks < MaxMarks /\ marks' = marks + 1
    /\ UNCHANGED <<server, filter, scoped, dialog, events>>
    /\ Redrawn

Toggle(r, i) ==
    /\ anchor' = [row |-> r, id |-> i.id, wasRead |-> i.state = "read"]
    /\ Mark({i.id}, IF i.state = "read" THEN "unread" ELSE "read")

\* Mutant: the run leaves out its last issue.
RunShort(r, i) ==
    LET start == {j \in shown[r] : j.id = anchor.id}
        Between(j) == \E k \in start \cup {i} : \E l \in start \cup {i} : k.at <= j.at /\ j.at < l.at
    IN  {j \in shown[r] : Between(j)}
\* From the anchor to the cell clicked; if the anchor has left the row, that
\* cell alone.
Run(r, i) ==
    LET start == {j \in shown[r] : j.id = anchor.id}
        Between(j) == \E k \in start \cup {i} : \E l \in start \cup {i} : k.at <= j.at /\ j.at <= l.at
    IN  {j \in shown[r] : Between(j)}

MarkRun(r, i) ==
    /\ Mark({j.id : j \in Run(r, i)}, IF anchor.wasRead THEN "unread" ELSE "read")
    /\ UNCHANGED anchor

\* A shift-click in the row of the anchor marks the run between them.
onToggle(r, i, shift) ==
    IF shift /\ anchor # None /\ anchor.row = r THEN MarkRun(r, i) ELSE Toggle(r, i)

ClickCell ==
    /\ pointer.at = "cell" /\ ~Modal
    /\ \E shift \in BOOLEAN :
          onToggle(pointer.row, IssueCell(Stack(pointer.row, pointer.base)), shift)

ClickPopover ==
    /\ pointer = InPopover /\ hover.at = "cell" /\ ~Modal
    /\ \E i \in CellPopover(Stack(hover.row, hover.base)) : onToggle(hover.row, i, FALSE)

\* handleMark*: a mark of an issue gone meanwhile fails, its run-mates do not.
MarkArrives(c) ==
    /\ calls[c].op = "mark"
    /\ progress' = [i \in DOMAIN progress |->
                       IF i \in calls[c].ids \cap (DOMAIN catalog \cup DOMAIN added)
                       THEN calls[c].state ELSE progress[i]]
    /\ calls' = [calls EXCEPT ![c] = Idle]
    /\ UNCHANGED <<catalog, added, standalone, shown, filter, scoped, anchor, mouse, dialog, marks, events>>

-----------------------------------------------------------------------------
(***************************************************************************)
(* Adding issues and tracks.                                               *)
(***************************************************************************)
Unseen == UNCHANGED <<shown, filter, scoped, anchor>>
Quiet == Unseen /\ UNCHANGED mouse

\* What covers the screen takes the pointer off the grid.
Covers == pointer' = Away /\ scheduleHide

\* The + at the end of each row; from the annuals' row it adds to the series.
setAddFor(r) ==
    /\ r \in Visible /\ pointer = Bare /\ ~Modal /\ More
    /\ dialog' = IF dialog.kind = "add" /\ dialog.row = r THEN NoDialog
                 ELSE [kind |-> "add", row |-> r, busy |-> FALSE]
    /\ UNCHANGED <<server, calls, marks, events>> /\ Quiet

AddIssuePopover(n) ==
    /\ dialog.kind = "add" /\ ~dialog.busy
    /\ dialog' = [dialog EXCEPT !.busy = TRUE]
    /\ Happens
    /\ Send([op |-> "add", row |-> IF dialog.row = "annual" THEN "main" ELSE dialog.row, num |-> n])
    /\ UNCHANGED server /\ Quiet

EditTrackSheet(t) ==
    /\ t \in Visible \cap Tracks /\ More
    /\ \/ /\ pointer = Header(t) /\ dialog = NoDialog
          /\ dialog' = [kind |-> "edit", row |-> t, busy |-> FALSE]
          /\ Covers /\ UNCHANGED <<calls, marks, events>>
       \/ /\ dialog.kind = "edit" /\ dialog.row = t /\ ~dialog.busy
          /\ dialog' = [dialog EXCEPT !.busy = TRUE]
          /\ Happens
          /\ Send([op |-> "delete", row |-> t])
          /\ UNCHANGED mouse
    /\ UNCHANGED server /\ Unseen

\* A track is created, then its issues are added to it.
AddSeriesDialog(n) ==
    /\ More
    /\ \/ /\ pointer = Away /\ dialog = NoDialog
          /\ dialog' = [kind |-> "series", row |-> None, busy |-> FALSE]
          /\ UNCHANGED <<calls, marks, events>>
       \/ /\ dialog.kind = "series" /\ ~dialog.busy
          /\ dialog' = [dialog EXCEPT !.busy = TRUE]
          /\ Happens
          /\ Send([op |-> "create", num |-> n])
    /\ UNCHANGED server /\ Quiet

onClose ==
    /\ dialog.kind # "none"
    /\ dialog' = NoDialog
    /\ UNCHANGED <<server, calls, marks, events>> /\ Quiet

\* Whatever the call was made from, its answer closes what is open of the kind.
Answered(kind, ok) ==
    dialog' = IF dialog.kind # kind THEN dialog
              ELSE IF ok THEN NoDialog ELSE [dialog EXCEPT !.busy = FALSE]

\* AddTrackIssues: a number the row has already is left as it is.
Exists(r) == r = "main" \/ r \in standalone
Insert(r, n) ==
    IF \E o \in DOMAIN added : added[o] = [row |-> r, num |-> n] THEN UNCHANGED <<added, progress>>
    ELSE \E o \in Additions \ DOMAIN added :
            /\ added' = [x \in DOMAIN added \cup {o} |->
                            IF x = o THEN [row |-> r, num |-> n] ELSE added[x]]
            /\ progress' = [progress EXCEPT ![o] = "unread"]

AddTrackIssues(c) ==
    /\ calls[c].op = "add"
    /\ IF Exists(calls[c].row) THEN Insert(calls[c].row, calls[c].num) ELSE UNCHANGED <<added, progress>>
    /\ Answered(IF "made" \in DOMAIN calls[c] THEN "series" ELSE "add", Exists(calls[c].row))
    /\ calls' = [calls EXCEPT ![c] = Idle]
    /\ UNCHANGED <<catalog, standalone, marks, events>> /\ Quiet

CreateTrack(c) ==
    /\ calls[c].op = "create"
    /\ \E t \in Tracks \ standalone :
          /\ standalone' = standalone \cup {t}
          /\ calls' = [calls EXCEPT ![c] = [op |-> "add", row |-> t, num |-> calls[c].num, made |-> TRUE]]
    /\ UNCHANGED <<catalog, added, progress, dialog, marks, events>> /\ Quiet

DeleteTrack(c) ==
    /\ calls[c].op = "delete"
    /\ standalone' = standalone \ {calls[c].row}
    /\ added' = [o \in {x \in DOMAIN added : added[x].row # calls[c].row} |-> added[o]]
    /\ Answered("edit", calls[c].row \in standalone)
    /\ calls' = [calls EXCEPT ![c] = Idle]
    /\ UNCHANGED <<catalog, progress, marks, events>> /\ Quiet

Lose(c) ==
    /\ calls[c].op \in {"add", "create", "delete"}
    /\ Answered(IF calls[c].op = "delete" THEN "edit"
                ELSE IF calls[c].op = "create" \/ "made" \in DOMAIN calls[c] THEN "series" ELSE "add", FALSE)
    /\ calls' = [calls EXCEPT ![c] = Idle]
    /\ UNCHANGED <<server, marks, events>> /\ Quiet

-----------------------------------------------------------------------------
(***************************************************************************)
(* Scans, edits, other devices.                                            *)
(***************************************************************************)
Elsewhere == UNCHANGED <<standalone, dialog, calls>> /\ Happens /\ Quiet

BookEdited(b) ==
    /\ b \in DOMAIN catalog
    /\ \E f \in Forms[b] \ {catalog[b]} : catalog' = [catalog EXCEPT ![b] = f]
    /\ UNCHANGED <<added, progress>> /\ Elsewhere

\* The file goes: the series is kept as long as it has another.
BookLeaves(b) ==
    /\ b \in DOMAIN catalog /\ DOMAIN catalog # {b}
    /\ catalog' = [x \in DOMAIN catalog \ {b} |-> catalog[x]]
    /\ progress' = [progress EXCEPT ![b] = "unread"]
    /\ UNCHANGED added /\ Elsewhere

BookArrives(b) ==
    /\ b \in Files \ DOMAIN catalog
    /\ \E f \in Forms[b] : catalog' = [x \in DOMAIN catalog \cup {b} |-> IF x = b THEN f ELSE catalog[x]]
    /\ UNCHANGED <<added, progress>> /\ Elsewhere

ReadElsewhere(i, state) ==
    /\ progress[i] # state
    /\ i \in DOMAIN catalog \/ (i \in DOMAIN added /\ state # "reading")
    /\ progress' = [progress EXCEPT ![i] = state]
    /\ UNCHANGED <<catalog, added>> /\ Elsewhere

RemoveTrackIssue(o) ==
    /\ o \in DOMAIN added
    /\ added' = [x \in DOMAIN added \ {o} |-> added[x]]
    /\ UNCHANGED <<catalog, progress>> /\ Elsewhere

Screen ==
    \/ Refetch \/ ScopeLoads \/ clearFilters \/ \E f \in Filters : Toolbar(f)
    \/ ClickCell \/ ClickPopover \/ TimerFires \/ \E p \in Places : MoveTo(p)
    \/ onClose \/ \E n \in Numbers : AddIssuePopover(n) \/ AddSeriesDialog(n)
    \/ \E r \in RowIds : setAddFor(r) \/ EditTrackSheet(r)
Handlers ==
    \E c \in Slots :
        MarkArrives(c) \/ AddTrackIssues(c) \/ CreateTrack(c) \/ DeleteTrack(c) \/ Lose(c)
World ==
    \/ \E b \in Files : BookEdited(b) \/ BookLeaves(b) \/ BookArrives(b)
    \/ \E o \in Additions : RemoveTrackIssue(o)
    \/ \E i \in Files \cup Additions, s \in {"read", "reading", "unread"} : ReadElsewhere(i, s)

TrackerNext == Screen \/ Handlers \/ World
TrackerSpec == TrackerInit /\ [][TrackerNext]_trackerVars

\* A timer that has been set fires.
FairTrackerSpec == TrackerSpec /\ WF_trackerVars(TimerFires)
-----------------------------------------------------------------------------
TrackerTypes ==
    /\ DOMAIN catalog \subseteq Files /\ DOMAIN added \subseteq Additions
    /\ standalone \subseteq Tracks
    /\ DOMAIN shown \subseteq RowIds /\ \A r \in DOMAIN shown : shown[r] \subseteq Issue
    /\ filter \in Filter /\ scoped \in BOOLEAN /\ timer \in BOOLEAN

\* The numbers of a row grow with its order.
Ascending(S) == \A i, j \in S : i.at < j.at => i.num <= j.num

\* The rows hold every book that is not left out and every added issue no book
\* stands for, each once; and the rows on screen have a cell for each of their
\* issues, as many as the sums above them count, for the screen's first promise
\* "every issue a clickable cell" (Tracker.tsx, tracker.go): as long as the
\* figures of the annuals' labels grow with their sort keys.
EveryIssueHasACell ==
    /\ LET rows == Tracker
           In(r) == {i.id : i \in rows[r]}
       IN  /\ UNION {In(r) : r \in DOMAIN rows} =
                 {b \in DOMAIN catalog : catalog[b].row # "left out"}
                 \cup {o \in DOMAIN added : added[o].row = "main" => ~Taken(o)}
           /\ \A r, s \in DOMAIN rows : r # s => In(r) \cap In(s) = {}
           /\ \A r \in DOMAIN rows : Cardinality(In(r)) = Cardinality(rows[r])
    /\ (\A r \in Visible : Ascending(shown[r])) =>
          /\ \A r \in Visible : UNION {Stack(r, s) : s \in TrackRow(r)} = shown[r]
          /\ SummaryPanel.sum.issues = Cardinality(UNION {shown[r] : r \in Visible})

\* A run marks what the row shows between the anchor's number and the issue
\* clicked, whatever came and went in between since the anchor was set, as the
\* opposite of what the anchor was (Tracker.tsx onToggle).  Of several files of the
\* number clicked, a cell's click is on the first.
RunMarksTheStretch ==
    [][(marks' > marks /\ anchor # None /\ anchor' = anchor /\ pointer.at = "cell") =>
       LET row == shown[anchor.row]
           i == IssueCell(Stack(pointer.row, pointer.base))
       IN  Ascending(row) =>
             \A a, j \in row :
                /\ a.id = anchor.id
                /\ j = i \/ (a.num < j.num /\ j.num < i.num) \/ (i.num < j.num /\ j.num < a.num)
                => (\E k \in shown'[anchor.row] : k.id = j.id /\ k.state = "read") <=> ~anchor.wasRead]_trackerVars

\* With the pointer off the grid the popover closes, whatever rows and cells
\* went from under it (Tracker.tsx scheduleHide).
PopoverCloses == pointer = Away ~> (~Shows(hover) \/ pointer # Away)

\* What the code does not promise: an annual whose label has a lower figure
\* than the sort key of one before it hides that one's cell.
AnnualsHaveCells == \A r \in Visible : UNION {Stack(r, s) : s \in TrackRow(r)} = shown[r]
=============================================================================
