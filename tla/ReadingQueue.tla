---------------------------- MODULE ReadingQueue ----------------------------
(***************************************************************************)
(* A reading list on screen (apps/client/src/routes/ReadingListDetail.tsx) *)
(* with its three dialogs, the calls it makes, and the server that keeps   *)
(* the list (service/organize, store/sqlstore/reading_list.go).  The       *)
(* server orders the entries by a position and moves one by bisecting      *)
(* between two others; the screen works on the last list it fetched, by    *)
(* index, while its own calls, other devices and scans change it.          *)
(*                                                                         *)
(* Positions are integers Gap apart instead of floating-point numbers 1024 *)
(* apart, so that the room between two of them runs out within the model.  *)
(***************************************************************************)
EXTENDS Integers, Sequences, FiniteSets, Functions

CONSTANTS
    Books,        \* book rows; a file scanned again after its deletion gets a new one
    IssueOf,      \* the file each of them is made from: the scan's content hash
    Groups,       \* collections
    Members,      \* their books
    Entries,      \* ids of list entries
    Listed,       \* the issues the list starts with, in order
    None,
    Gap,          \* positionGap
    MaxPos,       \* bound on a position
    Calls,        \* calls that can be under way at once
    MaxEvents,    \* bound on the calls, scans, deletions and readings
    MaxPicked     \* bound on the picks of a dialog

ASSUME ConstantsAssumption ==
    /\ None \notin Books \cup Groups \cup Entries
    /\ Members \in [Groups -> SUBSET Books]
    /\ IsFiniteSet(Entries)
    /\ Listed \in Seq(Books) /\ \A j, k \in DOMAIN Listed : j # k => Listed[j] # Listed[k]
    /\ Gap \in Nat \ {0} /\ MaxPos \in Nat /\ Gap * Len(Listed) <= MaxPos
    /\ MaxEvents \in Nat /\ MaxPicked \in Nat

Issues == {IssueOf[b] : b \in Books}

VARIABLES
    catalog,      \* the books in the catalogue
    past,         \* the books that have left it, and the collections deleted
    finished,     \* those the reader has finished
    rows,         \* the entries of the list (reading_list_item)
    used,         \* the ids given out
    shown,        \* the entries as last fetched, in order
    showRead,     \* the toolbar's choice
    drag,         \* the row being dragged and the slot it hovers over
    dialog,       \* the open dialog and what is picked in it
    calls,        \* the requests under way
    events        \* how many of the bounded events have happened

server == <<catalog, past, finished, rows, used>>
screen == <<shown, showRead, drag, dialog>>
vars == <<catalog, past, finished, rows, used, shown, showRead, drag, dialog, calls, events>>

Row == [pos : -MaxPos..MaxPos, book : Books \cup {None}, group : Groups \cup {None},
        issue : Issues \cup {None}, hashed : BOOLEAN]
Shown == [id : Entries, group : Groups \cup {None}, books : SUBSET Books, done : SUBSET Books]
NoDrag == [at |-> 0, id |-> None, over |-> 0]
Closed == [kind |-> "none", picked |-> {}, entry |-> None, busy |-> FALSE]
Idle == [op |-> "none"]

-----------------------------------------------------------------------------
(***************************************************************************)
(* The list as the server keeps it.                                        *)
(***************************************************************************)
Linked == {rows[i].book : i \in DOMAIN rows} \ {None}
Referenced == {rows[i].group : i \in DOMAIN rows} \ {None}
Stale(i) == rows[i].book = None /\ rows[i].group = None
\* Mutant: the last position taken from the number of entries.
TopByCount == Gap * Cardinality(DOMAIN rows)
Top == IF rows = <<>> THEN 0
       ELSE CHOOSE p \in {rows[i].pos : i \in DOMAIN rows} :
               \A i \in DOMAIN rows : rows[i].pos <= p

\* ORDER BY position: entries at the same position come in any order.
Orders ==
    {s \in [1..Cardinality(DOMAIN rows) -> DOMAIN rows] :
        \A j, k \in DOMAIN s : j < k => /\ s[j] # s[k]
                                        /\ rows[s[j]].pos <= rows[s[k]].pos}

IndexIn(s, x) == CHOOSE k \in DOMAIN s : s[k] = x
\* Entries are listed once.
Without(s, x) ==
    IF \E k \in DOMAIN s : s[k] = x
    THEN LET k == IndexIn(s, x) IN SubSeq(s, 1, k - 1) \o SubSeq(s, k + 1, Len(s))
    ELSE s

\* The midpoint of two positions; next to one another they leave no room, and
\* rounding gives one of the two.
Midpoint(a, b) == {(a + b) \div 2, (a + b + 1) \div 2}

\* Where an entry goes that moves before another, or (None) to the end.
reorderPosition(s, x, before) ==
    LET rest == Without(s, x)
        k == IndexIn(rest, before)
        n == Len(rest)
    IN  IF before = None
        THEN {IF n = 0 THEN Gap ELSE rows[rest[n]].pos + Gap}
        ELSE IF k = 1 THEN {rows[rest[1]].pos - Gap}
                      ELSE Midpoint(rows[rest[k-1]].pos, rows[rest[k]].pos)

\* Rows put behind the others: the k-th of a request k gaps on, whether or not
\* those before it were skipped.
Appended(ids, what) ==
    [i \in DOMAIN rows \cup {ids[k] : k \in DOMAIN ids} |->
        IF i \in DOMAIN rows THEN rows[i]
        ELSE LET k == CHOOSE k \in DOMAIN ids : ids[k] = i
             IN  [what[k] EXCEPT !.pos = Top + Gap * k]]

\* Fresh ids for those of a request that are inserted.
Fresh(K) == {ids \in [K -> Entries \ used] : \A j, k \in K : j # k => ids[j] # ids[k]}

Listings(S) == {s \in [1..Cardinality(S) -> S] : \A j, k \in DOMAIN s : j # k => s[j] # s[k]}

\* A request's entries, those of them that are fit for the list.
Insert(s, what, fit) ==
    LET K == {k \in DOMAIN s : s[k] \in fit}
    IN  /\ Top + Gap * Len(s) <= MaxPos
        /\ \E ids \in Fresh(K) :
              /\ rows' = Appended(ids, [k \in K |-> what[s[k]]])
              /\ used' = used \cup {ids[k] : k \in K}

BookRow ==
    [b \in Books |-> [pos |-> 0, book |-> b, group |-> None, issue |-> IssueOf[b], hashed |-> TRUE]]
Placeholder ==
    [n \in Issues |-> [pos |-> 0, book |-> None, group |-> None, issue |-> n, hashed |-> FALSE]]
GroupRow ==
    [g \in Groups |-> [pos |-> 0, book |-> None, group |-> g, issue |-> None, hashed |-> FALSE]]

\* The list with the entries an update changes.
Updated(changed) == [i \in DOMAIN rows |-> IF i \in DOMAIN changed THEN changed[i] ELSE rows[i]]
Pointed(r, b) == [r EXCEPT !.book = b, !.issue = IssueOf[b], !.hashed = TRUE]
Unlinked(r) == [r EXCEPT !.book = None]
Dropped(S) == [i \in DOMAIN rows \ S |-> rows[i]]

-----------------------------------------------------------------------------
(***************************************************************************)
(* What the screen is given (handleGetReadingList) and draws.              *)
(***************************************************************************)
Cards(r) == (IF r.group # None THEN Members[r.group] ELSE {r.book}) \cap catalog
View(s) ==
    [k \in DOMAIN s |->
        LET r == rows[s[k]]
        IN  [id |-> s[k], group |-> r.group, books |-> Cards(r),
             done |-> Cards(r) \cap finished]]

ShownBooks == UNION {e.books : e \in Range(shown)}
ShownGroups == {e.group : e \in Range(shown)} \ {None}

\* The rows drawn: a finished issue of its own is hidden with the read ones.
Hidden(e) == ~showRead /\ e.group = None /\ e.books # {} /\ e.books = e.done
\* With no placeholder and no issue left to show, none is drawn, nor are the
\* collections: their members are all read, or they have none.
visibleCount ==
    Cardinality({k \in DOMAIN shown : shown[k].group = None /\ shown[k].books = {}})
    + Cardinality(IF showRead THEN ShownBooks ELSE UNION {e.books \ e.done : e \in Range(shown)})
Drawn == IF visibleCount = 0 THEN {} ELSE {k \in DOMAIN shown : ~Hidden(shown[k])}

\* What each kind of row lets the reader do besides dragging it.
StaleRow(e) == [opens |-> {}, links |-> TRUE]
ReadingRow(e) == [opens |-> e.books, links |-> FALSE]
CollectionGroup(e) == [opens |-> IF showRead THEN e.books ELSE e.books \ e.done, links |-> FALSE]
RowOf(e) ==
    IF e.group # None THEN CollectionGroup(e)
    ELSE IF e.books # {} THEN ReadingRow(e) ELSE StaleRow(e)

\* The header's Resume and Next unread go to a book of the list not finished.
Header == UNION {e.books \ e.done : e \in Range(shown)}

-----------------------------------------------------------------------------
Init ==
    /\ catalog = {Listed[k] : k \in DOMAIN Listed}
    /\ past = {} /\ finished = {}
    /\ \E ids \in {f \in [DOMAIN Listed -> Entries] :
                       \A j, k \in DOMAIN f : j # k => f[j] # f[k]} :
          /\ rows = [i \in Range(ids) |->
                        LET k == IndexIn(ids, i)
                        IN  [BookRow[Listed[k]] EXCEPT !.pos = Gap * k]]
          /\ used = Range(ids)
          /\ shown = [k \in DOMAIN Listed |->
                        [id |-> ids[k], group |-> None, books |-> {Listed[k]}, done |-> {}]]
    /\ showRead = FALSE
    /\ drag = NoDrag /\ dialog = Closed
    /\ calls = [c \in Calls |-> Idle] /\ events = 0

\* useReadingList: after a call of this screen, a scan's event, a remount.
Refetch ==
    /\ \E s \in Orders : shown' = View(s) /\ shown' # shown
    /\ UNCHANGED <<server, showRead, drag, dialog, calls, events>>

More == events < MaxEvents
Happens == More /\ events' = events + 1

\* A request leaves; the screen does not wait for it.
Send(call) ==
    /\ Happens
    /\ \E c \in Calls : calls[c] = Idle /\ calls' = [calls EXCEPT ![c] = call]

-----------------------------------------------------------------------------
(***************************************************************************)
(* The rows.                                                               *)
(***************************************************************************)
\* A gesture is begun while there is an event left for what it ends in.
Free == drag = NoDrag /\ dialog = Closed /\ More
DialogOps == {"add", "jot", "collect", "link"}
OpenedBy(op) == IF op = "jot" THEN "add" ELSE op

\* The toolbar has the choice only when something is read.
ToggleRead ==
    /\ Free /\ \E e \in Range(shown) : e.done # {}
    /\ showRead' = ~showRead
    /\ UNCHANGED <<server, shown, drag, dialog, calls, events>>

\* An issue is opened from the header or from a row, and read to its end.
Read(b) ==
    /\ Free
    /\ b \in Header \cup UNION {RowOf(shown[k]).opens : k \in Drawn}
    /\ b \in catalog \ finished
    /\ finished' = finished \cup {b} /\ Happens
    /\ UNCHANGED <<catalog, past, rows, used, screen, calls>>

RemoveRow(k) ==
    /\ Free /\ k \in Drawn
    /\ Send([op |-> "remove", id |-> shown[k].id, stage |-> "sent"])
    /\ UNCHANGED <<server, screen>>

\* drag.id is the entry under the reader's hand; the code keeps the index only.
startDrag(k) ==
    /\ Free /\ k \in Drawn
    /\ drag' = [at |-> k, id |-> shown[k].id, over |-> 0]
    /\ UNCHANGED <<server, shown, showRead, dialog, calls, events>>

\* Over the upper or the lower half of a row: the slot before or after it.
onRowDragOver(k) ==
    /\ drag # NoDrag /\ More /\ k \in Drawn
    /\ \E slot \in {k, k + 1} : slot # drag.over /\ drag' = [drag EXCEPT !.over = slot]
    /\ UNCHANGED <<server, shown, showRead, dialog, calls, events>>

endDrag ==
    /\ drag # NoDrag
    /\ drag' = NoDrag
    /\ UNCHANGED <<server, shown, showRead, dialog, calls, events>>

\* Mutant: the slot counted as if the dragged row were gone already.
BeforeIdPastIt ==
    LET slot == IF drag.over > drag.at THEN drag.over + 1 ELSE drag.over
    IN  IF slot <= Len(shown) THEN shown[slot].id ELSE None
\* The entry that is now in the slot: behind the last of them, none.
BeforeId == IF drag.over <= Len(shown) THEN shown[drag.over].id ELSE None

drop ==
    /\ drag # NoDrag /\ drag.over # 0
    /\ drag' = NoDrag
    /\ IF drag.at \in DOMAIN shown /\ BeforeId # shown[drag.at].id
       THEN Send([op |-> "move", id |-> shown[drag.at].id, before |-> BeforeId,
                  seen |-> [k \in DOMAIN shown |-> shown[k].id], slot |-> IF BeforeId = None THEN Len(shown) + 1 ELSE drag.over,
                  stage |-> "sent", pos |-> 0])
       ELSE UNCHANGED <<calls, events>>
    /\ UNCHANGED <<server, shown, showRead, dialog>>

-----------------------------------------------------------------------------
(***************************************************************************)
(* The dialogs: add issues (with its want-list tab), add collections, link *)
(* a placeholder.                                                          *)
(***************************************************************************)
OpenDialog(kind, e) ==
    /\ Free
    /\ dialog' = [Closed EXCEPT !.kind = kind, !.entry = e]
    /\ UNCHANGED <<server, shown, showRead, drag, calls, events>>

OpenLink(k) ==
    /\ k \in Drawn /\ RowOf(shown[k]).links
    /\ OpenDialog("link", shown[k].id)

\* What each of them lists to pick from: the catalogue, searched or series by
\* series; the want-list, typed in; the collections.
ExpandedSeries == catalog
ManualTab == Issues
AddCollectionDialog == Groups \ past
LinkIssueDialog == catalog \ ShownBooks
AddIssuesDialog == ExpandedSeries \cup ManualTab
Pickable ==
    CASE dialog.kind = "add" -> AddIssuesDialog
      [] dialog.kind = "collect" -> AddCollectionDialog
      [] OTHER -> {}

\* A row that shows as added takes no click, even if it is among the picked.
toggle(x) ==
    /\ More /\ x \in Pickable \ (ShownBooks \cup ShownGroups)
    /\ dialog' = [dialog EXCEPT !.picked = IF x \in @ THEN @ \ {x} ELSE @ \cup {x}]
    /\ Cardinality(dialog'.picked) <= MaxPicked
    /\ UNCHANGED <<server, shown, showRead, drag, calls, events>>

\* Escape, the backdrop and Cancel wait for the answer; the cross does not, and
\* leaves a call behind whose answer finds no dialog, or the next one.
onClose ==
    /\ dialog # Closed
    /\ dialog' = Closed
    /\ calls' = [c \in Calls |-> IF calls[c].op \in DialogOps
                                 THEN [calls[c] EXCEPT !.orphan = TRUE] ELSE calls[c]]
    /\ UNCHANGED <<server, shown, showRead, drag, events>>

\* Adding the picked issues, jotting the want-list, adding the collections.
CanAsk(what) == what # {} /\ ~dialog.busy
Ask(op, what) ==
    /\ CanAsk(what)
    /\ dialog' = [dialog EXCEPT !.busy = TRUE]
    /\ Send([op |-> op, picked |-> what, stage |-> "sent", orphan |-> FALSE])
    /\ UNCHANGED <<server, shown, showRead, drag>>

submit == dialog.kind = "add" /\ Ask("add", dialog.picked \cap Books)
submitManual == dialog.kind = "add" /\ Ask("jot", dialog.picked \cap Issues)
submitGroups == dialog.kind = "collect" /\ Ask("collect", dialog.picked)

link(b) ==
    /\ dialog.kind = "link" /\ ~dialog.busy
    /\ b \in LinkIssueDialog
    /\ dialog' = [dialog EXCEPT !.busy = TRUE]
    /\ Send([op |-> "link", id |-> dialog.entry, book |-> b, stage |-> "sent", orphan |-> FALSE])
    /\ UNCHANGED <<server, shown, showRead, drag>>

\* A call that succeeds closes the dialog of its kind, its own or a later one;
\* one that fails hands its own dialog back.
Answer(c) ==
    /\ calls[c].op \in DialogOps /\ calls[c].stage \in {"ok", "err"}
    /\ calls' = [calls EXCEPT ![c] = Idle]
    /\ dialog' = IF calls[c].stage = "ok"
                 THEN IF dialog.kind = OpenedBy(calls[c].op) THEN Closed ELSE dialog
                 ELSE IF calls[c].orphan THEN dialog ELSE [dialog EXCEPT !.busy = FALSE]
    /\ UNCHANGED <<server, shown, showRead, drag, events>>

-----------------------------------------------------------------------------
(***************************************************************************)
(* The server's handlers.                                                  *)
(***************************************************************************)
\* A write to the list: a move that has read it and not written yet is now
\* placed among other entries than it will join.
Outrun(cs) == [c \in Calls |-> IF cs[c].op = "move" /\ cs[c].stage = "placed"
                               THEN [cs[c] EXCEPT !.stage = "outrun"] ELSE cs[c]]
Ends(c) == calls' = Outrun([calls EXCEPT ![c] = Idle])
Stage(c, stage) == calls' = Outrun([calls EXCEPT ![c].stage = stage])
Besides == UNCHANGED <<catalog, past, finished, screen, events>>

\* ReorderReadingList reads the entries and computes the position ...
ReadsOrder(c) ==
    /\ calls[c].op = "move" /\ calls[c].stage = "sent"
    /\ LET x == calls[c].id
           y == calls[c].before
       IN  IF x \in DOMAIN rows /\ (y = None \/ y \in DOMAIN rows \ {x})
           THEN \E s \in Orders : \E p \in reorderPosition(s, x, y) :
                   /\ p \in -MaxPos..MaxPos
                   /\ calls' = [calls EXCEPT ![c].stage = "placed", ![c].pos = p]
           ELSE calls' = [calls EXCEPT ![c] = Idle]
    /\ UNCHANGED <<server, screen, events>>

\* ... and sets it in a statement of its own.
SetPosition(c) ==
    /\ calls[c].op = "move" /\ calls[c].stage \in {"placed", "outrun"}
    /\ rows' = Updated([i \in {calls[c].id} \cap DOMAIN rows |->
                         [rows[i] EXCEPT !.pos = calls[c].pos]])
    /\ Ends(c)
    /\ Besides /\ UNCHANGED used

RemoveItem(c) ==
    /\ calls[c].op = "remove"
    /\ rows' = Dropped({calls[c].id})
    /\ Ends(c)
    /\ Besides /\ UNCHANGED used

\* Mutant: the insert does not look for the issue in the list.
AddItemsAgain(c) ==
    /\ calls[c].op = "add" /\ calls[c].stage = "sent"
    /\ \E s \in Listings(calls[c].picked) : Insert(s, BookRow, catalog)
    /\ Stage(c, "ok")
    /\ Besides
\* One transaction; issues no longer there, and those listed, are skipped.
AddItems(c) ==
    /\ calls[c].op = "add" /\ calls[c].stage = "sent"
    /\ \E s \in Listings(calls[c].picked) :
          Insert(s, BookRow, catalog \ Linked)
    /\ Stage(c, "ok")
    /\ Besides

AddManualItems(c) ==
    /\ calls[c].op = "jot" /\ calls[c].stage = "sent"
    /\ \E s \in Listings(calls[c].picked) : Insert(s, Placeholder, Issues)
    /\ Stage(c, "ok")
    /\ Besides

\* One collection after the other; one that is gone ends the request.
AddCollections(c) ==
    /\ calls[c].op = "collect" /\ calls[c].stage = "sent"
    /\ \E g \in calls[c].picked :
          IF g \in past
          THEN UNCHANGED <<rows, used>> /\ Stage(c, "err")
          ELSE /\ Insert(<<g>>, GroupRow, Groups \ Referenced)
               /\ IF calls[c].picked = {g} THEN Stage(c, "ok")
                  ELSE calls' = Outrun([calls EXCEPT ![c].picked = @ \ {g}])
    /\ Besides

\* Refused when the issue is gone or has an entry already.
Relinkable(x, b) == b \in catalog /\ x \in DOMAIN rows /\ \A i \in DOMAIN rows \ {x} : rows[i].book # b
Relink(c) ==
    /\ calls[c].op = "link" /\ calls[c].stage = "sent"
    /\ IF Relinkable(calls[c].id, calls[c].book)
       THEN /\ rows' = Updated([i \in {calls[c].id} |-> Pointed(rows[i], calls[c].book)])
            /\ Stage(c, "ok")
       ELSE UNCHANGED rows /\ Stage(c, "err")
    /\ Besides /\ UNCHANGED used

\* The request, or its answer, is lost.
Lose(c) ==
    /\ calls[c] # Idle /\ calls[c].stage \in {"sent", "ok"}
    /\ calls' = [calls EXCEPT ![c] = IF @.op \in DialogOps THEN [@ EXCEPT !.stage = "err"] ELSE Idle]
    /\ UNCHANGED <<server, screen, events>>

-----------------------------------------------------------------------------
(***************************************************************************)
(* What happens besides: the owner's other devices, scans, deletions.      *)
(***************************************************************************)
Elsewhere ==
    /\ \/ \E s \in Orders : \E k \in DOMAIN s, slot \in 1..(Len(s) + 1) :
             Send([op |-> "move", id |-> s[k], before |-> IF slot <= Len(s) THEN s[slot] ELSE None,
                   seen |-> s, slot |-> slot, stage |-> "sent", pos |-> 0])
       \/ \E i \in DOMAIN rows : Send([op |-> "remove", id |-> i, stage |-> "sent"])
    /\ UNCHANGED <<server, screen>>

\* A scan drops a file's book: its entry keeps its place (ON DELETE SET NULL).
BookLeaves(b) ==
    /\ b \in catalog /\ Happens
    /\ catalog' = catalog \ {b} /\ past' = past \cup {b}
    /\ finished' = finished \ {b}
    /\ rows' = Updated([i \in {j \in DOMAIN rows : rows[j].book = b} |-> Unlinked(rows[i])])
    /\ calls' = Outrun(calls)
    /\ UNCHANGED <<used, screen>>

\* A scan makes a book of a file: an entry that keeps its hash is pointed at it.
\* Two of them would break the list's unique index, and the update fails.
Returned(b) == {i \in DOMAIN rows : Stale(i) /\ rows[i].hashed /\ rows[i].issue = IssueOf[b]}
RelinkStaleByHash(b) ==
    rows' = IF Cardinality(Returned(b)) = 1
            THEN Updated([i \in Returned(b) |-> Pointed(rows[i], b)]) ELSE rows
BookArrives(b) ==
    /\ b \in Books \ (catalog \cup past) /\ Happens
    /\ catalog' = catalog \cup {b}
    /\ RelinkStaleByHash(b)
    /\ calls' = Outrun(calls)
    /\ UNCHANGED <<past, finished, used, screen>>

\* A collection is deleted: the lists' references go with it (ON DELETE CASCADE).
GroupDeleted(g) ==
    /\ g \in Groups \ past /\ Happens
    /\ past' = past \cup {g}
    /\ rows' = Dropped({i \in DOMAIN rows : rows[i].group = g})
    /\ calls' = Outrun(calls)
    /\ UNCHANGED <<catalog, finished, used, screen>>

Dragging == \E k \in DOMAIN shown : startDrag(k) \/ onRowDragOver(k)
Rows == \E k \in DOMAIN shown : RemoveRow(k) \/ OpenLink(k)
Dialogs ==
    \/ OpenDialog("add", None) \/ OpenDialog("collect", None)
    \/ \E x \in Books \cup Issues \cup Groups : toggle(x)
    \/ submit \/ submitManual \/ submitGroups \/ onClose
    \/ \E b \in Books : link(b)
Handlers ==
    \E c \in Calls :
        \/ ReadsOrder(c) \/ SetPosition(c) \/ RemoveItem(c) \/ AddItems(c)
        \/ AddManualItems(c) \/ AddCollections(c) \/ Relink(c) \/ Lose(c) \/ Answer(c)
World ==
    \/ Elsewhere
    \/ \E b \in Books : BookLeaves(b) \/ BookArrives(b) \/ Read(b)
    \/ \E g \in Groups : GroupDeleted(g)

Next == Refetch \/ ToggleRead \/ Dragging \/ endDrag \/ drop \/ Rows \/ Dialogs \/ Handlers \/ World
Spec == Init /\ [][Next]_vars
-----------------------------------------------------------------------------
TypeOK ==
    /\ catalog \subseteq Books /\ past \subseteq Books \cup Groups /\ finished \subseteq catalog
    /\ used \subseteq Entries /\ DOMAIN rows \subseteq used
    /\ \A i \in DOMAIN rows : rows[i] \in Row
    /\ Range(shown) \subseteq Shown /\ showRead \in BOOLEAN
    /\ drag.over \in 0..(Cardinality(Entries) + 1)
    /\ dialog.picked \subseteq Books \cup Issues \cup Groups

\* No issue and no collection has two entries in the list, whatever dialogs,
\* other devices and scans add and link at the same time
\* (reading_list.go AddItems, Relink, RelinkStaleByHash).
NoBookTwice ==
    \A i, j \in DOMAIN rows : i # j =>
        /\ rows[i].book = rows[j].book => rows[i].book = None
        /\ rows[i].group = rows[j].group => rows[i].group = None

\* The list keeps the order its owner gave it: only a move reorders, and only
\* the entry it names, however requests and scans interleave; what is added
\* comes last; an issue leaves and returns in its entry's place
\* (organize/service.go reorderPosition, reading_list.go).
Order == INSTANCE ReadingOrder WITH
    entry <- [i \in DOMAIN rows |-> [book |-> rows[i].book, group |-> rows[i].group]],
    ahead <- {p \in (DOMAIN rows) \X (DOMAIN rows) : rows[p[1]].pos < rows[p[2]].pos}
ImplementsOrder == Order!Spec

\* The order a drop shows: the dragged row at the line drawn in the slot.
Landed(s, x, slot) ==
    Without(SubSeq(s, 1, slot - 1), x) \o <<x>> \o Without(SubSeq(s, slot, Len(s)), x)

\* A drop puts the entry where the line was drawn, among all the rows, hidden
\* ones too (ReadingListDetail.tsx drop, service.go reorderPosition): as long
\* as the server's list is the one on screen, nothing is written while the
\* position is computed, and there is room left for it.
DropLandsWhereShown ==
    [][\A c \in Calls :
          /\ calls[c].op = "move" /\ calls[c].stage = "placed" /\ calls'[c] = Idle
          /\ Orders = {calls[c].seen}
          /\ \A i \in DOMAIN rows \ {calls[c].id} : rows[i].pos # calls[c].pos
          => Orders' = {Landed(calls[c].seen, calls[c].id, calls[c].slot)}]_vars

\* What the code does not promise: the entry moved is the one the reader
\* grabbed (ReadingListDetail.tsx:185, "never reads stale state").
GrabbedIsMoved ==
    [][\A c \in Calls :
          calls'[c].op = "move" /\ calls[c] = Idle /\ drag # NoDrag /\ drag' = NoDrag
          => calls'[c].id = drag.id]_vars

\* What the code does not do: a placeholder of the want-list finds its issue
\* when a scan brings it (AddIssuesDialog.tsx:43, "link themselves to a real file").
PlaceholdersLink ==
    [][\A b \in catalog' \ catalog : \A i \in DOMAIN rows :
          Stale(i) /\ rows[i].issue = IssueOf[b]
          => \E j \in DOMAIN rows' : rows'[j].book = b]_vars
=============================================================================
