------------------------- MODULE ReadingQueueProofs -------------------------
(***************************************************************************)
(* No issue and no collection gets two entries in a reading list, the list *)
(* implements ReadingOrder, and a drop puts the entry where it was shown:  *)
(* proved for every catalogue, every number of calls under way and         *)
(* whatever scans and other devices do meanwhile.                          *)
(***************************************************************************)
EXTENDS ReadingQueue, FiniteSetTheorems, FunctionTheorems, SequenceTheorems,
        WellFoundedInduction, TLAPS

\* An entry has the columns of a row, whatever its position.
Shaped(r) ==
    r = [pos |-> r.pos, book |-> r.book, group |-> r.group, issue |-> r.issue,
         hashed |-> r.hashed]

(***************************************************************************)
(* The inductive invariant: an entry stands for a book of the catalogue, a *)
(* collection or nothing, and its id has been given out.                   *)
(***************************************************************************)
EntriesOf(S) ==
    /\ DOMAIN rows \subseteq used /\ used \subseteq Entries
    /\ rows = [i \in DOMAIN rows |-> rows[i]]
    /\ \A i \in DOMAIN rows : Shaped(rows[i]) /\ rows[i].book \in S \cup {None}

Inv == catalog \subseteq Books /\ EntriesOf(catalog) /\ NoBookTwice

-----------------------------------------------------------------------------
(***************************************************************************)
(* Inserting: the fit entries of a request are new to the list.            *)
(***************************************************************************)
LEMMA InsertStep ==
    ASSUME Inv, UNCHANGED catalog,
           NEW s, NEW what, NEW fit,
           \A j, k \in DOMAIN s : j # k => s[j] # s[k],
           \A x \in fit : /\ Shaped(what[x]) /\ what[x].book \in catalog \cup {None}
                          /\ what[x].book \notin Linked /\ what[x].group \notin Referenced,
           \A x, y \in fit : x # y =>
               /\ what[x].book = what[y].book => what[x].book = None
               /\ what[x].group = what[y].group => what[x].group = None,
           Insert(s, what, fit)
    PROVE  Inv'
<1> DEFINE K == {k \in DOMAIN s : s[k] \in fit}
           row(k) == [what[s[k]] EXCEPT !.pos = Top + Gap * k]
<1>1. PICK ids \in Fresh(K) :
          /\ rows' = Appended(ids, [k \in K |-> what[s[k]]])
          /\ used' = used \cup {ids[k] : k \in K}
    BY DEF Insert
<1>2. /\ ids \in [K -> Entries \ used]
      /\ \A j, k \in K : j # k => ids[j] # ids[k]
    BY <1>1 DEF Fresh
<1>3. DOMAIN rows' = DOMAIN rows \cup {ids[k] : k \in K}
    BY <1>1, <1>2 DEF Appended
<1>4. \A i \in DOMAIN rows : rows'[i] = rows[i]
    BY <1>1 DEF Appended
<1>5. ASSUME NEW k \in K PROVE ids[k] \notin DOMAIN rows /\ rows'[ids[k]] = row(k)
    <2>1. ids[k] \notin DOMAIN rows
        BY <1>2 DEF Inv, EntriesOf
    <2>2. (CHOOSE h \in DOMAIN ids : ids[h] = ids[k]) = k
        BY <1>2
    <2> QED BY <1>1, <1>2, <2>1, <2>2 DEF Appended
<1>6. ASSUME NEW k \in K
      PROVE  /\ Shaped(rows'[ids[k]])
             /\ rows'[ids[k]].book = what[s[k]].book /\ rows'[ids[k]].group = what[s[k]].group
    <2>1. s[k] \in fit /\ Shaped(what[s[k]])
        OBVIOUS
    <2>2. /\ Shaped(row(k))
          /\ row(k).book = what[s[k]].book /\ row(k).group = what[s[k]].group
        BY <2>1 DEF Shaped
    <2> QED BY <1>5, <2>2
<1>7. ASSUME NEW k \in K
      PROVE  /\ rows'[ids[k]].book \in catalog \cup {None}
             /\ rows'[ids[k]].book \notin Linked /\ rows'[ids[k]].group \notin Referenced
             /\ \A h \in K : k # h =>
                  /\ rows'[ids[k]].book = rows'[ids[h]].book => rows'[ids[k]].book = None
                  /\ rows'[ids[k]].group = rows'[ids[h]].group => rows'[ids[k]].group = None
    <2>1. \A h \in K : s[h] \in fit
        OBVIOUS
    <2>2. \A h \in K : k # h => s[k] # s[h]
        OBVIOUS
    <2> HIDE DEF K, row
    <2> QED BY <1>6, <2>1, <2>2
<1> HIDE DEF K, row
<1>8. EntriesOf(catalog)'
    <2>1. DOMAIN rows' \subseteq used' /\ used' \subseteq Entries
        BY <1>1, <1>2, <1>3 DEF Inv, EntriesOf
    <2>2. rows' = [i \in DOMAIN rows' |-> rows'[i]]
        BY <1>1 DEF Appended
    <2>3. \A i \in DOMAIN rows' : Shaped(rows'[i]) /\ rows'[i].book \in catalog \cup {None}
        BY <1>2, <1>3, <1>4, <1>6, <1>7 DEF Inv, EntriesOf
    <2> QED BY <2>1, <2>2, <2>3 DEF EntriesOf
<1>9. NoBookTwice'
    <2> SUFFICES ASSUME NEW i \in DOMAIN rows', NEW j \in DOMAIN rows', i # j
                 PROVE  /\ rows'[i].book = rows'[j].book => rows'[i].book = None
                        /\ rows'[i].group = rows'[j].group => rows'[i].group = None
        BY DEF NoBookTwice
    <2>1. CASE i \in DOMAIN rows /\ j \in DOMAIN rows
        BY <1>4, <2>1 DEF Inv, NoBookTwice
    <2>2. ASSUME NEW k \in K, NEW h \in DOMAIN rows
          PROVE  /\ rows'[h].book = rows'[ids[k]].book => rows'[h].book = None
                 /\ rows'[h].group = rows'[ids[k]].group => rows'[h].group = None
        BY <1>4, <1>7 DEF Linked, Referenced
    <2>3. ASSUME NEW k \in K, NEW h \in K, k # h
          PROVE  /\ rows'[ids[k]].book = rows'[ids[h]].book => rows'[ids[k]].book = None
                 /\ rows'[ids[k]].group = rows'[ids[h]].group => rows'[ids[k]].group = None
        BY <1>7, <2>3
    <2>4. CASE i \in DOMAIN rows /\ j \notin DOMAIN rows
        BY <1>3, <2>2, <2>4
    <2>5. CASE i \notin DOMAIN rows /\ j \in DOMAIN rows
        BY <1>3, <2>2, <2>5
    <2>6. CASE i \notin DOMAIN rows /\ j \notin DOMAIN rows
        BY <1>3, <2>3, <2>6
    <2> QED BY <2>1, <2>4, <2>5, <2>6
<1> QED BY <1>8, <1>9 DEF Inv

LEMMA AddItemsStep ==
    ASSUME Inv, NEW c \in Calls, AddItems(c)
    PROVE  Inv'
<1>1. PICK s \in Listings(calls[c].picked) : Insert(s, BookRow, catalog \ Linked)
    BY DEF AddItems
<1>2. UNCHANGED catalog
    BY DEF AddItems, Besides
<1>3. \A j, k \in DOMAIN s : j # k => s[j] # s[k]
    BY <1>1 DEF Listings
<1>4. \A b \in catalog \ Linked :
          /\ Shaped(BookRow[b]) /\ BookRow[b].book = b /\ BookRow[b].group = None
    BY DEF BookRow, Shaped, Inv
<1>5. None \notin Referenced
    BY DEF Referenced
<1> QED BY <1>1, <1>2, <1>3, <1>4, <1>5, InsertStep

LEMMA AddManualItemsStep ==
    ASSUME Inv, NEW c \in Calls, AddManualItems(c)
    PROVE  Inv'
<1>1. PICK s \in Listings(calls[c].picked) : Insert(s, Placeholder, Issues)
    BY DEF AddManualItems
<1>2. UNCHANGED catalog
    BY DEF AddManualItems, Besides
<1>3. \A j, k \in DOMAIN s : j # k => s[j] # s[k]
    BY <1>1 DEF Listings
<1>4. \A n \in Issues :
          Shaped(Placeholder[n]) /\ Placeholder[n].book = None /\ Placeholder[n].group = None
    BY DEF Placeholder, Shaped
<1>5. None \notin Referenced /\ None \notin Linked
    BY DEF Referenced, Linked
<1> QED BY <1>1, <1>2, <1>3, <1>4, <1>5, InsertStep

LEMMA AddCollectionsStep ==
    ASSUME Inv, NEW c \in Calls, AddCollections(c)
    PROVE  Inv'
<1>1. PICK g \in calls[c].picked :
          \/ UNCHANGED <<rows, used>>
          \/ Insert(<<g>>, GroupRow, Groups \ Referenced)
    BY DEF AddCollections
<1>2. UNCHANGED catalog
    BY DEF AddCollections, Besides
<1>3. CASE UNCHANGED <<rows, used>>
    BY <1>2, <1>3 DEF Inv, EntriesOf, NoBookTwice
<1>4. CASE Insert(<<g>>, GroupRow, Groups \ Referenced)
    <2>1. \A h \in Groups \ Referenced :
              Shaped(GroupRow[h]) /\ GroupRow[h].book = None /\ GroupRow[h].group = h
        BY DEF GroupRow, Shaped
    <2>2. None \notin Linked
        BY DEF Linked
    <2>3. \A j, k \in DOMAIN <<g>> : j # k => <<g>>[j] # <<g>>[k]
        OBVIOUS
    <2> QED BY <1>2, <1>4, <2>1, <2>2, <2>3, InsertStep
<1> QED BY <1>1, <1>3, <1>4

-----------------------------------------------------------------------------
(***************************************************************************)
(* The other writes: an entry is pointed at a book that has no entry, or   *)
(* at nothing, or leaves.                                                  *)
(***************************************************************************)
LEMMA UpdateStep ==
    ASSUME Inv, NEW changed, DOMAIN changed \subseteq DOMAIN rows,
           rows' = Updated(changed), UNCHANGED used, catalog' \subseteq Books,
           \A i \in DOMAIN rows \ DOMAIN changed : rows[i].book \in catalog' \cup {None},
           \A i \in DOMAIN changed :
               /\ Shaped(changed[i]) /\ changed[i].book \in catalog' \cup {None}
               /\ changed[i].group = rows[i].group
               /\ \A j \in DOMAIN rows \ {i} :
                     changed[i].book # None =>
                       /\ j \notin DOMAIN changed => changed[i].book # rows[j].book
                       /\ j \in DOMAIN changed => changed[i].book # changed[j].book
    PROVE  Inv'
<1>1. DOMAIN rows' = DOMAIN rows
    BY DEF Updated
<1>2. \A i \in DOMAIN changed : rows'[i] = changed[i]
    BY DEF Updated
<1>3. \A i \in DOMAIN rows \ DOMAIN changed : rows'[i] = rows[i]
    BY DEF Updated
<1>4. \A i \in DOMAIN rows' : Shaped(rows'[i]) /\ rows'[i].book \in catalog' \cup {None}
    BY <1>1, <1>2, <1>3 DEF Inv, EntriesOf
<1>5. rows' = [i \in DOMAIN rows' |-> rows'[i]]
    BY DEF Updated
<1>6. EntriesOf(catalog)'
    BY <1>1, <1>4, <1>5 DEF Inv, EntriesOf
<1>7. \A i \in DOMAIN rows : rows'[i].group = rows[i].group
    BY <1>2, <1>3
<1>8. NoBookTwice'
    <2> SUFFICES ASSUME NEW i \in DOMAIN rows, NEW j \in DOMAIN rows, i # j
                 PROVE  /\ rows'[i].book = rows'[j].book => rows'[i].book = None
                        /\ rows'[i].group = rows'[j].group => rows'[i].group = None
        BY <1>1 DEF NoBookTwice
    <2>1. rows'[i].group = rows'[j].group => rows'[i].group = None
        BY <1>7 DEF Inv, NoBookTwice
    <2>2. CASE i \in DOMAIN changed
        BY <1>2, <1>3, <2>1, <2>2
    <2>3. CASE j \in DOMAIN changed
        BY <1>2, <1>3, <2>1, <2>3
    <2>4. CASE i \notin DOMAIN changed /\ j \notin DOMAIN changed
        BY <1>3, <2>4 DEF Inv, NoBookTwice
    <2> QED BY <2>1, <2>2, <2>3, <2>4
<1> QED BY <1>6, <1>8 DEF Inv

LEMMA SetPositionStep ==
    ASSUME Inv, NEW c \in Calls, SetPosition(c)
    PROVE  Inv'
<1> DEFINE changed == [i \in {calls[c].id} \cap DOMAIN rows |->
                         [rows[i] EXCEPT !.pos = calls[c].pos]]
<1>1. rows' = Updated(changed) /\ UNCHANGED <<used, catalog>>
    BY DEF SetPosition, Besides
<1>2. ASSUME NEW i \in DOMAIN changed
      PROVE  /\ Shaped(changed[i]) /\ changed[i].book = rows[i].book
             /\ changed[i].group = rows[i].group
    BY DEF Inv, EntriesOf, Shaped
<1>3. DOMAIN changed \subseteq DOMAIN rows /\ \A i, j \in DOMAIN changed : i = j
    OBVIOUS
<1> HIDE DEF changed
<1> QED BY <1>1, <1>2, <1>3, UpdateStep DEF Inv, EntriesOf, NoBookTwice

LEMMA RelinkStep ==
    ASSUME Inv, NEW c \in Calls, Relink(c)
    PROVE  Inv'
<1>1. CASE Relinkable(calls[c].id, calls[c].book)
    <2> DEFINE b == calls[c].book
               changed == [i \in {calls[c].id} |-> Pointed(rows[i], calls[c].book)]
    <2>1. rows' = Updated(changed) /\ UNCHANGED <<used, catalog>>
        BY <1>1 DEF Relink, Besides
    <2>2. DOMAIN changed \subseteq DOMAIN rows /\ \A i, j \in DOMAIN changed : i = j
        BY <1>1 DEF Relinkable
    <2>3. ASSUME NEW i \in DOMAIN changed
          PROVE  /\ Shaped(changed[i]) /\ changed[i].book = b /\ changed[i].group = rows[i].group
                 /\ b \in catalog /\ \A j \in DOMAIN rows \ {i} : rows[j].book # b
        <3>1. i = calls[c].id /\ i \in DOMAIN rows /\ Shaped(rows[i])
            BY <2>2 DEF Inv, EntriesOf
        <3>2. changed[i] = [rows[i] EXCEPT !.book = b, !.issue = IssueOf[b], !.hashed = TRUE]
            BY DEF Pointed
        <3>3. /\ Shaped(changed[i]) /\ changed[i].book = b /\ changed[i].group = rows[i].group
            BY <3>1, <3>2 DEF Shaped
        <3> QED BY <1>1, <3>1, <3>3 DEF Relinkable
    <2> HIDE DEF changed
    <2> QED BY <2>1, <2>2, <2>3, UpdateStep DEF Inv, EntriesOf
<1>2. CASE ~Relinkable(calls[c].id, calls[c].book)
    BY <1>2 DEF Relink, Besides, Inv, EntriesOf, NoBookTwice
<1> QED BY <1>1, <1>2

LEMMA BookLeavesStep ==
    ASSUME Inv, NEW b \in Books, BookLeaves(b)
    PROVE  Inv'
<1> DEFINE changed == [i \in {j \in DOMAIN rows : rows[j].book = b} |-> Unlinked(rows[i])]
<1>1. rows' = Updated(changed) /\ UNCHANGED used /\ catalog' = catalog \ {b}
    BY DEF BookLeaves
<1>2. DOMAIN changed \subseteq DOMAIN rows
    OBVIOUS
<1>3. ASSUME NEW i \in DOMAIN changed
      PROVE  Shaped(changed[i]) /\ changed[i].book = None /\ changed[i].group = rows[i].group
    BY DEF Inv, EntriesOf, Shaped, Unlinked
<1>4. \A i \in DOMAIN rows \ DOMAIN changed : rows[i].book # b
    OBVIOUS
<1> HIDE DEF changed
<1> QED BY <1>1, <1>2, <1>3, <1>4, UpdateStep DEF Inv, EntriesOf

\* A book is new to the catalogue, and points the one entry that waits for it.
LEMMA BookArrivesStep ==
    ASSUME Inv, NEW b \in Books, BookArrives(b)
    PROVE  Inv'
<1>1. UNCHANGED used /\ catalog' = catalog \cup {b} /\ b \notin catalog /\ b # None
    BY ConstantsAssumption DEF BookArrives
<1>2. CASE Cardinality(Returned(b)) = 1
    <2> DEFINE changed == [i \in Returned(b) |-> Pointed(rows[i], b)]
    <2>1. rows' = Updated(changed)
        BY <1>2 DEF BookArrives, RelinkStaleByHash
    <2>2. DOMAIN changed \subseteq DOMAIN rows
        BY DEF Returned
    <2>3. IsFiniteSet(Returned(b))
        <3>1. Returned(b) \subseteq Entries
            BY DEF Returned, Inv, EntriesOf
        <3> QED BY <3>1, FS_Subset, ConstantsAssumption
    <2>4. \A i, j \in Returned(b) : i = j
        BY <1>2, <2>3, FS_Singleton
    <2>5. ASSUME NEW i \in DOMAIN changed
          PROVE  Shaped(changed[i]) /\ changed[i].book = b /\ changed[i].group = rows[i].group
        <3>1. i \in DOMAIN rows /\ Shaped(rows[i])
            BY <2>2 DEF Inv, EntriesOf
        <3> QED BY <3>1 DEF Shaped, Pointed
    <2>6. \A i \in DOMAIN rows : rows[i].book # b
        BY <1>1 DEF Inv, EntriesOf
    <2>7. \A i, j \in DOMAIN changed : i = j
        BY <2>4
    <2> HIDE DEF changed
    <2> QED BY <1>1, <2>1, <2>2, <2>5, <2>6, <2>7, UpdateStep DEF Inv, EntriesOf
<1>3. CASE Cardinality(Returned(b)) # 1
    BY <1>1, <1>3 DEF BookArrives, RelinkStaleByHash, Inv, EntriesOf, NoBookTwice
<1> QED BY <1>2, <1>3

LEMMA DropStep ==
    ASSUME Inv, NEW S, rows' = Dropped(S), UNCHANGED <<used, catalog>>
    PROVE  Inv'
<1>1. DOMAIN rows' \subseteq DOMAIN rows /\ \A i \in DOMAIN rows' : rows'[i] = rows[i]
    BY DEF Dropped
<1>2. rows' = [i \in DOMAIN rows' |-> rows'[i]]
    BY DEF Dropped
<1> QED BY <1>1, <1>2 DEF Inv, EntriesOf, NoBookTwice

LEMMA InitInv == Init => Inv
<1> SUFFICES ASSUME Init PROVE Inv
    OBVIOUS
<1>1. PICK ids \in [DOMAIN Listed -> Entries] :
          /\ \A j, k \in DOMAIN ids : j # k => ids[j] # ids[k]
          /\ rows = [i \in Range(ids) |->
                       LET k == IndexIn(ids, i)
                       IN  [BookRow[Listed[k]] EXCEPT !.pos = Gap * k]]
          /\ used = Range(ids)
    BY DEF Init
<1>2. ASSUME NEW k \in DOMAIN Listed
      PROVE  /\ ids[k] \in DOMAIN rows /\ IndexIn(ids, ids[k]) = k
             /\ Shaped(rows[ids[k]]) /\ rows[ids[k]].book = Listed[k]
             /\ rows[ids[k]].group = None
    <2>1. Listed[k] \in Books /\ DOMAIN ids = DOMAIN Listed
        BY ConstantsAssumption
    <2>2. IndexIn(ids, ids[k]) = k
        BY <1>1, <2>1 DEF IndexIn
    <2>3. ids[k] \in Range(ids)
        BY <2>1 DEF Range
    <2>4. rows[ids[k]] = [BookRow[Listed[k]] EXCEPT !.pos = Gap * k]
        BY <1>1, <2>2, <2>3
    <2> QED BY <1>1, <2>1, <2>2, <2>3, <2>4 DEF BookRow, Shaped
<1>3. \A i \in DOMAIN rows : \E k \in DOMAIN Listed : i = ids[k]
    BY <1>1 DEF Range
<1>4. catalog \subseteq Books
    BY ConstantsAssumption DEF Init
<1>5. used \subseteq Entries /\ DOMAIN rows \subseteq used
      /\ rows = [i \in DOMAIN rows |-> rows[i]]
    BY <1>1 DEF Range
<1>6. EntriesOf(catalog)
    <2>1. \A k \in DOMAIN Listed : Listed[k] \in catalog
        BY DEF Init
    <2> QED BY <1>2, <1>3, <1>5, <2>1 DEF EntriesOf
<1>7. NoBookTwice
    BY <1>2, <1>3, ConstantsAssumption DEF NoBookTwice
<1> QED BY <1>4, <1>6, <1>7 DEF Inv

LEMMA InvStep == Inv /\ [Next]_vars => Inv'
<1> SUFFICES ASSUME Inv, [Next]_vars PROVE Inv'
    OBVIOUS
<1>1. CASE UNCHANGED <<catalog, rows, used>>
    BY <1>1 DEF Inv, EntriesOf, NoBookTwice
<1>2. ASSUME Refetch \/ ToggleRead \/ Dragging \/ endDrag \/ drop \/ Rows \/ Dialogs \/ Elsewhere
      PROVE  UNCHANGED <<catalog, rows, used>>
    BY <1>2 DEF Refetch, ToggleRead, Dragging, startDrag, onRowDragOver, endDrag, drop, Rows,
                RemoveRow, OpenLink, OpenDialog, Dialogs, toggle, submit, submitManual,
                submitGroups, Ask, onClose, link, Elsewhere, server
<1>3. ASSUME NEW b \in Books, Read(b)
      PROVE  UNCHANGED <<catalog, rows, used>>
    BY <1>3 DEF Read
<1>4. ASSUME NEW c \in Calls, ReadsOrder(c) \/ Lose(c) \/ Answer(c)
      PROVE  UNCHANGED <<catalog, rows, used>>
    BY <1>4 DEF ReadsOrder, Lose, Answer, server
<1>5. ASSUME NEW c \in Calls, RemoveItem(c) PROVE Inv'
    BY <1>5, DropStep DEF RemoveItem, Besides
<1>6. ASSUME NEW g \in Groups, GroupDeleted(g) PROVE Inv'
    BY <1>6, DropStep DEF GroupDeleted
<1>7. CASE Handlers
    BY <1>1, <1>4, <1>5, <1>7, SetPositionStep, AddItemsStep, AddManualItemsStep,
       AddCollectionsStep, RelinkStep DEF Handlers
<1>8. CASE World
    BY <1>1, <1>2, <1>3, <1>6, <1>8, BookLeavesStep, BookArrivesStep DEF World
<1>9. CASE UNCHANGED vars
    BY <1>1, <1>9 DEF vars
<1> QED BY <1>1, <1>2, <1>7, <1>8, <1>9 DEF Next

-----------------------------------------------------------------------------
\* No issue and no collection ever has two entries in the list.
THEOREM NoIssueTwice == Spec => []NoBookTwice
<1>1. Inv => NoBookTwice
    BY DEF Inv
<1> QED BY <1>1, InitInv, InvStep, PTL DEF Spec

-----------------------------------------------------------------------------
(***************************************************************************)
(* The order of the list.  The positions are bounded numbers, those of a   *)
(* move on its way too, and a request's entries are finitely many, so that *)
(* what is inserted gets a position beyond the last.                       *)
(***************************************************************************)
Position(p) == p \in Int /\ p <= MaxPos

\* The records of the requests under way.
Moved(r) ==
    /\ r = [op |-> "move", id |-> r.id, before |-> r.before, seen |-> r.seen, slot |-> r.slot,
            stage |-> r.stage, pos |-> r.pos]
    /\ r.stage \in {"placed", "outrun"} => Position(r.pos)
Removed(r) == r = [op |-> "remove", id |-> r.id, stage |-> r.stage]
Added(r) ==
    /\ r = [op |-> r.op, picked |-> r.picked, stage |-> r.stage, orphan |-> r.orphan]
    /\ r.op \in {"add", "jot", "collect"} /\ IsFiniteSet(r.picked)
LinkAsked(r) ==
    r = [op |-> "link", id |-> r.id, book |-> r.book, stage |-> r.stage, orphan |-> r.orphan]
Formed(r) == r = Idle \/ Moved(r) \/ Removed(r) \/ Added(r) \/ LinkAsked(r)

DialogInv ==
    /\ dialog = [kind |-> dialog.kind, picked |-> dialog.picked, entry |-> dialog.entry,
                 busy |-> dialog.busy]
    /\ IsFiniteSet(dialog.picked)
CallsInv == calls = [c \in Calls |-> calls[c]] /\ \A c \in Calls : Formed(calls[c])
PosInv == \A i \in DOMAIN rows : Position(rows[i].pos)
OrderInv == Inv /\ DialogInv /\ CallsInv /\ PosInv

LEMMA DialogStep ==
    ASSUME DialogInv, [Next]_vars PROVE DialogInv'
<1>1. CASE UNCHANGED dialog
    BY <1>1 DEF DialogInv
<1>2. CASE dialog' = Closed
    BY <1>2, FS_EmptySet DEF DialogInv, Closed
<1>3. ASSUME dialog' = [dialog EXCEPT !.busy = TRUE] \/ dialog' = [dialog EXCEPT !.busy = FALSE]
      PROVE  DialogInv'
    BY <1>3 DEF DialogInv
<1>4. ASSUME NEW kind, NEW e, OpenDialog(kind, e) PROVE DialogInv'
    BY <1>4, FS_EmptySet DEF OpenDialog, Closed, DialogInv
<1>5. ASSUME NEW x, toggle(x) PROVE DialogInv'
    <2>1. /\ dialog' = [dialog EXCEPT !.picked = dialog'.picked]
          /\ dialog'.picked = dialog.picked \ {x} \/ dialog'.picked = dialog.picked \cup {x}
        BY <1>5 DEF toggle, DialogInv
    <2>2. IsFiniteSet(dialog'.picked)
        BY <2>1, FS_AddElement, FS_RemoveElement DEF DialogInv
    <2> QED BY <2>1, <2>2 DEF DialogInv
<1>6. ASSUME NEW op, NEW what, Ask(op, what) PROVE DialogInv'
    BY <1>3, <1>6 DEF Ask
<1>7. CASE Dialogs
    <2>1. ASSUME NEW b \in Books, link(b) PROVE DialogInv'
        BY <1>3, <2>1 DEF link
    <2>2. ASSUME onClose PROVE DialogInv'
        BY <1>2, <2>2 DEF onClose
    <2> QED BY <1>4, <1>5, <1>6, <1>7, <2>1, <2>2 DEF Dialogs, submit, submitManual, submitGroups
<1>8. CASE Rows
    BY <1>1, <1>4, <1>8 DEF Rows, RemoveRow, OpenLink, screen
<1>9. CASE Refetch \/ ToggleRead \/ Dragging \/ endDrag \/ drop \/ World \/ UNCHANGED vars
    <2>1. UNCHANGED dialog
        BY <1>9 DEF Refetch, ToggleRead, Dragging, startDrag, onRowDragOver, endDrag, drop, World,
                    Elsewhere, BookLeaves, BookArrives, Read, GroupDeleted, screen, vars
    <2> QED BY <1>1, <2>1
<1>10. CASE Handlers
    <2>1. PICK c \in Calls : \/ ReadsOrder(c) \/ SetPosition(c) \/ RemoveItem(c) \/ AddItems(c)
                             \/ AddManualItems(c) \/ AddCollections(c) \/ Relink(c) \/ Lose(c)
                             \/ Answer(c)
        BY <1>10 DEF Handlers
    <2>2. CASE Answer(c)
        BY <1>1, <1>2, <1>3, <2>2 DEF Answer
    <2>3. CASE ~Answer(c)
        BY <1>1, <2>1, <2>3 DEF ReadsOrder, SetPosition, RemoveItem, AddItems, AddManualItems,
           AddCollections, Relink, Lose, Besides, screen
    <2> QED BY <2>2, <2>3
<1> QED BY <1>7, <1>8, <1>9, <1>10 DEF Next

\* The last position is a number no entry is behind.
LEMMA TopBounds ==
    ASSUME Inv, PosInv
    PROVE  Top \in Int /\ \A i \in DOMAIN rows : rows[i].pos <= Top
<1>1. CASE DOMAIN rows = {}
    <2>1. rows = <<>>
        BY <1>1 DEF Inv, EntriesOf
    <2> QED BY <1>1, <2>1 DEF Top
<1>2. CASE DOMAIN rows # {}
    <2> DEFINE P == {rows[i].pos : i \in DOMAIN rows}
               R == {n \in Nat : \E i \in DOMAIN rows : n = MaxPos - rows[i].pos}
    <2>1. \A i \in DOMAIN rows : MaxPos - rows[i].pos \in R
        BY ConstantsAssumption DEF PosInv, Position
    <2>2. PICK m \in R : \A r \in R : <<r, m>> \notin OpToRel(<, Nat)
        <3>1. R # {} /\ R \subseteq Nat
            BY <1>2, <2>1
        <3> HIDE DEF R
        <3> QED BY <3>1, NatLessThanWellFounded, WFMin
    <2>3. \A r \in R : ~(r < m)
        BY <2>2 DEF OpToRel
    <2>4. PICK i \in DOMAIN rows : m = MaxPos - rows[i].pos
        OBVIOUS
    <2>5. ASSUME NEW j \in DOMAIN rows PROVE rows[j].pos <= rows[i].pos
        <3>1. ~(MaxPos - rows[j].pos < MaxPos - rows[i].pos)
            BY <2>1, <2>3, <2>4
        <3> QED BY <3>1, ConstantsAssumption DEF PosInv, Position
    <2>6. Top = CHOOSE p \in P : \A j \in DOMAIN rows : rows[j].pos <= p
        <3>1. rows # <<>>
            BY <1>2
        <3> QED BY ONLY <3>1, Zenon DEF Top, P
    <2>7. \A j \in DOMAIN rows : rows[j].pos \in P
        OBVIOUS
    <2>8. Top \in P /\ \A j \in DOMAIN rows : rows[j].pos <= Top
        <3>1. \E p \in P : \A j \in DOMAIN rows : rows[j].pos <= p
            BY <2>5, <2>7
        <3> HIDE DEF P
        <3> QED BY <2>6, <3>1
    <2>9. PICK j \in DOMAIN rows : Top = rows[j].pos
        BY <2>8
    <2> QED BY <2>8, <2>9 DEF PosInv, Position
<1> QED BY <1>1, <1>2

LEMMA MovesAreMoved ==
    ASSUME NEW r, Formed(r), r.op = "move" PROVE Moved(r)
<1>1. r # Idle
    BY DEF Idle
<1>2. ~Removed(r)
    BY DEF Removed
<1>3. ~Added(r)
    BY DEF Added
<1>4. ~LinkAsked(r)
    BY DEF LinkAsked
<1> QED BY <1>1, <1>2, <1>3, <1>4 DEF Formed

\* A move whose position has been computed.
LEMMA PlacedMoved ==
    ASSUME NEW r, Moved(r), NEW p, Position(p)
    PROVE  Moved([r EXCEPT !.stage = "placed", !.pos = p])
<1> DEFINE t == [op |-> "move", id |-> r.id, before |-> r.before, seen |-> r.seen,
                 slot |-> r.slot, stage |-> "placed", pos |-> r.pos]
           q == [op |-> "move", id |-> r.id, before |-> r.before, seen |-> r.seen,
                 slot |-> r.slot, stage |-> "placed", pos |-> p]
<1>1. [r EXCEPT !.stage = "placed"] = t
    BY DEF Moved
<1>2. [t EXCEPT !.pos = p] = q
    OBVIOUS
<1>3. [r EXCEPT !.stage = "placed", !.pos = p] = [[r EXCEPT !.stage = "placed"] EXCEPT !.pos = p]
    BY DEF Moved
<1>4. Moved(q)
    BY DEF Moved
<1> HIDE DEF t, q
<1> QED BY <1>1, <1>2, <1>3, <1>4

LEMMA OutrunFormed ==
    ASSUME NEW cs, \A c \in Calls : Formed(cs[c]), calls' = Outrun(cs)
    PROVE  CallsInv'
<1>1. \A c \in Calls : calls'[c] = IF cs[c].op = "move" /\ cs[c].stage = "placed"
                                   THEN [cs[c] EXCEPT !.stage = "outrun"] ELSE cs[c]
    BY DEF Outrun
<1>2. calls' = [c \in Calls |-> calls'[c]]
    BY DEF Outrun
<1>3. ASSUME NEW c \in Calls PROVE Formed(calls'[c])
    <2>1. CASE cs[c].op = "move" /\ cs[c].stage = "placed"
        <3>1. Moved(cs[c])
            BY <2>1, MovesAreMoved
        <3>2. Moved([cs[c] EXCEPT !.stage = "outrun"])
            BY <2>1, <3>1 DEF Moved
        <3> QED BY <1>1, <2>1, <3>2 DEF Formed
    <2>2. CASE ~(cs[c].op = "move" /\ cs[c].stage = "placed")
        BY <1>1, <2>2
    <2> QED BY <2>1, <2>2
<1> QED BY <1>2, <1>3 DEF CallsInv

\* A request of a dialog keeps its form whatever stage it is in.
LEMMA StageFormed ==
    ASSUME CallsInv, NEW c \in Calls, calls[c].op \in DialogOps, NEW stage
    PROVE  Formed([calls[c] EXCEPT !.stage = stage]) /\ Formed([calls[c] EXCEPT !.orphan = stage])
<1>1. Added(calls[c]) \/ LinkAsked(calls[c])
    BY DEF CallsInv, Formed, Idle, Moved, Removed, DialogOps
<1> QED BY <1>1 DEF Added, LinkAsked, Formed

LEMMA CallsStep ==
    ASSUME DialogInv, CallsInv, [Next]_vars PROVE CallsInv'
<1>1. CASE UNCHANGED calls
    BY <1>1 DEF CallsInv
<1>2. ASSUME NEW call, Formed(call), Send(call) PROVE CallsInv'
    BY <1>2 DEF Send, CallsInv
<1>3. ASSUME NEW c \in Calls, NEW call, Formed(call), calls' = [calls EXCEPT ![c] = call]
      PROVE  CallsInv'
    BY <1>3 DEF CallsInv
<1>4. ASSUME NEW c \in Calls, NEW call, Formed(call), calls' = Outrun([calls EXCEPT ![c] = call])
      PROVE  CallsInv'
    <2>1. \A d \in Calls : Formed([calls EXCEPT ![c] = call][d])
        BY <1>4 DEF CallsInv
    <2> QED BY <1>4, <2>1, OutrunFormed
<1>5. Formed(Idle)
    BY DEF Formed
<1>6. ASSUME NEW c \in Calls, NEW stage, calls[c].op \in DialogOps, Stage(c, stage)
      PROVE  CallsInv'
    <2>1. calls' = Outrun([calls EXCEPT ![c] = [calls[c] EXCEPT !.stage = stage]])
        BY <1>6 DEF Stage
    <2> QED BY <1>4, <1>6, <2>1, StageFormed
<1>7. ASSUME NEW c \in Calls, Ends(c) PROVE CallsInv'
    BY <1>4, <1>5, <1>7 DEF Ends
<1>8. ASSUME calls' = Outrun(calls) PROVE CallsInv'
    BY <1>8, OutrunFormed DEF CallsInv
<1>9. ASSUME NEW x, NEW y, NEW s, NEW slot
      PROVE  Formed([op |-> "move", id |-> x, before |-> y, seen |-> s, slot |-> slot,
                     stage |-> "sent", pos |-> 0])
    BY DEF Formed, Moved
<1>10. ASSUME NEW x PROVE Formed([op |-> "remove", id |-> x, stage |-> "sent"])
    BY DEF Formed, Removed
<1>11. CASE drop
    <2>1. CASE drag.at \in DOMAIN shown /\ BeforeId # shown[drag.at].id
        BY <1>2, <1>9, <1>11, <2>1 DEF drop
    <2> QED BY <1>1, <1>11, <2>1 DEF drop
<1>12. CASE Elsewhere
    BY <1>2, <1>9, <1>10, <1>12 DEF Elsewhere
<1>13. CASE Rows
    <2>1. ASSUME NEW k, RemoveRow(k) PROVE CallsInv'
        BY <1>2, <1>10, <2>1 DEF RemoveRow
    <2>2. ASSUME NEW k, OpenLink(k) PROVE CallsInv'
        BY <1>1, <2>2 DEF OpenLink, OpenDialog
    <2> QED BY <1>13, <2>1, <2>2 DEF Rows
<1>14. CASE Dialogs
    <2>1. ASSUME NEW op \in {"add", "jot", "collect"}, NEW what, IsFiniteSet(what), Ask(op, what)
          PROVE  CallsInv'
        <3>1. Formed([op |-> op, picked |-> what, stage |-> "sent", orphan |-> FALSE])
            BY <2>1 DEF Formed, Added
        <3> QED BY <1>2, <2>1, <3>1 DEF Ask
    <2>2. ASSUME submit \/ submitManual \/ submitGroups PROVE CallsInv'
        <3>1. /\ IsFiniteSet(dialog.picked) /\ IsFiniteSet(dialog.picked \cap Books)
              /\ IsFiniteSet(dialog.picked \cap Issues)
            BY FS_Intersection DEF DialogInv
        <3> QED BY <2>1, <2>2, <3>1 DEF submit, submitManual, submitGroups
    <2>3. ASSUME NEW b \in Books, link(b) PROVE CallsInv'
        <3>1. Formed([op |-> "link", id |-> dialog.entry, book |-> b, stage |-> "sent",
                      orphan |-> FALSE])
            BY DEF Formed, LinkAsked
        <3> QED BY <1>2, <2>3, <3>1 DEF link
    <2>4. ASSUME onClose PROVE CallsInv'
        <3>1. \A c \in Calls : calls'[c] = IF calls[c].op \in DialogOps
                                           THEN [calls[c] EXCEPT !.orphan = TRUE] ELSE calls[c]
            BY <2>4 DEF onClose
        <3>2. ASSUME NEW c \in Calls PROVE Formed(calls'[c])
            <4>1. CASE calls[c].op \in DialogOps
                BY <3>1, <4>1, StageFormed
            <4>2. CASE calls[c].op \notin DialogOps
                BY <3>1, <4>2 DEF CallsInv
            <4> QED BY <4>1, <4>2
        <3> QED BY <2>4, <3>2 DEF onClose, CallsInv
    <2>5. ASSUME NEW kind, OpenDialog(kind, None) PROVE CallsInv'
        BY <1>1, <2>5 DEF OpenDialog
    <2>6. ASSUME NEW x, toggle(x) PROVE CallsInv'
        BY <1>1, <2>6 DEF toggle
    <2> QED BY <1>14, <2>2, <2>3, <2>4, <2>5, <2>6 DEF Dialogs
<1>15. ASSUME NEW c \in Calls, ReadsOrder(c) PROVE CallsInv'
    <2>1. CASE calls' = [calls EXCEPT ![c] = Idle]
        BY <1>3, <1>5, <2>1
    <2>2. CASE calls' # [calls EXCEPT ![c] = Idle]
        <3>1. PICK p \in -MaxPos..MaxPos :
                  calls' = [calls EXCEPT ![c].stage = "placed", ![c].pos = p]
            BY <1>15, <2>2 DEF ReadsOrder
        <3>2. calls' = [calls EXCEPT ![c] = [calls[c] EXCEPT !.stage = "placed", !.pos = p]]
            BY <3>1 DEF CallsInv
        <3>3. Moved(calls[c])
            BY <1>15, MovesAreMoved DEF ReadsOrder, CallsInv
        <3>4. Moved([calls[c] EXCEPT !.stage = "placed", !.pos = p])
            <4>1. Position(p)
                BY ConstantsAssumption DEF Position
            <4> QED BY <3>3, <4>1, PlacedMoved
        <3> QED BY <1>3, <3>2, <3>4 DEF Formed
    <2> QED BY <2>1, <2>2
<1>16. ASSUME NEW c \in Calls, AddCollections(c) PROVE CallsInv'
    <2>1. PICK g \in calls[c].picked :
              \/ Stage(c, "ok") \/ Stage(c, "err")
              \/ calls' = Outrun([calls EXCEPT ![c].picked = @ \ {g}])
        BY <1>16 DEF AddCollections
    <2>2. calls[c].op = "collect"
        BY <1>16 DEF AddCollections
    <2>3. CASE calls' = Outrun([calls EXCEPT ![c].picked = @ \ {g}])
        <3>1. Added(calls[c])
            BY <2>2 DEF CallsInv, Formed, Idle, Moved, Removed, LinkAsked
        <3>2. Added([calls[c] EXCEPT !.picked = @ \ {g}])
            <4>1. IsFiniteSet(calls[c].picked \ {g})
                BY <3>1, FS_RemoveElement DEF Added
            <4> QED BY <3>1, <4>1 DEF Added
        <3>3. calls' = Outrun([calls EXCEPT ![c] = [calls[c] EXCEPT !.picked = @ \ {g}]])
            BY <2>3
        <3> QED BY <1>4, <3>2, <3>3 DEF Formed
    <2> QED BY <1>6, <2>1, <2>2, <2>3 DEF DialogOps
<1>17. ASSUME NEW c \in Calls,
              AddItems(c) \/ AddManualItems(c) \/ Relink(c) \/ Lose(c) \/ Answer(c)
       PROVE  CallsInv'
    <2>1. CASE AddItems(c) \/ AddManualItems(c) \/ Relink(c)
        BY <1>6, <2>1 DEF AddItems, AddManualItems, Relink, DialogOps
    <2>2. CASE Lose(c)
        BY <1>3, <1>5, <2>2, StageFormed DEF Lose
    <2>3. CASE Answer(c)
        BY <1>3, <1>5, <2>3 DEF Answer
    <2> QED BY <1>17, <2>1, <2>2, <2>3
<1>18. CASE Handlers
    BY <1>7, <1>15, <1>16, <1>17, <1>18 DEF Handlers, SetPosition, RemoveItem
<1>19. CASE World
    BY <1>1, <1>8, <1>12, <1>19 DEF World, BookLeaves, BookArrives, Read, GroupDeleted
<1>20. CASE Refetch \/ ToggleRead \/ Dragging \/ endDrag \/ UNCHANGED vars
    BY <1>1, <1>20 DEF Refetch, ToggleRead, Dragging, startDrag, onRowDragOver, endDrag, vars
<1> QED BY <1>11, <1>13, <1>14, <1>18, <1>19, <1>20 DEF Next

\* What is inserted comes behind what was there.
Behind ==
    /\ DOMAIN rows \subseteq DOMAIN rows' /\ \A i \in DOMAIN rows : rows'[i] = rows[i]
    /\ \A j \in DOMAIN rows' \ DOMAIN rows :
          Position(rows'[j].pos) /\ \A i \in DOMAIN rows : rows[i].pos < rows'[j].pos

LEMMA InsertBehind ==
    ASSUME Inv, PosInv, NEW s, NEW what, NEW fit,
           Len(s) \in Nat, DOMAIN s = 1..Len(s),
           \A x \in fit : Shaped(what[x]),
           Insert(s, what, fit)
    PROVE  Behind
<1> DEFINE K == {k \in DOMAIN s : s[k] \in fit}
<1>1. PICK ids \in Fresh(K) : rows' = Appended(ids, [k \in K |-> what[s[k]]])
    BY DEF Insert
<1>2. /\ ids \in [K -> Entries \ used]
      /\ \A j, k \in K : j # k => ids[j] # ids[k]
    BY <1>1 DEF Fresh
<1>3. DOMAIN rows' = DOMAIN rows \cup {ids[k] : k \in K}
    BY <1>1, <1>2 DEF Appended
<1>4. \A i \in DOMAIN rows : rows'[i] = rows[i]
    BY <1>1 DEF Appended
<1>5. ASSUME NEW k \in K PROVE rows'[ids[k]].pos = Top + Gap * k
    <2>1. ids[k] \notin DOMAIN rows
        BY <1>2 DEF Inv, EntriesOf
    <2>2. (CHOOSE h \in DOMAIN ids : ids[h] = ids[k]) = k
        BY <1>2
    <2>3. rows'[ids[k]] = [what[s[k]] EXCEPT !.pos = Top + Gap * k]
        BY <1>1, <1>2, <2>1, <2>2 DEF Appended
    <2>4. Shaped(what[s[k]])
        OBVIOUS
    <2> QED BY <2>3, <2>4 DEF Shaped
<1>6. ASSUME NEW k \in K
      PROVE  /\ Top + Gap * k \in Int /\ Top < Top + Gap * k
             /\ Top + Gap * k <= MaxPos
    <2>1. k \in Int /\ 1 <= k /\ k <= Len(s)
        OBVIOUS
    <2>2. Top \in Int /\ Gap \in Int /\ 0 < Gap /\ MaxPos \in Int
        BY TopBounds, ConstantsAssumption
    <2>3. Top + Gap * Len(s) <= MaxPos
        BY DEF Insert
    <2>4. 0 < Gap * k /\ Gap * k <= Gap * Len(s) /\ Gap * k \in Int /\ Gap * Len(s) \in Int
        <3> HIDE DEF K
        <3> QED BY <2>1, <2>2
    <2> QED BY <2>2, <2>3, <2>4
<1>7. ASSUME NEW j \in DOMAIN rows' \ DOMAIN rows
      PROVE  Position(rows'[j].pos) /\ \A i \in DOMAIN rows : rows[i].pos < rows'[j].pos
    <2>1. PICK k \in K : j = ids[k]
        BY <1>3
    <2>2. /\ rows'[j].pos \in Int /\ Top < rows'[j].pos /\ rows'[j].pos <= MaxPos
        BY <1>5, <1>6, <2>1
    <2>3. Top \in Int /\ \A i \in DOMAIN rows : rows[i].pos \in Int /\ rows[i].pos <= Top
        BY TopBounds DEF PosInv, Position
    <2> QED BY <2>2, <2>3 DEF Position
<1> QED BY <1>3, <1>4, <1>7 DEF Behind

LEMMA RequestBehind ==
    ASSUME Inv, PosInv, NEW S, IsFiniteSet(S), NEW s \in Listings(S), NEW what, NEW fit,
           \A x \in fit : Shaped(what[x]),
           Insert(s, what, fit)
    PROVE  Behind
<1>1. Cardinality(S) \in Nat
    BY FS_CardinalityType
<1>2. DOMAIN s = 1..Cardinality(S) /\ s \in Seq(S)
    BY <1>1 DEF Listings
<1>3. Len(s) \in Nat /\ DOMAIN s = 1..Len(s)
    BY <1>2
<1> QED BY <1>3, InsertBehind

LEMMA AddsBehind ==
    ASSUME OrderInv, NEW c \in Calls, AddItems(c) \/ AddManualItems(c) \/ AddCollections(c)
    PROVE  Behind \/ UNCHANGED rows
<1>1. calls[c].op \in {"add", "jot", "collect"}
    BY DEF AddItems, AddManualItems, AddCollections
<1>2. IsFiniteSet(calls[c].picked)
    BY <1>1 DEF OrderInv, CallsInv, Formed, Idle, Moved, Removed, Added, LinkAsked
<1>3. CASE AddItems(c)
    <2>1. PICK s \in Listings(calls[c].picked) : Insert(s, BookRow, catalog \ Linked)
        BY <1>3 DEF AddItems
    <2>2. \A b \in catalog \ Linked : Shaped(BookRow[b])
        BY DEF BookRow, Shaped, OrderInv, Inv
    <2> QED BY <1>2, <2>1, <2>2, RequestBehind DEF OrderInv
<1>4. CASE AddManualItems(c)
    <2>1. PICK s \in Listings(calls[c].picked) : Insert(s, Placeholder, Issues)
        BY <1>4 DEF AddManualItems
    <2>2. \A n \in Issues : Shaped(Placeholder[n])
        BY DEF Placeholder, Shaped
    <2> QED BY <1>2, <2>1, <2>2, RequestBehind DEF OrderInv
<1>5. CASE AddCollections(c)
    <2>1. PICK g \in calls[c].picked :
              UNCHANGED rows \/ Insert(<<g>>, GroupRow, Groups \ Referenced)
        BY <1>5 DEF AddCollections
    <2>2. \A h \in Groups \ Referenced : Shaped(GroupRow[h])
        BY DEF GroupRow, Shaped
    <2>3. Len(<<g>>) \in Nat /\ DOMAIN <<g>> = 1..Len(<<g>>)
        OBVIOUS
    <2> QED BY <2>1, <2>2, <2>3, InsertBehind DEF OrderInv
<1> QED BY <1>3, <1>4, <1>5

\* The other ways the list changes: entries leave, one is moved, one stands for
\* another issue, or for none.
Leaves == DOMAIN rows' \subseteq DOMAIN rows /\ \A i \in DOMAIN rows' : rows'[i] = rows[i]
OnlyAt(x) ==
    /\ DOMAIN rows' = DOMAIN rows /\ \A i \in DOMAIN rows \ {x} : rows'[i] = rows[i]
    /\ rows'[x].group = rows[x].group
MovesOne(x) == OnlyAt(x) /\ rows'[x].book = rows[x].book /\ Position(rows'[x].pos)
Repoints(x) == OnlyAt(x) /\ rows'[x].pos = rows[x].pos

LEMMA SetPositionMoves ==
    ASSUME OrderInv, NEW c \in Calls, SetPosition(c)
    PROVE  UNCHANGED rows \/ \E x \in DOMAIN rows : MovesOne(x)
<1> DEFINE x == calls[c].id
           changed == [i \in {x} \cap DOMAIN rows |-> [rows[i] EXCEPT !.pos = calls[c].pos]]
<1>1. rows' = Updated(changed)
    BY DEF SetPosition
<1>2. Position(calls[c].pos)
    BY MovesAreMoved DEF SetPosition, OrderInv, CallsInv, Moved
<1>3. CASE x \notin DOMAIN rows
    <2>1. DOMAIN changed = {}
        BY <1>3
    <2> HIDE DEF changed
    <2> QED BY <1>1, <2>1 DEF Updated, OrderInv, Inv, EntriesOf
<1>4. CASE x \in DOMAIN rows
    <2>1. rows'[x] = [rows[x] EXCEPT !.pos = calls[c].pos]
        BY <1>1, <1>4 DEF Updated
    <2>2. DOMAIN rows' = DOMAIN rows /\ \A i \in DOMAIN rows \ {x} : rows'[i] = rows[i]
        BY <1>1 DEF Updated
    <2>3. Shaped(rows[x])
        BY <1>4 DEF OrderInv, Inv, EntriesOf
    <2>4. /\ rows'[x].group = rows[x].group /\ rows'[x].book = rows[x].book
          /\ rows'[x].pos = calls[c].pos
        BY <2>1, <2>3 DEF Shaped
    <2>5. MovesOne(x)
        BY <1>2, <2>2, <2>4 DEF MovesOne, OnlyAt
    <2> QED BY <1>4, <2>5
<1> QED BY <1>3, <1>4

\* An update of one entry at most that leaves the positions alone.
LEMMA PointsOne ==
    ASSUME Inv, NEW changed, rows' = Updated(changed), DOMAIN changed \subseteq DOMAIN rows,
           \A i, j \in DOMAIN changed : i = j,
           \A i \in DOMAIN changed :
               changed[i].pos = rows[i].pos /\ changed[i].group = rows[i].group
    PROVE  UNCHANGED rows \/ \E x \in DOMAIN rows : Repoints(x)
<1>1. CASE DOMAIN changed = {}
    BY <1>1 DEF Updated, Inv, EntriesOf
<1>2. CASE DOMAIN changed # {}
    <2>1. PICK x \in DOMAIN changed : DOMAIN changed = {x}
        BY <1>2
    <2>2. Repoints(x)
        BY <2>1 DEF Updated, Repoints, OnlyAt
    <2> QED BY <2>1, <2>2
<1> QED BY <1>1, <1>2

LEMMA PointedKeeps ==
    ASSUME NEW r, Shaped(r), NEW b
    PROVE  /\ Pointed(r, b).pos = r.pos /\ Pointed(r, b).group = r.group
           /\ Unlinked(r).pos = r.pos /\ Unlinked(r).group = r.group
BY DEF Shaped, Pointed, Unlinked

LEMMA LinksPoint ==
    ASSUME Inv, \/ \E c \in Calls : Relink(c)
                \/ \E b \in Books : BookLeaves(b) \/ BookArrives(b)
    PROVE  UNCHANGED rows \/ \E x \in DOMAIN rows : Repoints(x)
<1>1. \A i \in DOMAIN rows : Shaped(rows[i])
    BY DEF Inv, EntriesOf
<1>2. ASSUME NEW c \in Calls, Relink(c)
      PROVE  UNCHANGED rows \/ \E x \in DOMAIN rows : Repoints(x)
    <2> DEFINE b == calls[c].book
               changed == [i \in {calls[c].id} |-> Pointed(rows[i], calls[c].book)]
    <2>1. CASE Relinkable(calls[c].id, b)
        <3>1. rows' = Updated(changed) /\ DOMAIN changed \subseteq DOMAIN rows
            BY <1>2, <2>1 DEF Relink, Relinkable
        <3>2. \A i, j \in DOMAIN changed : i = j
            OBVIOUS
        <3>3. \A i \in DOMAIN changed :
                  changed[i].pos = rows[i].pos /\ changed[i].group = rows[i].group
            BY <1>1, <3>1, PointedKeeps
        <3> HIDE DEF changed
        <3> QED BY <3>1, <3>2, <3>3, PointsOne
    <2> QED BY <1>2, <2>1 DEF Relink
<1>3. ASSUME NEW b \in Books, BookLeaves(b)
      PROVE  UNCHANGED rows \/ \E x \in DOMAIN rows : Repoints(x)
    <2> DEFINE changed == [i \in {j \in DOMAIN rows : rows[j].book = b} |-> Unlinked(rows[i])]
    <2>1. rows' = Updated(changed) /\ DOMAIN changed \subseteq DOMAIN rows
        BY <1>3 DEF BookLeaves
    <2>2. \A i, j \in DOMAIN changed : i = j
        BY ConstantsAssumption DEF Inv, NoBookTwice
    <2>3. \A i \in DOMAIN changed :
              changed[i].pos = rows[i].pos /\ changed[i].group = rows[i].group
        BY <1>1, <2>1, PointedKeeps
    <2> HIDE DEF changed
    <2> QED BY <2>1, <2>2, <2>3, PointsOne
<1>4. ASSUME NEW b \in Books, BookArrives(b)
      PROVE  UNCHANGED rows \/ \E x \in DOMAIN rows : Repoints(x)
    <2> DEFINE changed == [i \in Returned(b) |-> Pointed(rows[i], b)]
    <2>1. CASE Cardinality(Returned(b)) = 1
        <3>1. rows' = Updated(changed)
            BY <1>4, <2>1 DEF BookArrives, RelinkStaleByHash
        <3>2. DOMAIN changed \subseteq DOMAIN rows
            BY DEF Returned
        <3>3. IsFiniteSet(Returned(b))
            <4>1. Returned(b) \subseteq Entries
                BY DEF Returned, Inv, EntriesOf
            <4> QED BY <4>1, FS_Subset, ConstantsAssumption
        <3>4. \A i, j \in DOMAIN changed : i = j
            BY <2>1, <3>3, FS_Singleton
        <3>5. \A i \in DOMAIN changed :
                  changed[i].pos = rows[i].pos /\ changed[i].group = rows[i].group
            BY <1>1, <3>2, PointedKeeps
        <3> HIDE DEF changed
        <3> QED BY <3>1, <3>2, <3>4, <3>5, PointsOne
    <2> QED BY <1>4, <2>1 DEF BookArrives, RelinkStaleByHash
<1> QED BY <1>2, <1>3, <1>4

LEMMA RowsStep ==
    ASSUME OrderInv, [Next]_vars
    PROVE  \/ UNCHANGED rows \/ Behind \/ Leaves
           \/ \E x \in DOMAIN rows : MovesOne(x) \/ Repoints(x)
<1>1. ASSUME Refetch \/ ToggleRead \/ Dragging \/ endDrag \/ drop \/ Rows \/ Dialogs \/ Elsewhere
      PROVE  UNCHANGED rows
    BY <1>1 DEF Refetch, ToggleRead, Dragging, startDrag, onRowDragOver, endDrag, drop, Rows,
                RemoveRow, OpenLink, OpenDialog, Dialogs, toggle, submit, submitManual,
                submitGroups, Ask, onClose, link, Elsewhere, server
<1>2. ASSUME NEW S, rows' = Dropped(S) PROVE Leaves
    BY <1>2 DEF Dropped, Leaves
<1>3. CASE Handlers
    <2>1. ASSUME NEW c \in Calls, ReadsOrder(c) \/ Lose(c) \/ Answer(c) PROVE UNCHANGED rows
        BY <2>1 DEF ReadsOrder, Lose, Answer, server
    <2>2. ASSUME NEW c \in Calls, RemoveItem(c) PROVE Leaves
        BY <1>2, <2>2 DEF RemoveItem
    <2> QED BY <1>3, <2>1, <2>2, SetPositionMoves, AddsBehind, LinksPoint DEF Handlers, OrderInv
<1>4. CASE World
    <2>1. ASSUME NEW g \in Groups, GroupDeleted(g) PROVE Leaves
        BY <1>2, <2>1 DEF GroupDeleted
    <2>2. ASSUME NEW b \in Books, Read(b) PROVE UNCHANGED rows
        BY <2>2 DEF Read
    <2> QED BY <1>1, <1>4, <2>1, <2>2, LinksPoint DEF World, OrderInv
<1> QED BY <1>1, <1>3, <1>4 DEF Next, vars

-----------------------------------------------------------------------------
(***************************************************************************)
(* The list implements ReadingOrder.                                       *)
(***************************************************************************)
Entry == [i \in DOMAIN rows |-> [book |-> rows[i].book, group |-> rows[i].group]]
Ahead == {p \in (DOMAIN rows) \X (DOMAIN rows) : rows[p[1]].pos < rows[p[2]].pos}

LEMMA UniqueEntries ==
    ASSUME NoBookTwice PROVE Order!Unique(Entry)
BY DEF NoBookTwice, Order!Unique, Order!Empty, Entry

LEMMA BehindAppends ==
    ASSUME PosInv, Behind PROVE Order!Append(DOMAIN Entry)
<1>1. DOMAIN Entry \subseteq DOMAIN Entry' /\ Entry = [x \in DOMAIN Entry |-> Entry'[x]]
    BY DEF Behind, Entry
<1>2. Ahead = {p \in Ahead' : p[1] \in DOMAIN Entry /\ p[2] \in DOMAIN Entry}
    BY DEF Behind, Entry, Ahead
<1>3. (DOMAIN Entry) \X (DOMAIN Entry' \ DOMAIN Entry) \subseteq Ahead'
    <2>1. DOMAIN Entry = DOMAIN rows /\ DOMAIN Entry' = DOMAIN rows'
        BY DEF Entry
    <2>2. ASSUME NEW i \in DOMAIN rows, NEW j \in DOMAIN rows' \ DOMAIN rows
          PROVE  <<i, j>> \in Ahead'
        BY DEF Behind, Ahead
    <2> QED BY <2>1, <2>2
<1> QED BY <1>1, <1>2, <1>3 DEF Order!Append, Entry, Ahead

LEMMA LeavesRemoves ==
    ASSUME Leaves PROVE Order!Remove(DOMAIN Entry')
<1>1. DOMAIN Entry' \subseteq DOMAIN Entry /\ Entry' = [x \in DOMAIN Entry' |-> Entry[x]]
    BY DEF Leaves, Entry
<1>2. Ahead' = {p \in Ahead : p[1] \in DOMAIN Entry' /\ p[2] \in DOMAIN Entry'}
    BY DEF Leaves, Entry, Ahead
<1> QED BY <1>1, <1>2 DEF Order!Remove, Order!Among, Entry, Ahead

LEMMA MovesOneMoves ==
    ASSUME NEW x \in DOMAIN rows, MovesOne(x) PROVE Order!Move(x)
<1>1. Entry' = Entry
    BY DEF MovesOne, OnlyAt, Entry
<1>2. {p \in Ahead' : x # p[1] /\ x # p[2]}
      = {p \in Ahead : p[1] \in DOMAIN Entry \ {x} /\ p[2] \in DOMAIN Entry \ {x}}
    BY DEF MovesOne, OnlyAt, Entry, Ahead
<1> QED BY <1>1, <1>2 DEF Order!Move, Order!Among, Entry, Ahead

LEMMA RepointsRelinks ==
    ASSUME Inv', NEW x \in DOMAIN rows, Repoints(x) PROVE Order!Relink(x, Entry'[x].book)
<1>1. Ahead' = Ahead
    BY DEF Repoints, OnlyAt, Ahead
<1>2. Entry'[x].book \in Books \cup {None}
    BY DEF Repoints, OnlyAt, Entry, Inv, EntriesOf
<1>3. Entry' = [Entry EXCEPT ![x].book = Entry'[x].book]
    BY DEF Repoints, OnlyAt, Entry
<1> QED BY <1>1, <1>2, <1>3 DEF Order!Relink, Entry, Ahead

LEMMA OrderStep ==
    ASSUME OrderInv, Inv', [Next]_vars
    PROVE  [Order!Next]_<<Entry, Ahead>>
<1>1. Order!Unique(Entry')
    <2>1. NoBookTwice'
        BY DEF Inv
    <2> QED BY <2>1 DEF NoBookTwice, Order!Unique, Order!Empty, Entry
<1>2. CASE UNCHANGED rows
    BY <1>2 DEF Entry, Ahead
<1>3. CASE Behind
    BY <1>1, <1>3, BehindAppends DEF Order!Next, Entry, OrderInv
<1>4. CASE Leaves
    BY <1>1, <1>4, LeavesRemoves DEF Order!Next, Entry
<1>5. ASSUME NEW x \in DOMAIN rows, MovesOne(x) \/ Repoints(x)
      PROVE  Order!Next
    <2>1. x \in DOMAIN Entry
        BY DEF Entry
    <2> QED BY <1>1, <1>5, <2>1, MovesOneMoves, RepointsRelinks DEF Order!Next, Entry
<1> QED BY <1>2, <1>3, <1>4, <1>5, RowsStep

LEMMA InitRows ==
    ASSUME Init
    PROVE  \A i \in DOMAIN rows :
              Position(rows[i].pos) /\ rows[i].book \in Books /\ rows[i].group = None
<1> SUFFICES ASSUME NEW i \in DOMAIN rows
             PROVE  Position(rows[i].pos) /\ rows[i].book \in Books /\ rows[i].group = None
    OBVIOUS
<1>1. PICK ids \in [DOMAIN Listed -> Entries] :
          rows = [j \in Range(ids) |->
                    LET k == IndexIn(ids, j)
                    IN  [BookRow[Listed[k]] EXCEPT !.pos = Gap * k]]
    BY DEF Init
<1>2. PICK k \in DOMAIN Listed : rows[i] = [BookRow[Listed[k]] EXCEPT !.pos = Gap * k]
    <2>1. i \in Range(ids) /\ DOMAIN ids = DOMAIN Listed
        BY <1>1
    <2>2. \E j \in DOMAIN ids : ids[j] = i
        BY <2>1 DEF Range
    <2>3. IndexIn(ids, i) \in DOMAIN ids
        BY <2>2 DEF IndexIn
    <2> QED BY <1>1, <2>1, <2>3
<1>3. Listed[k] \in Books
    BY ConstantsAssumption
<1>4. rows[i].pos = Gap * k /\ rows[i].book = Listed[k] /\ rows[i].group = None
    BY <1>2, <1>3 DEF BookRow
<1>5. Position(Gap * k)
    <2>1. k \in Int /\ 1 <= k /\ k <= Len(Listed) /\ Len(Listed) \in Int
        BY ConstantsAssumption
    <2>2. Gap \in Int /\ 0 < Gap /\ MaxPos \in Int /\ Gap * Len(Listed) <= MaxPos
        BY ConstantsAssumption
    <2>3. Gap * k <= Gap * Len(Listed) /\ Gap * k \in Int /\ Gap * Len(Listed) \in Int
        BY <2>1, <2>2
    <2> QED BY <2>2, <2>3 DEF Position
<1> QED BY <1>3, <1>4, <1>5

LEMMA InitOrderInv == Init => OrderInv
<1> SUFFICES ASSUME Init PROVE OrderInv
    OBVIOUS
<1>1. DialogInv
    BY FS_EmptySet DEF Init, DialogInv, Closed
<1>2. CallsInv
    BY DEF Init, CallsInv, Formed
<1> QED BY <1>1, <1>2, InitInv, InitRows DEF OrderInv, PosInv

LEMMA OrderInvStep == OrderInv /\ [Next]_vars => OrderInv'
<1> SUFFICES ASSUME OrderInv, [Next]_vars PROVE OrderInv'
    OBVIOUS
<1>1. Inv' /\ DialogInv' /\ CallsInv'
    BY InvStep, DialogStep, CallsStep DEF OrderInv
<1>2. PosInv'
    <2>1. CASE UNCHANGED rows
        BY <2>1 DEF OrderInv, PosInv
    <2>2. CASE Behind
        BY <2>2 DEF OrderInv, PosInv, Behind
    <2>3. CASE Leaves
        BY <2>3 DEF OrderInv, PosInv, Leaves
    <2>4. ASSUME NEW x \in DOMAIN rows, MovesOne(x) \/ Repoints(x) PROVE PosInv'
        BY <2>4 DEF OrderInv, PosInv, MovesOne, Repoints, OnlyAt
    <2> QED BY <2>1, <2>2, <2>3, <2>4, RowsStep
<1> QED BY <1>1, <1>2 DEF OrderInv

\* Whatever requests, scans and deletions interleave, the list changes only as
\* ReadingOrder lets it: one move reorders one entry, what is added comes last,
\* an issue leaves and returns in its entry's place.
THEOREM ListKeepsOrder == Spec => ImplementsOrder
<1>1. Init => Order!Init
    <2> SUFFICES ASSUME Init PROVE Order!Init
        OBVIOUS
    <2>1. Order!Unique(Entry)
        BY InitInv, UniqueEntries DEF Inv
    <2>2. DOMAIN Entry \subseteq Entries
        BY InitInv DEF Inv, EntriesOf, Entry
    <2>3. \A x \in DOMAIN Entry :
              Entry[x] \in [book : Books \cup {None}, group : Groups \cup {None}]
        BY InitRows DEF Entry
    <2>4. Ahead \subseteq (DOMAIN Entry) \X (DOMAIN Entry)
        BY DEF Entry, Ahead
    <2> QED BY <2>1, <2>2, <2>3, <2>4 DEF Order!Init, Order!TypeOK, Entry, Ahead
<1>2. OrderInv /\ OrderInv' /\ [Next]_vars => [Order!Next]_<<Entry, Ahead>>
    BY OrderStep DEF OrderInv
<1> QED BY <1>1, <1>2, InitOrderInv, OrderInvStep, PTL
        DEF Spec, ImplementsOrder, Order!Spec, Entry, Ahead

-----------------------------------------------------------------------------
(***************************************************************************)
(* Where a drop lands.  An order of the list is the one order of its       *)
(* positions when no two are the same; moving an entry to a position       *)
(* between its new neighbours' makes the order the drop shows.             *)
(***************************************************************************)
Distinct(n, s) == \A j, k \in 1..n : j # k => s[j] # s[k]

\* t is the part of s from a on; s without its i-th entry; s and then u.
IsPart(S, n, s, a, m, t) ==
    /\ t \in Seq(S) /\ t \in [1..m -> S] /\ Len(t) = m
    /\ \A j \in 1..m, k \in 1..n : k = a + j - 1 => t[j] = s[k]
IsWithout(S, n, s, i, m, t) ==
    /\ t \in Seq(S) /\ t \in [1..m -> S] /\ Len(t) = m
    /\ \A j \in 1..m : j < i => t[j] = s[j]
    /\ \A j \in 1..m, k \in 1..n : j >= i /\ k = j + 1 => t[j] = s[k]
IsJoined(S, l, s, m, u, n, t) ==
    /\ t \in Seq(S) /\ t \in [1..n -> S] /\ Len(t) = n
    /\ \A j \in 1..l : t[j] = s[j]
    /\ \A j \in 1..n, k \in 1..m : j = l + k => t[j] = u[k]

LEMMA Part ==
    ASSUME NEW S, NEW n \in Nat, NEW s \in [1..n -> S], NEW a \in 1..(n + 1), NEW b \in 0..n,
           NEW m \in Nat, m = b - a + 1
    PROVE  IsPart(S, n, s, a, m, SubSeq(s, a, b))
<1>1. a \in Int /\ b \in Int /\ \A j \in a..b : s[j] \in S
    OBVIOUS
<1>2. /\ SubSeq(s, a, b) \in Seq(S)
      /\ Len(SubSeq(s, a, b)) = IF a <= b THEN b - a + 1 ELSE 0
      /\ \A j \in 1..(b - a + 1) : SubSeq(s, a, b)[j] = s[a + j - 1]
    BY <1>1, SubSeqProperties
<1>3. Len(SubSeq(s, a, b)) = m
    BY <1>2
<1>4. SubSeq(s, a, b) \in [1..m -> S]
    BY <1>2, <1>3, LenProperties
<1> QED BY <1>2, <1>3, <1>4 DEF IsPart

LEMMA Joined ==
    ASSUME NEW S, NEW s \in Seq(S), NEW t \in Seq(S), NEW l \in Nat, NEW m \in Nat, NEW n \in Nat,
           Len(s) = l, Len(t) = m, n = l + m
    PROVE  IsJoined(S, l, s, m, t, n, s \o t)
<1>1. /\ s \o t \in Seq(S) /\ Len(s \o t) = n
      /\ \A j \in 1..n : (s \o t)[j] = IF j <= Len(s) THEN s[j] ELSE t[j - Len(s)]
    BY ConcatProperties
<1>2. s \o t \in [1..n -> S]
    BY <1>1, LenProperties
<1>3. ASSUME NEW j \in 1..n, NEW k \in 1..m, j = l + k PROVE (s \o t)[j] = t[k]
    <2>1. ~(j <= Len(s)) /\ j - Len(s) = k
        BY <1>3
    <2> QED BY <1>1, <2>1
<1>4. \A j \in 1..l : (s \o t)[j] = s[j]
    BY <1>1
<1> QED BY <1>1, <1>2, <1>3, <1>4 DEF IsJoined

LEMMA WithoutAt ==
    ASSUME NEW S, NEW n \in Nat, NEW s \in [1..n -> S], Distinct(n, s), NEW i \in 1..n,
           NEW m \in Nat, m = n - 1
    PROVE  IsWithout(S, n, s, i, m, Without(s, s[i]))
<1>1. s \in Seq(S) /\ Len(s) = n /\ DOMAIN s = 1..n
    OBVIOUS
<1>2. IndexIn(s, s[i]) = i
    BY <1>1 DEF IndexIn, Distinct
<1>3. Without(s, s[i]) = SubSeq(s, 1, i - 1) \o SubSeq(s, i + 1, n)
    BY <1>1, <1>2 DEF Without
<1>4. PICK g \in Nat : g = i - 1
    OBVIOUS
<1>5. PICK h \in Nat : h = n - i
    OBVIOUS
<1>6. PICK t : t = SubSeq(s, 1, g)
    OBVIOUS
<1>7. PICK u : u = SubSeq(s, i + 1, n)
    OBVIOUS
<1>8. t \in Seq(S) /\ Len(t) = g /\ \A j \in 1..g : t[j] = s[j]
    <2>1. 1 \in 1..(n + 1) /\ g \in 0..n /\ g = g - 1 + 1
        BY <1>4
    <2>2. IsPart(S, n, s, 1, g, t)
        BY <1>6, <2>1, Part
    <2> QED BY <1>4, <2>2 DEF IsPart
<1>9. u \in Seq(S) /\ Len(u) = h /\ \A j \in 1..h, k \in 1..n : k = i + j => u[j] = s[k]
    <2>1. i + 1 \in 1..(n + 1) /\ n \in 0..n /\ h = n - (i + 1) + 1
        BY <1>5
    <2>2. IsPart(S, n, s, i + 1, h, u)
        BY <1>7, <2>1, Part
    <2> QED BY <2>2 DEF IsPart
<1>10. PICK w : w = t \o u
    OBVIOUS
<1>11. IsJoined(S, g, t, h, u, m, w)
    <2>1. m = g + h
        BY <1>4, <1>5
    <2> QED BY <1>8, <1>9, <1>10, <2>1, Joined
<1>12. ASSUME NEW j \in 1..m, j < i PROVE w[j] = s[j]
    BY <1>4, <1>8, <1>11, <1>12 DEF IsJoined
<1>13. ASSUME NEW j \in 1..m, NEW k \in 1..n, j >= i, k = j + 1 PROVE w[j] = s[k]
    <2>1. PICK q \in 1..h : j = g + q /\ k = i + q
        <3>1. j - g \in 1..h /\ j = g + (j - g) /\ k = i + (j - g)
            BY <1>4, <1>5, <1>13
        <3> QED BY <3>1
    <2> QED BY <1>9, <1>11, <2>1 DEF IsJoined
<1>14. w = Without(s, s[i])
    BY <1>3, <1>4, <1>6, <1>7, <1>10
<1>15. w \in Seq(S) /\ w \in [1..m -> S] /\ Len(w) = m
    BY <1>11 DEF IsJoined
<1>16. IsWithout(S, n, s, i, m, w)
    BY <1>12, <1>13, <1>15 DEF IsWithout
<1> QED BY <1>14, <1>16

LEMMA WithoutNone ==
    ASSUME NEW s, NEW x, \A j \in DOMAIN s : s[j] # x
    PROVE  Without(s, x) = s
BY DEF Without

\* The order a drop shows, entry by entry.
Shifted(n, s, i, slot, t) ==
    /\ t \in [1..n -> {s[j] : j \in 1..n}]
    /\ slot > i =>
         \A j \in 1..n : /\ j < i \/ j >= slot => t[j] = s[j]
                         /\ j = slot - 1 => t[j] = s[i]
                         /\ \A k \in 1..n : i <= j /\ k < slot /\ k = j + 1 => t[j] = s[k]
    /\ slot < i =>
         \A j \in 1..n : /\ j < slot \/ j > i => t[j] = s[j]
                         /\ j = slot => t[j] = s[i]
                         /\ \A k \in 1..n : slot <= k /\ j <= i /\ j = k + 1 => t[j] = s[k]

LEMMA LandedAt ==
    ASSUME NEW S0, NEW n \in Nat, NEW s \in [1..n -> S0], Distinct(n, s), NEW i \in 1..n,
           NEW slot \in 1..(n + 1), slot # i
    PROVE  Shifted(n, s, i, slot, Landed(s, s[i], slot))
<1> DEFINE S == {s[j] : j \in 1..n}
<1>1. s \in Seq(S) /\ Len(s) = n /\ DOMAIN s = 1..n /\ s \in [1..n -> S]
    OBVIOUS
<1> HIDE DEF S
<1>2. PICK a \in Nat : a = slot - 1
    OBVIOUS
<1>3. PICK b \in Nat : b = n + 1 - slot
    OBVIOUS
<1>4. PICK A : A = SubSeq(s, 1, a)
    OBVIOUS
<1>5. PICK B : B = SubSeq(s, slot, n)
    OBVIOUS
<1>6. /\ A \in Seq(S) /\ A \in [1..a -> S] /\ Len(A) = a
      /\ \A j \in 1..a : A[j] = s[j]
    <2>1. 1 \in 1..(n + 1) /\ a \in 0..n /\ a = a - 1 + 1
        BY <1>2
    <2>2. IsPart(S, n, s, 1, a, A)
        BY <1>1, <1>4, <2>1, Part
    <2> QED BY <1>2, <2>2 DEF IsPart
<1>7. /\ B \in Seq(S) /\ B \in [1..b -> S] /\ Len(B) = b
      /\ \A j \in 1..b, k \in 1..n : k = a + j => B[j] = s[k]
    <2>1. slot \in 1..(n + 1) /\ n \in 0..n /\ b = n - slot + 1
        BY <1>3
    <2>2. IsPart(S, n, s, slot, b, B)
        BY <1>1, <1>5, <2>1, Part
    <2> QED BY <1>2, <2>2 DEF IsPart
<1>8. Landed(s, s[i], slot) = Without(A, s[i]) \o <<s[i]>> \o Without(B, s[i])
    BY <1>1, <1>2, <1>4, <1>5 DEF Landed
<1>9. Distinct(a, A)
    <2> SUFFICES ASSUME NEW j \in 1..a, NEW k \in 1..a, j # k PROVE A[j] # A[k]
        BY DEF Distinct
    <2>1. j \in 1..n /\ k \in 1..n
        BY <1>2
    <2> QED BY <1>6, <2>1 DEF Distinct
<1>10. Distinct(b, B)
    <2> SUFFICES ASSUME NEW j \in 1..b, NEW k \in 1..b, j # k PROVE B[j] # B[k]
        BY DEF Distinct
    <2>1. PICK g \in 1..n : g = a + j
        BY <1>2, <1>3
    <2>2. PICK h \in 1..n : h = a + k
        BY <1>2, <1>3
    <2>3. B[j] = s[g] /\ B[k] = s[h] /\ g # h
        BY <1>2, <1>7, <2>1, <2>2
    <2> QED BY <2>3 DEF Distinct
<1>11. s[i] \in S /\ <<s[i]>> \in Seq(S) /\ Len(<<s[i]>>) = 1 /\ <<s[i]>>[1] = s[i]
    BY <1>1
<1>12. CASE slot > i
    <2>1. i \in 1..a /\ A[i] = s[i]
        BY <1>2, <1>6, <1>12
    <2>2. PICK m \in Nat : m = a - 1
        BY <2>1
    <2>3. PICK w : w = Without(A, s[i])
        OBVIOUS
    <2>4. /\ w \in Seq(S) /\ Len(w) = m
          /\ \A j \in 1..m : j < i => w[j] = A[j]
          /\ \A j \in 1..m, k \in 1..a : j >= i /\ k = j + 1 => w[j] = A[k]
        <3>1. IsWithout(S, a, A, i, m, w)
            BY <1>6, <1>9, <2>1, <2>2, <2>3, WithoutAt
        <3> QED BY <3>1 DEF IsWithout
    <2>5. Without(B, s[i]) = B
        <3>1. ASSUME NEW j \in 1..b PROVE B[j] # s[i]
            <4>1. PICK k \in 1..n : k = a + j
                BY <1>2, <1>3
            <4>2. B[j] = s[k] /\ k # i
                BY <1>2, <1>7, <1>12, <4>1
            <4> QED BY <4>2 DEF Distinct
        <3> QED BY <1>7, <3>1, WithoutNone
    <2>6. PICK v : v = w \o <<s[i]>>
        OBVIOUS
    <2>7. /\ v \in Seq(S) /\ Len(v) = a
          /\ \A j \in 1..m : v[j] = w[j]
          /\ \A j \in 1..a, k \in 1..1 : j = m + k => v[j] = <<s[i]>>[k]
        <3>1. 1 \in Nat /\ a = m + 1
            BY <2>2
        <3>2. IsJoined(S, m, w, 1, <<s[i]>>, a, v)
            BY <1>11, <2>4, <2>6, <3>1, Joined
        <3> QED BY <3>2 DEF IsJoined
    <2>8. v[a] = s[i]
        <3>1. a \in 1..a /\ 1 \in 1..1 /\ a = m + 1
            BY <2>1, <2>2
        <3> QED BY <1>11, <2>7, <3>1
    <2>9. PICK t : t = v \o B
        OBVIOUS
    <2>10. /\ t \in [1..n -> S]
           /\ \A j \in 1..a : t[j] = v[j]
           /\ \A j \in 1..n, k \in 1..b : j = a + k => t[j] = B[k]
        <3>1. n = a + b
            BY <1>2, <1>3
        <3>2. IsJoined(S, a, v, b, B, n, t)
            BY <1>7, <2>7, <2>9, <3>1, Joined
        <3> QED BY <3>2 DEF IsJoined
    <2>11. ASSUME NEW j \in 1..n, j < i PROVE t[j] = s[j]
        <3>1. j \in 1..m /\ j \in 1..a
            BY <2>1, <2>2, <2>11
        <3> QED BY <1>6, <2>4, <2>7, <2>10, <2>11, <3>1
    <2>12. ASSUME NEW j \in 1..n, j >= slot PROVE t[j] = s[j]
        <3>1. PICK k \in 1..b : j = a + k
            <4>1. j - a \in 1..b /\ j = a + (j - a)
                BY <1>2, <1>3, <2>12
            <4> QED BY <4>1
        <3> QED BY <1>7, <2>10, <3>1
    <2>13. ASSUME NEW j \in 1..n, j = slot - 1 PROVE t[j] = s[i]
        BY <1>2, <2>1, <2>8, <2>10, <2>13
    <2>14. ASSUME NEW j \in 1..n, NEW k \in 1..n, i <= j, k < slot, k = j + 1
           PROVE  t[j] = s[k]
        <3>1. j \in 1..m /\ j \in 1..a /\ k \in 1..a
            BY <1>2, <2>2, <2>14
        <3> QED BY <1>6, <2>4, <2>7, <2>10, <2>14, <3>1
    <2>15. t = Landed(s, s[i], slot)
        BY <1>8, <2>3, <2>5, <2>6, <2>9
    <2>16. t \in [1..n -> {s[j] : j \in 1..n}] /\ ~(slot < i)
        BY <1>12, <2>10 DEF S
    <2>17. Shifted(n, s, i, slot, t)
        BY ONLY <2>11, <2>12, <2>13, <2>14, <2>16 DEF Shifted
    <2> QED BY <2>15, <2>17
<1>13. CASE slot < i
    <2>1. PICK h \in 1..b : i = a + h
        <3>1. i - a \in 1..b /\ i = a + (i - a)
            BY <1>2, <1>3, <1>13
        <3> QED BY <3>1
    <2>2. B[h] = s[i]
        BY <1>7, <2>1
    <2>3. PICK m \in Nat : m = b - 1
        BY <2>1
    <2>4. PICK w : w = Without(B, s[i])
        OBVIOUS
    <2>5. /\ w \in Seq(S) /\ Len(w) = m
          /\ \A j \in 1..m : j < h => w[j] = B[j]
          /\ \A j \in 1..m, k \in 1..b : j >= h /\ k = j + 1 => w[j] = B[k]
        <3>1. IsWithout(S, b, B, h, m, w)
            BY <1>7, <1>10, <2>1, <2>2, <2>3, <2>4, WithoutAt
        <3> QED BY <3>1 DEF IsWithout
    <2>6. Without(A, s[i]) = A
        <3>1. ASSUME NEW j \in 1..a PROVE A[j] # s[i]
            <4>1. j \in 1..n /\ j # i
                BY <1>2, <1>13
            <4> QED BY <1>6, <4>1 DEF Distinct
        <3> QED BY <1>6, <3>1, WithoutNone
    <2>7. PICK v : v = A \o <<s[i]>>
        OBVIOUS
    <2>8. /\ v \in Seq(S) /\ Len(v) = slot
          /\ \A j \in 1..a : v[j] = A[j]
          /\ \A j \in 1..slot, k \in 1..1 : j = a + k => v[j] = <<s[i]>>[k]
        <3>1. 1 \in Nat /\ slot \in Nat /\ slot = a + 1
            BY <1>2
        <3>2. IsJoined(S, a, A, 1, <<s[i]>>, slot, v)
            BY <1>6, <1>11, <2>7, <3>1, Joined
        <3> QED BY <3>2 DEF IsJoined
    <2>9. v[slot] = s[i]
        <3>1. slot \in 1..slot /\ 1 \in 1..1 /\ slot = a + 1
            BY <1>2
        <3> QED BY <1>11, <2>8, <3>1
    <2>10. PICK t : t = v \o w
        OBVIOUS
    <2>11. /\ t \in [1..n -> S]
           /\ \A j \in 1..slot : t[j] = v[j]
           /\ \A j \in 1..n, k \in 1..m : j = slot + k => t[j] = w[k]
        <3>1. n = slot + m /\ slot \in Nat
            BY <1>3, <2>3
        <3>2. IsJoined(S, slot, v, m, w, n, t)
            BY <2>5, <2>8, <2>10, <3>1, Joined
        <3> QED BY <3>2 DEF IsJoined
    <2>12. ASSUME NEW j \in 1..n, j < slot PROVE t[j] = s[j]
        <3>1. j \in 1..a /\ j \in 1..slot
            BY <1>2, <2>12
        <3> QED BY <1>6, <2>8, <2>11, <3>1
    <2>13. ASSUME NEW j \in 1..n, j = slot PROVE t[j] = s[i]
        BY <2>9, <2>11, <2>13
    <2>14. ASSUME NEW j \in 1..n, NEW k \in 1..n, slot <= k, j <= i, j = k + 1
           PROVE  t[j] = s[k]
        <3>1. PICK q \in 1..m : j = slot + q
            <4>1. j - slot \in 1..m /\ j = slot + (j - slot)
                BY <1>3, <1>13, <2>3, <2>14
            <4> QED BY <4>1
        <3>2. q < h /\ k = a + q /\ q \in 1..b
            BY <1>2, <2>1, <2>3, <2>14, <3>1
        <3> QED BY <1>7, <2>5, <2>11, <3>1, <3>2
    <2>15. ASSUME NEW j \in 1..n, j > i PROVE t[j] = s[j]
        <3>1. PICK q \in 1..m : j = slot + q
            <4>1. j - slot \in 1..m /\ j = slot + (j - slot)
                BY <1>3, <1>13, <2>3, <2>15
            <4> QED BY <4>1
        <3>2. PICK r \in 1..b : r = q + 1
            BY <2>3
        <3>3. q >= h
            BY <1>2, <2>1, <2>15, <3>1
        <3>4. j = a + r
            BY <1>2, <3>1, <3>2
        <3>5. t[j] = w[q]
            BY <2>11, <3>1
        <3>6. w[q] = B[r]
            BY <2>5, <3>2, <3>3
        <3>7. B[r] = s[j]
            BY <1>7, <3>4
        <3> QED BY <3>5, <3>6, <3>7
    <2>16. t = Landed(s, s[i], slot)
        BY <1>8, <2>4, <2>6, <2>7, <2>10
    <2>17. t \in [1..n -> {s[j] : j \in 1..n}] /\ ~(slot > i)
        BY <1>13, <2>11 DEF S
    <2>18. Shifted(n, s, i, slot, t)
        BY ONLY <2>12, <2>13, <2>14, <2>15, <2>17 DEF Shifted
    <2> QED BY <2>16, <2>18
<1> QED BY <1>12, <1>13

\* s lists D, n entries, by position.
Sorted(D, n, P, s) ==
    /\ s \in [1..n -> D]
    /\ \A j, k \in 1..n : j < k => s[j] # s[k] /\ P[s[j]] <= P[s[k]]
Rising(n, P, s) == \A j, k \in 1..n : j < k => P[s[j]] < P[s[k]]
Covers(D, n, s) == \A x \in D : \E j \in 1..n : s[j] = x

LEMMA OrderCovers ==
    ASSUME NEW D, IsFiniteSet(D), NEW n, n = Cardinality(D), NEW s \in [1..n -> D],
           Distinct(n, s)
    PROVE  n \in Nat /\ Covers(D, n, s)
<1>1. n \in Nat
    BY FS_CardinalityType
<1>2. s \in Injection(1..n, D)
    <2>1. \A a, b \in 1..n : s[a] = s[b] => a = b
        BY DEF Distinct
    <2> QED BY <2>1, Fun_IsInj
<1>3. Cardinality(1..n) = n
    BY <1>1, FS_Interval
<1>4. s \in Surjection(1..n, D)
    BY <1>2, <1>3, FS_Injection
<1> QED BY <1>1, <1>4 DEF Surjection, Covers

\* When there is one order only, no two positions are the same: two entries at one
\* position could change places.
LEMMA OneOrderRises ==
    ASSUME NEW D, NEW n \in Nat, NEW P \in [D -> Int], NEW s, Sorted(D, n, P, s),
           \A t : Sorted(D, n, P, t) => t = s
    PROVE  Rising(n, P, s)
<1> SUFFICES ASSUME NEW j \in 1..n, NEW k \in 1..n, j < k, ~(P[s[j]] < P[s[k]])
             PROVE  FALSE
    BY DEF Rising
<1>1. s \in [1..n -> D] /\ P[s[j]] = P[s[k]] /\ s[j] # s[k]
    BY DEF Sorted
<1>2. PICK t : t = [h \in 1..n |-> IF h = j THEN s[k] ELSE IF h = k THEN s[j] ELSE s[h]]
    OBVIOUS
<1>3. t \in [1..n -> D] /\ \A h \in 1..n : P[t[h]] = P[s[h]]
    BY <1>1, <1>2
<1>4. ASSUME NEW g \in 1..n, NEW h \in 1..n, g < h PROVE t[g] # t[h]
    BY <1>1, <1>2, <1>4 DEF Sorted
<1>5. Sorted(D, n, P, t)
    BY <1>3, <1>4 DEF Sorted
<1>6. t = s /\ t[j] = s[k]
    BY <1>2, <1>5
<1> QED BY <1>1, <1>6

\* Two orders that differ first at k: each has what the other has there further on.
LEMMA RisingIsOne ==
    ASSUME NEW D, NEW n \in Nat, NEW P \in [D -> Int],
           NEW s, Sorted(D, n, P, s), Rising(n, P, s), Covers(D, n, s),
           NEW t, Sorted(D, n, P, t), Covers(D, n, t)
    PROVE  s = t
<1> SUFFICES ASSUME s # t PROVE FALSE
    OBVIOUS
<1>1. s \in [1..n -> D] /\ t \in [1..n -> D]
    BY DEF Sorted
<1> DEFINE T == {k \in 1..n : s[k] # t[k]}
<1>2. T # {} /\ T \subseteq Nat
    <2>1. s = [j \in 1..n |-> s[j]] /\ t = [j \in 1..n |-> t[j]]
        BY <1>1
    <2>2. (\A j \in 1..n : s[j] = t[j]) => s = t
        BY <2>1
    <2> QED BY <2>2
<1>3. PICK k \in T : \A j \in T : ~(j < k)
    <2> HIDE DEF T
    <2>1. PICK k \in T : \A j \in T : <<j, k>> \notin OpToRel(<, Nat)
        BY <1>2, NatLessThanWellFounded, WFMin
    <2>2. \A j \in T : ~(j < k)
        BY <1>2, <2>1 DEF OpToRel
    <2> QED BY <2>2
<1>4. k \in 1..n /\ s[k] # t[k] /\ \A j \in 1..n : j < k => s[j] = t[j]
    BY <1>3
<1>5. PICK g \in 1..n : s[g] = t[k]
    BY <1>1, <1>4 DEF Covers
<1>6. PICK h \in 1..n : t[h] = s[k]
    BY <1>1, <1>4 DEF Covers
<1>7. g > k
    <2>1. g # k
        BY <1>4, <1>5
    <2>2. ~(g < k)
        <3>1. g < k => t[g] = t[k] /\ t[g] # t[k]
            BY <1>4, <1>5 DEF Sorted
        <3> QED BY <3>1
    <2> QED BY <1>4, <2>1, <2>2
<1>8. h > k
    <2>1. h # k
        BY <1>4, <1>6
    <2>2. ~(h < k)
        <3>1. h < k => s[h] = s[k] /\ s[h] # s[k]
            BY <1>4, <1>6 DEF Sorted
        <3> QED BY <3>1
    <2> QED BY <1>4, <2>1, <2>2
<1>9. P[s[k]] < P[t[k]]
    BY <1>4, <1>5, <1>7 DEF Rising
<1>10. P[t[k]] <= P[s[k]]
    BY <1>4, <1>6, <1>8 DEF Sorted
<1>11. P[s[k]] \in Int /\ P[t[k]] \in Int
    BY <1>1, <1>4
<1> QED BY <1>9, <1>10, <1>11

\* An entry moved between its neighbours to be.
Between(n, P, s, i, slot, p) ==
    \A j \in 1..n : j # i => /\ j < slot => P[s[j]] < p
                             /\ j >= slot => p < P[s[j]]

LEMMA RisingSorts ==
    ASSUME NEW D, NEW n \in Nat, NEW P \in [D -> Int], NEW s \in [1..n -> D], Rising(n, P, s)
    PROVE  Sorted(D, n, P, s)
<1> SUFFICES ASSUME NEW j \in 1..n, NEW k \in 1..n, j < k
             PROVE  s[j] # s[k] /\ P[s[j]] <= P[s[k]]
    BY DEF Sorted
<1>1. P[s[j]] \in Int /\ P[s[k]] \in Int
    OBVIOUS
<1>2. P[s[j]] < P[s[k]]
    BY DEF Rising
<1> QED BY <1>1, <1>2

LEMMA MovedRises ==
    ASSUME NEW D, NEW n \in Nat, NEW P \in [D -> Int], NEW Q \in [D -> Int], NEW p \in Int,
           NEW s, Sorted(D, n, P, s), Rising(n, P, s), NEW i \in 1..n,
           NEW slot \in 1..(n + 1), slot # i, Between(n, P, s, i, slot, p),
           Q[s[i]] = p, \A x \in D : x # s[i] => Q[x] = P[x],
           NEW t, Shifted(n, s, i, slot, t)
    PROVE  Rising(n, Q, t)
<1>1. s \in [1..n -> D] /\ t \in [1..n -> D]
    <2>1. s \in [1..n -> D]
        BY DEF Sorted
    <2>2. {s[j] : j \in 1..n} \subseteq D
        BY <2>1
    <2>3. t \in [1..n -> {s[j] : j \in 1..n}]
        BY DEF Shifted
    <2> QED BY <2>1, <2>2, <2>3
<1>2. \A j \in 1..n : j # i => s[j] # s[i] /\ Q[s[j]] = P[s[j]]
    <2> SUFFICES ASSUME NEW j \in 1..n, j # i PROVE s[j] # s[i] /\ Q[s[j]] = P[s[j]]
        OBVIOUS
    <2>1. s[j] # s[i]
        BY DEF Sorted
    <2> QED BY <1>1, <2>1
<1>3. CASE slot > i
    <2>1. ASSUME NEW j \in 1..n
          PROVE  \E g \in 1..n :
                   /\ t[j] = s[g]
                   /\ \/ g = j /\ (j < i \/ j >= slot)
                      \/ g = i /\ j = slot - 1
                      \/ g = j + 1 /\ i <= j /\ j < slot - 1
        <3>1. CASE j < i \/ j >= slot
            BY <1>3, <3>1 DEF Shifted
        <3>2. CASE j = slot - 1
            BY <1>3, <3>2 DEF Shifted
        <3>3. CASE i <= j /\ j < slot - 1
            <4>1. PICK g \in 1..n : g = j + 1 /\ g < slot
                BY <3>3
            <4> QED BY <1>3, <3>3, <4>1 DEF Shifted
        <3> QED BY <3>1, <3>2, <3>3
    <2> SUFFICES ASSUME NEW j \in 1..n, NEW k \in 1..n, j < k PROVE Q[t[j]] < Q[t[k]]
        BY DEF Rising
    <2>2. PICK g \in 1..n :
             /\ t[j] = s[g]
             /\ \/ g = j /\ (j < i \/ j >= slot)
                \/ g = i /\ j = slot - 1
                \/ g = j + 1 /\ i <= j /\ j < slot - 1
        BY <2>1
    <2>3. PICK h \in 1..n :
             /\ t[k] = s[h]
             /\ \/ h = k /\ (k < i \/ k >= slot)
                \/ h = i /\ k = slot - 1
                \/ h = k + 1 /\ i <= k /\ k < slot - 1
        BY <2>1
    <2>4. CASE g = i
        <3>1. h # i /\ h >= slot
            BY <1>3, <2>2, <2>3, <2>4
        <3> QED BY <1>2, <2>2, <2>3, <2>4, <3>1 DEF Between
    <2>5. CASE g # i /\ h = i
        <3>1. g < slot
            BY <1>3, <2>2, <2>3, <2>5
        <3> QED BY <1>2, <2>2, <2>3, <2>5, <3>1 DEF Between
    <2>6. CASE g # i /\ h # i
        <3>1. g < h
            BY <1>3, <2>2, <2>3, <2>6
        <3> QED BY <1>2, <2>2, <2>3, <2>6, <3>1 DEF Rising
    <2> QED BY <2>4, <2>5, <2>6
<1>4. CASE slot < i
    <2>1. ASSUME NEW j \in 1..n
          PROVE  \E g \in 1..n :
                   /\ t[j] = s[g]
                   /\ \/ g = j /\ (j < slot \/ j > i)
                      \/ g = i /\ j = slot
                      \/ j = g + 1 /\ slot < j /\ j <= i
        <3>1. CASE j < slot \/ j > i
            BY <1>4, <3>1 DEF Shifted
        <3>2. CASE j = slot
            BY <1>4, <3>2 DEF Shifted
        <3>3. CASE slot < j /\ j <= i
            <4>1. PICK g \in 1..n : j = g + 1 /\ slot <= g
                <5>1. j - 1 \in 1..n /\ j = (j - 1) + 1 /\ slot <= j - 1
                    BY <3>3
                <5> QED BY <5>1
            <4> QED BY <1>4, <3>3, <4>1 DEF Shifted
        <3> QED BY <3>1, <3>2, <3>3
    <2> SUFFICES ASSUME NEW j \in 1..n, NEW k \in 1..n, j < k PROVE Q[t[j]] < Q[t[k]]
        BY DEF Rising
    <2>2. PICK g \in 1..n :
             /\ t[j] = s[g]
             /\ \/ g = j /\ (j < slot \/ j > i)
                \/ g = i /\ j = slot
                \/ j = g + 1 /\ slot < j /\ j <= i
        BY <2>1
    <2>3. PICK h \in 1..n :
             /\ t[k] = s[h]
             /\ \/ h = k /\ (k < slot \/ k > i)
                \/ h = i /\ k = slot
                \/ k = h + 1 /\ slot < k /\ k <= i
        BY <2>1
    <2>4. CASE g = i
        <3>1. h # i /\ h >= slot
            BY <1>4, <2>2, <2>3, <2>4
        <3> QED BY <1>2, <2>2, <2>3, <2>4, <3>1 DEF Between
    <2>5. CASE g # i /\ h = i
        <3>1. g < slot
            BY <1>4, <2>2, <2>3, <2>5
        <3> QED BY <1>2, <2>2, <2>3, <2>5, <3>1 DEF Between
    <2>6. CASE g # i /\ h # i
        <3>1. g < h
            BY <1>4, <2>2, <2>3, <2>6
        <3> QED BY <1>2, <2>2, <2>3, <2>6, <3>1 DEF Rising
    <2> QED BY <2>4, <2>5, <2>6
<1> QED BY <1>3, <1>4

-----------------------------------------------------------------------------
(***************************************************************************)
(* The position a move is given.                                           *)
(***************************************************************************)
OrdersOf(r) ==
    {s \in [1..Cardinality(DOMAIN r) -> DOMAIN r] :
        \A j, k \in DOMAIN s : j < k => s[j] # s[k] /\ r[s[j]].pos <= r[s[k]].pos}
PosOf(r) == [i \in DOMAIN r |-> r[i].pos]

LEMMA OrderIsSorted ==
    ASSUME NEW r, NEW n \in Nat, n = Cardinality(DOMAIN r)
    PROVE  \A s : s \in OrdersOf(r) <=> Sorted(DOMAIN r, n, PosOf(r), s)
<1> SUFFICES ASSUME NEW s PROVE s \in OrdersOf(r) <=> Sorted(DOMAIN r, n, PosOf(r), s)
    OBVIOUS
<1>1. CASE s \in [1..n -> DOMAIN r]
    <2>1. DOMAIN s = 1..n /\ \A j \in 1..n : PosOf(r)[s[j]] = r[s[j]].pos
        BY <1>1 DEF PosOf
    <2> QED BY <1>1, <2>1 DEF OrdersOf, Sorted
<1>2. CASE s \notin [1..n -> DOMAIN r]
    BY <1>2 DEF OrdersOf, Sorted
<1> QED BY <1>1, <1>2

\* The list without the moved entry, and the entry it goes before in it.
LEMMA RestOf ==
    ASSUME NEW D, NEW n \in Nat, NEW P \in [D -> Int], NEW s, Sorted(D, n, P, s),
           NEW i \in 1..n
    PROVE  IsWithout(D, n, s, i, n - 1, Without(s, s[i]))
<1>1. s \in [1..n -> D]
    BY DEF Sorted
<1>2. Distinct(n, s)
    BY DEF Sorted, Distinct
<1>3. PICK m \in Nat : m = n - 1
    OBVIOUS
<1>4. IsWithout(D, n, s, i, m, Without(s, s[i]))
    BY <1>1, <1>2, <1>3, WithoutAt
<1> QED BY <1>3, <1>4

LEMMA EndIsBetween ==
    ASSUME PosInv, NEW D, D = DOMAIN rows, NEW P, P = PosOf(rows),
           NEW n \in Nat, NEW s, Sorted(D, n, P, s), Rising(n, P, s), NEW i \in 1..n,
           NEW p \in reorderPosition(s, s[i], None), NEW slot, slot = n + 1
    PROVE  Between(n, P, s, i, slot, p)
<1>1. P \in [D -> Int] /\ \A x \in D : P[x] = rows[x].pos
    BY DEF PosInv, Position, PosOf
<1>2. PICK rest : rest = Without(s, s[i])
    OBVIOUS
<1>3. PICK m \in Nat : m = n - 1
    OBVIOUS
<1>4. IsWithout(D, n, s, i, m, rest)
    BY <1>1, <1>2, <1>3, RestOf
<1>5. p = IF m = 0 THEN Gap ELSE rows[rest[m]].pos + Gap
    BY <1>2, <1>4 DEF reorderPosition, IsWithout
<1> SUFFICES ASSUME NEW j \in 1..n, j # i PROVE P[s[j]] < p
    BY DEF Between
<1>6. m # 0
    BY <1>3
<1>7. PICK g \in 1..n : rest[m] = s[g] /\ (j < g \/ j = g)
    <2>1. CASE i = n
        <3>1. m \in 1..n /\ m \in 1..m /\ m < i
            BY <1>3, <1>6, <2>1
        <3>2. rest[m] = s[m]
            BY <1>4, <3>1 DEF IsWithout
        <3>3. j < m \/ j = m
            BY <1>3, <2>1
        <3> QED BY <3>1, <3>2, <3>3
    <2>2. CASE i # n
        <3>1. m \in 1..m /\ n \in 1..n /\ m >= i /\ n = m + 1
            BY <1>3, <1>6, <2>2
        <3>2. rest[m] = s[n]
            BY <1>4, <3>1 DEF IsWithout
        <3> QED BY <3>1, <3>2
    <2> QED BY <2>1, <2>2
<1>8. s[g] \in D /\ s[j] \in D
    BY DEF Sorted
<1>9. P[s[j]] <= P[s[g]]
    BY <1>1, <1>7, <1>8 DEF Rising
<1>10. p = P[s[g]] + Gap
    BY <1>1, <1>5, <1>6, <1>7, <1>8
<1> QED BY <1>1, <1>8, <1>9, <1>10, ConstantsAssumption

\* The entry after the slot is the one the list without the moved entry has it
\* before, and the one in front of it is the last before the slot.
GoesAt(n, s, i, slot, rest, k) ==
    /\ IndexIn(rest, s[slot]) = k /\ rest[k] = s[slot]
    /\ k = 1 => \A j \in 1..n : j # i => j >= slot
    /\ k # 1 => \E g \in 1..n : /\ g # i /\ g < slot /\ rest[k-1] = s[g]
                                /\ \A j \in 1..n : j # i /\ j < slot => j < g \/ j = g

LEMMA InRest ==
    ASSUME NEW D, NEW n \in Nat, NEW s \in [1..n -> D], Distinct(n, s), NEW i \in 1..n,
           NEW m \in Nat, m = n - 1, NEW rest, IsWithout(D, n, s, i, m, rest),
           NEW slot \in 1..n, slot # i
    PROVE  \E k \in 1..m : GoesAt(n, s, i, slot, rest, k)
<1> DEFINE from(j) == IF j < i THEN j ELSE j + 1
<1>1. \A j \in 1..m : from(j) \in 1..n /\ rest[j] = s[from(j)]
    <2> SUFFICES ASSUME NEW j \in 1..m PROVE from(j) \in 1..n /\ rest[j] = s[from(j)]
        OBVIOUS
    <2>1. CASE j < i
        BY <2>1 DEF IsWithout
    <2>2. CASE ~(j < i)
        <3>1. PICK k \in 1..n : k = j + 1
            OBVIOUS
        <3>2. rest[j] = s[k]
            BY <2>2, <3>1 DEF IsWithout
        <3> QED BY <2>2, <3>1, <3>2
    <2> QED BY <2>1, <2>2
<1>2. PICK k \in 1..m : from(k) = slot
    <2>1. CASE slot < i
        <3>1. slot \in 1..m /\ from(slot) = slot
            BY <2>1
        <3> QED BY <3>1
    <2>2. CASE slot > i
        <3>1. slot - 1 \in 1..m /\ from(slot - 1) = slot
            BY <2>2
        <3> QED BY <3>1
    <2> QED BY <2>1, <2>2
<1>3. rest[k] = s[slot]
    BY <1>1, <1>2
<1>4. \A j \in 1..m : rest[j] = s[slot] => j = k
    <2> SUFFICES ASSUME NEW j \in 1..m, rest[j] = s[slot] PROVE j = k
        OBVIOUS
    <2>1. from(j) \in 1..n /\ s[from(j)] = s[slot]
        BY <1>1
    <2>2. from(j) = slot
        <3> HIDE DEF from
        <3> QED BY <2>1 DEF Distinct
    <2> QED BY <1>2, <2>2
<1>5. IndexIn(rest, s[slot]) = k
    <2>1. DOMAIN rest = 1..m
        BY DEF IsWithout
    <2> HIDE DEF from
    <2> QED BY <1>3, <1>4, <2>1 DEF IndexIn
<1>6. k = 1 => \A j \in 1..n : j # i => j >= slot
    BY <1>2
<1>7. ASSUME k # 1
      PROVE  \E g \in 1..n : /\ g # i /\ g < slot /\ rest[k-1] = s[g]
                             /\ \A j \in 1..n : j # i /\ j < slot => j < g \/ j = g
    <2>1. PICK h \in 1..m : h = k - 1
        BY <1>7
    <2>2. PICK g \in 1..n : g = from(h) /\ rest[h] = s[g]
        BY <1>1
    <2>3. g # i /\ g < slot
        BY <1>2, <2>1, <2>2
    <2>4. \A j \in 1..n : j # i /\ j < slot => j < g \/ j = g
        BY <1>2, <2>1, <2>2
    <2> HIDE DEF from
    <2> QED BY <2>1, <2>2, <2>3, <2>4
<1>8. GoesAt(n, s, i, slot, rest, k)
    <2> HIDE DEF from
    <2> QED BY <1>3, <1>5, <1>6, <1>7 DEF GoesAt
<1> QED BY <1>8

LEMMA BeforeIsBetween ==
    ASSUME PosInv, NEW D, D = DOMAIN rows, NEW P, P = PosOf(rows),
           NEW n \in Nat, NEW s, Sorted(D, n, P, s), Rising(n, P, s), NEW i \in 1..n,
           NEW slot \in 1..n, slot # i, s[slot] # None,
           NEW p \in reorderPosition(s, s[i], s[slot]),
           \A x \in D : x # s[i] => P[x] # p
    PROVE  Between(n, P, s, i, slot, p)
<1>1. P \in [D -> Int] /\ \A x \in D : P[x] = rows[x].pos
    BY DEF PosInv, Position, PosOf
<1>2. s \in [1..n -> D] /\ Distinct(n, s)
    BY DEF Sorted, Distinct
<1>3. PICK rest : rest = Without(s, s[i])
    OBVIOUS
<1>4. PICK m \in Nat : m = n - 1
    OBVIOUS
<1>5. IsWithout(D, n, s, i, m, rest)
    BY <1>1, <1>3, <1>4, RestOf
<1>6. PICK k \in 1..m : GoesAt(n, s, i, slot, rest, k)
    BY <1>2, <1>4, <1>5, InRest
<1>7. p \in IF k = 1 THEN {rows[rest[1]].pos - Gap}
                     ELSE Midpoint(rows[rest[k-1]].pos, rows[rest[k]].pos)
    BY <1>3, <1>6 DEF reorderPosition, GoesAt
<1>8. \A j \in 1..n : s[j] \in D /\ P[s[j]] \in Int /\ P[s[j]] = rows[s[j]].pos
    BY <1>1, <1>2
<1>9. \A j \in 1..n : j >= slot => P[s[slot]] <= P[s[j]]
    BY <1>8 DEF Rising
<1>10. p \in Int /\ p < P[s[slot]] /\ \A j \in 1..n : j # i /\ j < slot => P[s[j]] < p
    <2>1. CASE k = 1
        <3>1. p = P[s[slot]] - Gap
            BY <1>6, <1>7, <1>8, <2>1 DEF GoesAt
        <3>2. \A j \in 1..n : ~(j # i /\ j < slot)
            BY <1>6, <2>1 DEF GoesAt
        <3> QED BY <1>8, <3>1, <3>2, ConstantsAssumption
    <2>2. CASE k # 1
        <3>1. PICK g \in 1..n : /\ g # i /\ g < slot /\ rest[k-1] = s[g]
                                /\ \A j \in 1..n : j # i /\ j < slot => j < g \/ j = g
            BY <1>6, <2>2 DEF GoesAt
        <3>2. PICK a \in Int : a = P[s[g]]
            BY <1>8
        <3>3. PICK b \in Int : b = P[s[slot]]
            BY <1>8
        <3>4. p = (a + b) \div 2 \/ p = (a + b + 1) \div 2
            BY <1>6, <1>7, <1>8, <2>2, <3>1, <3>2, <3>3 DEF Midpoint, GoesAt
        <3>5. a < b
            BY <3>1, <3>2, <3>3 DEF Rising
        <3>6. p # a /\ p # b
            <4>1. s[g] # s[i] /\ s[slot] # s[i]
                BY <1>2, <3>1 DEF Distinct
            <4> QED BY <1>8, <3>2, <3>3, <4>1
        <3>7. p \in Int /\ a < p /\ p < b
            BY <3>4, <3>5, <3>6
        <3>8. ASSUME NEW j \in 1..n, j # i, j < slot PROVE P[s[j]] < p
            <4>1. j < g \/ j = g
                BY <3>1, <3>8
            <4>2. P[s[j]] <= a
                BY <1>8, <3>2, <4>1 DEF Rising
            <4> QED BY <1>8, <3>7, <4>2
        <3> QED BY <3>3, <3>7, <3>8
    <2> QED BY <2>1, <2>2
<1>11. ASSUME NEW j \in 1..n, j >= slot PROVE p < P[s[j]]
    BY <1>8, <1>9, <1>10, <1>11
<1> QED BY <1>10, <1>11 DEF Between

-----------------------------------------------------------------------------
(***************************************************************************)
(* The moves under way: each asks for the slot of the order it was made    *)
(* from, and one whose position is computed has it from the list as it is, *)
(* or a write has outrun it.                                               *)
(***************************************************************************)
ShownInv ==
    /\ Len(shown) \in Nat /\ DOMAIN shown = 1..Len(shown)
    /\ drag = [at |-> drag.at, id |-> drag.id, over |-> drag.over] /\ drag.over \in Nat
Asked(r) ==
    \/ r.slot \in 1..Len(r.seen) /\ r.before = r.seen[r.slot]
    \/ r.slot = Len(r.seen) + 1 /\ r.before = None
Computed(r) ==
    /\ r.id \in DOMAIN rows /\ (r.before = None \/ r.before \in DOMAIN rows \ {r.id})
    /\ \E s \in Orders : r.pos \in reorderPosition(s, r.id, r.before)
Placed(r) == r.op = "move" /\ r.stage = "placed"
MovesInv ==
    \A c \in Calls : calls[c].op = "move" =>
        Asked(calls[c]) /\ (calls[c].stage = "placed" => Computed(calls[c]))
DropInv == OrderInv /\ ShownInv /\ MovesInv

LEMMA ShownStep ==
    ASSUME Inv, ShownInv, [Next]_vars PROVE ShownInv'
<1>1. CASE UNCHANGED <<shown, drag>>
    BY <1>1 DEF ShownInv
<1>2. CASE Refetch
    <2>1. PICK s \in Orders : shown' = View(s)
        BY <1>2 DEF Refetch
    <2>2. PICK n \in Nat : n = Cardinality(DOMAIN rows)
        <3>1. DOMAIN rows \subseteq Entries
            BY DEF Inv, EntriesOf
        <3> QED BY <3>1, ConstantsAssumption, FS_Subset, FS_CardinalityType
    <2>3. DOMAIN shown' = 1..n /\ shown' = [k \in 1..n |-> shown'[k]]
        BY <2>1, <2>2 DEF Orders, View
    <2>4. Len(shown') = n
        BY <2>3
    <2> QED BY <1>2, <2>3, <2>4 DEF Refetch, ShownInv
<1>3. ASSUME NEW k \in DOMAIN shown, startDrag(k) PROVE ShownInv'
    BY <1>3 DEF startDrag, ShownInv
<1>4. ASSUME NEW k \in DOMAIN shown, onRowDragOver(k) PROVE ShownInv'
    <2>1. PICK slot \in {k, k + 1} : drag' = [drag EXCEPT !.over = slot]
        BY <1>4 DEF onRowDragOver
    <2>2. slot \in Nat
        BY DEF ShownInv
    <2> QED BY <1>4, <2>1, <2>2 DEF onRowDragOver, ShownInv
<1>5. CASE endDrag \/ drop
    BY <1>5 DEF endDrag, drop, ShownInv, NoDrag
<1>6. ASSUME ToggleRead \/ Rows \/ Dialogs \/ World PROVE UNCHANGED <<shown, drag>>
    BY <1>6 DEF ToggleRead, Rows, RemoveRow, OpenLink, OpenDialog, Dialogs, toggle, submit,
                submitManual, submitGroups, Ask, onClose, link, World, Elsewhere, BookLeaves,
                BookArrives, Read, GroupDeleted, screen
<1>7. ASSUME Handlers PROVE UNCHANGED <<shown, drag>>
    BY <1>7 DEF Handlers, ReadsOrder, SetPosition, RemoveItem, AddItems, AddManualItems,
                AddCollections, Relink, Lose, Answer, Besides, screen
<1> QED BY <1>1, <1>2, <1>3, <1>4, <1>5, <1>6, <1>7 DEF Next, Dragging, vars

\* What a step does to a request under way.
Keeps(c) == calls'[c] = calls[c] /\ (Placed(calls[c]) => UNCHANGED rows)
IsOutrun(c) == Placed(calls[c]) /\ calls'[c] = [calls[c] EXCEPT !.stage = "outrun"]
IsNoMove(c) == ~Placed(calls[c]) /\ calls'[c].op # "move"
IsAsked(c) == calls[c] = Idle /\ calls'[c].stage = "sent" /\ Asked(calls'[c])
Computes(c) ==
    /\ calls[c].op = "move" /\ calls[c].stage = "sent" /\ UNCHANGED rows
    /\ \E p : /\ calls'[c] = [calls[c] EXCEPT !.stage = "placed", !.pos = p]
              /\ calls[c].id \in DOMAIN rows
              /\ calls[c].before = None \/ calls[c].before \in DOMAIN rows \ {calls[c].id}
              /\ \E s \in Orders : p \in reorderPosition(s, calls[c].id, calls[c].before)
Evolves(c) ==
    Keeps(c) \/ IsOutrun(c) \/ IsNoMove(c) \/ IsAsked(c) \/ Computes(c) \/ SetPosition(c)

LEMMA CallEvolves ==
    ASSUME DialogInv, CallsInv, ShownInv, Inv, [Next]_vars, NEW c \in Calls
    PROVE  Evolves(c)
<1>1. CASE UNCHANGED <<calls, rows>>
    BY <1>1 DEF Evolves, Keeps
<1>2. ASSUME NEW call, UNCHANGED rows, Send(call),
             call.op # "move" \/ (call.stage = "sent" /\ Asked(call))
      PROVE  Evolves(c)
    <2>1. PICK d \in Calls : calls[d] = Idle /\ calls' = [calls EXCEPT ![d] = call]
        BY <1>2 DEF Send
    <2>2. CASE c = d
        <3>1. calls'[c] = call /\ ~Placed(calls[c])
            BY <2>1, <2>2 DEF CallsInv, Placed, Idle
        <3> QED BY <1>2, <2>1, <2>2, <3>1 DEF Evolves, IsNoMove, IsAsked
    <2>3. CASE c # d
        BY <1>2, <2>1, <2>3 DEF Evolves, Keeps
    <2> QED BY <2>2, <2>3
<1>3. ASSUME NEW d \in Calls, NEW call, UNCHANGED rows, calls' = [calls EXCEPT ![d] = call],
             call.op # "move", ~Placed(calls[d])
      PROVE  Evolves(c)
    <2>1. CASE c = d
        BY <1>3, <2>1 DEF CallsInv, Evolves, IsNoMove
    <2>2. CASE c # d
        BY <1>3, <2>2 DEF Evolves, Keeps
    <2> QED BY <2>1, <2>2
<1>4. ASSUME NEW cs, calls' = Outrun(cs), cs[c] = calls[c] PROVE Evolves(c)
    <2>1. calls'[c] = IF Placed(cs[c]) THEN [cs[c] EXCEPT !.stage = "outrun"] ELSE cs[c]
        BY <1>4 DEF Outrun, Placed
    <2> QED BY <1>4, <2>1 DEF Evolves, Keeps, IsOutrun
<1>5. ASSUME NEW d \in Calls, NEW call, calls' = Outrun([calls EXCEPT ![d] = call]),
             call.op # "move", ~Placed(calls[d])
      PROVE  Evolves(c)
    <2>1. CASE c = d
        <3>1. [calls EXCEPT ![d] = call][c] = call
            BY <2>1 DEF CallsInv
        <3>2. calls'[c] = call
            BY <1>5, <3>1 DEF Outrun
        <3> QED BY <1>5, <2>1, <3>2 DEF Evolves, IsNoMove
    <2>2. CASE c # d
        <3>1. [calls EXCEPT ![d] = call][c] = calls[c]
            BY <2>2 DEF CallsInv
        <3> QED BY <1>4, <1>5, <3>1
    <2> QED BY <2>1, <2>2
<1>6. Idle.op # "move"
    BY DEF Idle
\* A dialog's request keeps its name, whatever comes of it.
<1>7. ASSUME NEW d \in Calls, calls[d].op \in DialogOps, NEW x
      PROVE  /\ ~Placed(calls[d])
             /\ [calls[d] EXCEPT !.stage = x].op # "move"
             /\ [calls[d] EXCEPT !.orphan = x].op # "move"
             /\ [calls[d] EXCEPT !.picked = x].op # "move"
    <2>1. Added(calls[d]) \/ LinkAsked(calls[d])
        BY <1>7 DEF CallsInv, Formed, Idle, Moved, Removed, DialogOps
    <2>2. calls[d].op # "move"
        BY <1>7 DEF DialogOps
    <2> QED BY <2>1, <2>2 DEF Added, LinkAsked, Placed
<1>8. ASSUME NEW d \in Calls, NEW stage, calls[d].op \in DialogOps, Stage(d, stage)
      PROVE  Evolves(c)
    <2>1. calls' = Outrun([calls EXCEPT ![d] = [calls[d] EXCEPT !.stage = stage]])
        BY <1>8 DEF Stage
    <2> QED BY <1>5, <1>7, <1>8, <2>1
<1>9. CASE drop
    <2>1. CASE drag.at \in DOMAIN shown /\ BeforeId # shown[drag.at].id
        <3> DEFINE call == [op |-> "move", id |-> shown[drag.at].id, before |-> BeforeId,
                            seen |-> [k \in DOMAIN shown |-> shown[k].id],
                            slot |-> IF BeforeId = None THEN Len(shown) + 1 ELSE drag.over,
                            stage |-> "sent", pos |-> 0]
        <3>1. Send(call) /\ UNCHANGED rows
            BY <1>9, <2>1 DEF drop, server
        <3>2. Asked(call)
            <4>1. Len(call.seen) = Len(shown)
                BY DEF ShownInv
            <4>2. CASE BeforeId = None
                BY <4>1, <4>2 DEF Asked
            <4>3. CASE BeforeId # None
                <5>1. drag.over \in 1..Len(shown) /\ BeforeId = shown[drag.over].id
                    BY <1>9, <4>3 DEF BeforeId, ShownInv, drop
                <5> QED BY <4>1, <4>3, <5>1 DEF Asked, ShownInv
            <4> QED BY <4>2, <4>3
        <3>3. call.stage = "sent"
            OBVIOUS
        <3> HIDE DEF call
        <3> QED BY <1>2, <3>1, <3>2, <3>3
    <2> QED BY <1>1, <1>9, <2>1 DEF drop, server
<1>10. CASE Elsewhere
    <2>1. ASSUME NEW i, Send([op |-> "remove", id |-> i, stage |-> "sent"]) PROVE Evolves(c)
        <3>1. [op |-> "remove", id |-> i, stage |-> "sent"].op # "move"
            OBVIOUS
        <3>2. UNCHANGED rows
            BY <1>10 DEF Elsewhere, server
        <3> QED BY <1>2, <2>1, <3>1, <3>2
    <2>2. ASSUME NEW s \in Orders, NEW k \in DOMAIN s, NEW slot \in 1..(Len(s) + 1),
                 Send([op |-> "move", id |-> s[k],
                       before |-> IF slot <= Len(s) THEN s[slot] ELSE None,
                       seen |-> s, slot |-> slot, stage |-> "sent", pos |-> 0])
          PROVE  Evolves(c)
        <3> DEFINE call == [op |-> "move", id |-> s[k],
                            before |-> IF slot <= Len(s) THEN s[slot] ELSE None,
                            seen |-> s, slot |-> slot, stage |-> "sent", pos |-> 0]
        <3>1. Len(s) \in Nat
            <4>1. PICK n \in Nat : n = Cardinality(DOMAIN rows)
                <5>1. DOMAIN rows \subseteq Entries
                    BY DEF Inv, EntriesOf
                <5> QED BY <5>1, ConstantsAssumption, FS_Subset, FS_CardinalityType
            <4>2. s \in [1..n -> DOMAIN rows]
                BY <4>1 DEF Orders
            <4> QED BY <4>2
        <3>2. Asked(call)
            BY <3>1 DEF Asked
        <3>3. call.stage = "sent"
            OBVIOUS
        <3>4. UNCHANGED rows
            BY <1>10 DEF Elsewhere, server
        <3> HIDE DEF call
        <3>5. Send(call)
            BY <2>2 DEF call
        <3> QED BY <1>2, <3>2, <3>3, <3>4, <3>5
    <2> QED BY <1>10, <2>1, <2>2 DEF Elsewhere
<1>11. CASE Rows
    <2>1. ASSUME NEW k, RemoveRow(k) PROVE Evolves(c)
        <3>1. [op |-> "remove", id |-> shown[k].id, stage |-> "sent"].op # "move"
            OBVIOUS
        <3> QED BY <1>2, <2>1, <3>1 DEF RemoveRow, server
    <2>2. ASSUME NEW k, OpenLink(k) PROVE Evolves(c)
        BY <1>1, <2>2 DEF OpenLink, OpenDialog, server
    <2> QED BY <1>11, <2>1, <2>2 DEF Rows
<1>12. CASE Dialogs
    <2>1. ASSUME NEW op, op # "move", NEW what, Ask(op, what) PROVE Evolves(c)
        <3>1. [op |-> op, picked |-> what, stage |-> "sent", orphan |-> FALSE].op # "move"
            BY <2>1
        <3> QED BY <1>2, <2>1, <3>1 DEF Ask, server
    <2>2. ASSUME submit \/ submitManual \/ submitGroups PROVE Evolves(c)
        BY <2>1, <2>2 DEF submit, submitManual, submitGroups
    <2>3. ASSUME NEW b \in Books, link(b) PROVE Evolves(c)
        <3>1. [op |-> "link", id |-> dialog.entry, book |-> b, stage |-> "sent",
               orphan |-> FALSE].op # "move"
            OBVIOUS
        <3> QED BY <1>2, <2>3, <3>1 DEF link, server
    <2>4. ASSUME onClose PROVE Evolves(c)
        <3>1. /\ UNCHANGED rows
              /\ calls'[c] = IF calls[c].op \in DialogOps
                             THEN [calls[c] EXCEPT !.orphan = TRUE] ELSE calls[c]
            BY <2>4 DEF onClose, server
        <3>2. CASE calls[c].op \in DialogOps
            BY <1>7, <3>1, <3>2 DEF Evolves, IsNoMove
        <3>3. CASE calls[c].op \notin DialogOps
            BY <3>1, <3>3 DEF Evolves, Keeps
        <3> QED BY <3>2, <3>3
    <2>5. ASSUME NEW kind, OpenDialog(kind, None) PROVE Evolves(c)
        BY <1>1, <2>5 DEF OpenDialog, server
    <2>6. ASSUME NEW x, toggle(x) PROVE Evolves(c)
        BY <1>1, <2>6 DEF toggle, server
    <2> QED BY <1>12, <2>2, <2>3, <2>4, <2>5, <2>6 DEF Dialogs
<1>13. ASSUME NEW d \in Calls, ReadsOrder(d) PROVE Evolves(c)
    <2>1. UNCHANGED rows /\ ~Placed(calls[d])
        BY <1>13 DEF ReadsOrder, server, Placed
    <2>2. CASE calls' = [calls EXCEPT ![d] = Idle]
        BY <1>3, <1>6, <2>1, <2>2
    <2>3. CASE calls' # [calls EXCEPT ![d] = Idle]
        <3>1. PICK p : /\ calls' = [calls EXCEPT ![d].stage = "placed", ![d].pos = p]
                       /\ calls[d].id \in DOMAIN rows
                       /\ calls[d].before = None \/ calls[d].before \in DOMAIN rows \ {calls[d].id}
                       /\ \E s \in Orders : p \in reorderPosition(s, calls[d].id, calls[d].before)
            BY <1>13, <2>3 DEF ReadsOrder
        <3>2. calls' = [calls EXCEPT ![d] = [calls[d] EXCEPT !.stage = "placed", !.pos = p]]
            BY <3>1 DEF CallsInv
        <3>3. CASE c = d
            <4>1. calls'[c] = [calls[c] EXCEPT !.stage = "placed", !.pos = p]
                BY <3>2, <3>3 DEF CallsInv
            <4> QED BY <1>13, <2>1, <3>1, <3>3, <4>1 DEF Evolves, Computes, ReadsOrder
        <3>4. CASE c # d
            BY <2>1, <3>2, <3>4 DEF Evolves, Keeps
        <3> QED BY <3>3, <3>4
    <2> QED BY <2>2, <2>3
<1>14. ASSUME NEW d \in Calls, SetPosition(d) PROVE Evolves(c)
    <2>1. CASE c = d
        BY <1>14, <2>1 DEF Evolves
    <2>2. CASE c # d
        <3>1. calls' = Outrun([calls EXCEPT ![d] = Idle])
            BY <1>14 DEF SetPosition, Ends
        <3>2. [calls EXCEPT ![d] = Idle][c] = calls[c]
            BY <2>2 DEF CallsInv
        <3> QED BY <1>4, <3>1, <3>2
    <2> QED BY <2>1, <2>2
<1>15. ASSUME NEW d \in Calls, RemoveItem(d) PROVE Evolves(c)
    <2>1. calls' = Outrun([calls EXCEPT ![d] = Idle]) /\ ~Placed(calls[d])
        BY <1>15 DEF RemoveItem, Ends, Placed
    <2> QED BY <1>5, <1>6, <2>1
<1>16. ASSUME NEW d \in Calls, AddCollections(d) PROVE Evolves(c)
    <2>1. PICK g \in calls[d].picked :
              \/ Stage(d, "ok") \/ Stage(d, "err")
              \/ calls' = Outrun([calls EXCEPT ![d].picked = @ \ {g}])
        BY <1>16 DEF AddCollections
    <2>2. calls[d].op \in DialogOps
        BY <1>16 DEF AddCollections, DialogOps
    <2>3. CASE calls' = Outrun([calls EXCEPT ![d].picked = @ \ {g}])
        <3>1. PICK S : S = calls[d].picked \ {g}
            OBVIOUS
        <3>2. calls' = Outrun([calls EXCEPT ![d] = [calls[d] EXCEPT !.picked = S]])
            BY <2>3, <3>1
        <3> QED BY <1>5, <1>7, <2>2, <3>2
    <2> QED BY <1>8, <2>1, <2>2, <2>3
<1>17. ASSUME NEW d \in Calls, AddItems(d) \/ AddManualItems(d) \/ Relink(d) PROVE Evolves(c)
    BY <1>8, <1>17 DEF AddItems, AddManualItems, Relink, DialogOps
<1>18. ASSUME NEW d \in Calls, Lose(d) PROVE Evolves(c)
    <2>1. UNCHANGED rows /\ ~Placed(calls[d])
        BY <1>18 DEF Lose, server, Placed
    <2>2. CASE calls[d].op \in DialogOps
        BY <1>3, <1>7, <1>18, <2>1, <2>2 DEF Lose
    <2>3. CASE calls[d].op \notin DialogOps
        BY <1>3, <1>6, <1>18, <2>1, <2>3 DEF Lose
    <2> QED BY <2>2, <2>3
<1>19. ASSUME NEW d \in Calls, Answer(d) PROVE Evolves(c)
    BY <1>3, <1>6, <1>7, <1>19 DEF Answer, server
<1>20. CASE Handlers
    BY <1>13, <1>14, <1>15, <1>16, <1>17, <1>18, <1>19, <1>20 DEF Handlers
<1>21. CASE World
    <2>1. ASSUME calls' = Outrun(calls) PROVE Evolves(c)
        BY <1>4, <2>1
    <2> QED BY <1>1, <1>10, <1>21, <2>1
            DEF World, BookLeaves, BookArrives, Read, GroupDeleted
<1>22. CASE Refetch \/ ToggleRead \/ Dragging \/ endDrag \/ UNCHANGED vars
    BY <1>1, <1>22 DEF Refetch, ToggleRead, Dragging, startDrag, onRowDragOver, endDrag, vars,
                       server
<1> QED BY <1>9, <1>11, <1>12, <1>20, <1>21, <1>22 DEF Next

LEMMA MovesStep ==
    ASSUME OrderInv, ShownInv, MovesInv, [Next]_vars PROVE MovesInv'
<1> SUFFICES ASSUME NEW c \in Calls, calls'[c].op = "move"
             PROVE  /\ Asked(calls'[c])
                    /\ calls'[c].stage = "placed" => Computed(calls[c])'
    BY DEF MovesInv
<1>1. Evolves(c)
    BY CallEvolves DEF OrderInv
<1>2. CASE Keeps(c)
    <2>1. Asked(calls'[c])
        BY <1>2 DEF Keeps, MovesInv
    <2>2. ASSUME calls'[c].stage = "placed" PROVE Computed(calls[c])'
        <3>1. Computed(calls[c]) /\ UNCHANGED rows /\ calls'[c] = calls[c]
            BY <1>2, <2>2 DEF Keeps, Placed, MovesInv
        <3> QED BY <3>1 DEF Computed, Orders, reorderPosition
    <2> QED BY <2>1, <2>2
<1>3. CASE IsOutrun(c)
    <2>1. Moved(calls[c]) /\ Asked(calls[c])
        BY <1>3, MovesAreMoved DEF IsOutrun, Placed, MovesInv, OrderInv, CallsInv
    <2>2. calls'[c] = [calls[c] EXCEPT !.stage = "outrun"]
        BY <1>3 DEF IsOutrun
    <2>3. /\ calls'[c].slot = calls[c].slot /\ calls'[c].seen = calls[c].seen
          /\ calls'[c].before = calls[c].before /\ calls'[c].stage = "outrun"
        BY <2>1, <2>2 DEF Moved
    <2> QED BY <2>1, <2>3 DEF Asked
<1>4. CASE IsNoMove(c)
    BY <1>4 DEF IsNoMove
<1>5. CASE IsAsked(c)
    BY <1>5 DEF IsAsked
<1>6. CASE Computes(c)
    <2>1. Moved(calls[c]) /\ Asked(calls[c])
        BY <1>6, MovesAreMoved DEF Computes, MovesInv, OrderInv, CallsInv
    <2>2. PICK p : /\ calls'[c] = [calls[c] EXCEPT !.stage = "placed", !.pos = p]
                   /\ calls[c].id \in DOMAIN rows
                   /\ calls[c].before = None \/ calls[c].before \in DOMAIN rows \ {calls[c].id}
                   /\ \E s \in Orders : p \in reorderPosition(s, calls[c].id, calls[c].before)
        BY <1>6 DEF Computes
    <2>3. /\ calls'[c].slot = calls[c].slot /\ calls'[c].seen = calls[c].seen
          /\ calls'[c].before = calls[c].before /\ calls'[c].id = calls[c].id
          /\ calls'[c].pos = p
        BY <2>1, <2>2 DEF Moved
    <2>4. Asked(calls'[c])
        BY <2>1, <2>3 DEF Asked
    <2>5. UNCHANGED rows
        BY <1>6 DEF Computes
    <2>6. Computed(calls[c])'
        BY <2>2, <2>3, <2>5 DEF Computed, Orders, reorderPosition
    <2> QED BY <2>4, <2>6
<1>7. CASE SetPosition(c)
    <2>1. calls'[c] = Idle
        <3>1. [calls EXCEPT ![c] = Idle][c] = Idle
            BY DEF OrderInv, CallsInv
        <3> QED BY <1>7, <3>1 DEF SetPosition, Ends, Outrun, Idle
    <2> QED BY <2>1 DEF Idle
<1> QED BY <1>1, <1>2, <1>3, <1>4, <1>5, <1>6, <1>7 DEF Evolves

LEMMA InitDropInv == Init => DropInv
<1> SUFFICES ASSUME Init PROVE DropInv
    OBVIOUS
<1>1. ShownInv
    <2>1. PICK n \in Nat : n = Len(Listed) /\ DOMAIN Listed = 1..n
        BY ConstantsAssumption
    <2>2. DOMAIN shown = 1..n /\ shown = [k \in 1..n |-> shown[k]]
        BY <2>1 DEF Init
    <2>3. Len(shown) = n
        BY <2>2
    <2> QED BY <2>2, <2>3 DEF Init, NoDrag, ShownInv
<1>2. MovesInv
    BY DEF Init, Idle, MovesInv
<1> QED BY <1>1, <1>2, InitOrderInv DEF DropInv

LEMMA DropInvStep == DropInv /\ [Next]_vars => DropInv'
BY OrderInvStep, ShownStep, MovesStep DEF DropInv, OrderInv

\* A position set while the list is as it was read makes the order the drop shows.
LEMMA SetLands ==
    ASSUME DropInv, NEW c \in Calls, calls[c].stage = "placed", SetPosition(c),
           Orders = {calls[c].seen},
           \A i \in DOMAIN rows \ {calls[c].id} : rows[i].pos # calls[c].pos
    PROVE  Orders' = {Landed(calls[c].seen, calls[c].id, calls[c].slot)}
<1> DEFINE D == DOMAIN rows
           P == PosOf(rows)
           Q == PosOf(rows')
<1>1. PICK n \in Nat : n = Cardinality(D) /\ IsFiniteSet(D)
    <2>1. D \subseteq Entries
        BY DEF DropInv, OrderInv, Inv, EntriesOf
    <2> QED BY <2>1, ConstantsAssumption, FS_Subset, FS_CardinalityType
<1>2. PICK x : x = calls[c].id
    OBVIOUS
<1>3. PICK p : p = calls[c].pos
    OBVIOUS
<1>4. PICK s : s = calls[c].seen
    OBVIOUS
<1>5. PICK slot : slot = calls[c].slot
    OBVIOUS
<1>6. Orders = OrdersOf(rows) /\ Orders' = OrdersOf(rows')
    BY DEF Orders, OrdersOf
<1>7. P \in [D -> Int] /\ \A y \in D : P[y] = rows[y].pos
    BY DEF PosOf, DropInv, OrderInv, PosInv, Position
<1>8. \A t : t \in OrdersOf(rows) <=> Sorted(D, n, P, t)
    BY <1>1, OrderIsSorted
<1>9. Sorted(D, n, P, s) /\ \A t : Sorted(D, n, P, t) => t = s
    BY <1>4, <1>6, <1>8
<1>10. s \in [1..n -> D] /\ Len(s) = n /\ Distinct(n, s)
    BY <1>9 DEF Sorted, Distinct
<1>11. Rising(n, P, s)
    BY <1>7, <1>9, OneOrderRises
<1>12. Asked(calls[c]) /\ Computed(calls[c]) /\ Moved(calls[c])
    BY MovesAreMoved DEF SetPosition, DropInv, MovesInv, OrderInv, CallsInv
<1>13. x \in D /\ p \in Int /\ p \in reorderPosition(s, x, calls[c].before)
    BY <1>2, <1>3, <1>4, <1>12 DEF Computed, Moved, Position
<1>14. PICK i \in 1..n : s[i] = x
    BY <1>1, <1>10, <1>13, OrderCovers DEF Covers
<1>15. slot \in 1..(n + 1) /\ slot # i /\ Between(n, P, s, i, slot, p)
    <2>1. CASE slot \in 1..n /\ calls[c].before = s[slot]
        <3>1. s[slot] # None /\ s[slot] # x
            <4>1. s[slot] \in D /\ D \subseteq Entries
                BY <1>10, <2>1 DEF DropInv, OrderInv, Inv, EntriesOf
            <4>2. s[slot] # None
                BY <4>1, ConstantsAssumption
            <4> QED BY <1>2, <1>12, <2>1, <4>2 DEF Computed
        <3>2. slot # i
            BY <1>14, <3>1
        <3>3. \A y \in D : y # s[i] => P[y] # p
            BY <1>2, <1>3, <1>7, <1>14
        <3>4. p \in reorderPosition(s, s[i], s[slot])
            BY <1>13, <1>14, <2>1
        <3>5. PosInv
            BY DEF DropInv, OrderInv
        <3>6. Between(n, P, s, i, slot, p)
            <4> HIDE DEF P, D
            <4> QED BY <1>9, <1>11, <2>1, <3>1, <3>2, <3>3, <3>4, <3>5, BeforeIsBetween DEF P, D
        <3> QED BY <2>1, <3>2, <3>6
    <2>2. CASE slot = n + 1 /\ calls[c].before = None
        <3>1. p \in reorderPosition(s, s[i], None) /\ PosInv
            BY <1>13, <1>14, <2>2 DEF DropInv, OrderInv
        <3>2. Between(n, P, s, i, slot, p)
            BY <1>9, <1>11, <2>2, <3>1, EndIsBetween
        <3> QED BY <2>2, <3>2
    <2> QED BY <1>4, <1>5, <1>10, <1>12, <2>1, <2>2 DEF Asked
<1>16. DOMAIN rows' = D /\ Q \in [D -> Int] /\ Q[x] = p /\ \A y \in D : y # x => Q[y] = P[y]
    <2>1. rows' = Updated([j \in {x} \cap DOMAIN rows |-> [rows[j] EXCEPT !.pos = p]])
        BY <1>2, <1>3 DEF SetPosition
    <2>2. DOMAIN rows' = D /\ \A y \in D : y # x => rows'[y] = rows[y]
        BY <2>1 DEF Updated
    <2>3. rows'[x] = [rows[x] EXCEPT !.pos = p]
        BY <1>13, <2>1 DEF Updated
    <2>4. Shaped(rows[x])
        BY <1>13 DEF DropInv, OrderInv, Inv, EntriesOf
    <2>5. rows'[x].pos = p
        BY <2>3, <2>4 DEF Shaped
    <2>6. \A y \in D : Q[y] = rows'[y].pos
        BY <2>2 DEF PosOf
    <2>7. DOMAIN Q = D /\ Q = [y \in D |-> Q[y]]
        BY <2>2 DEF PosOf
    <2>8. \A y \in D : Q[y] \in Int /\ (y # x => Q[y] = P[y])
        BY <1>7, <1>13, <2>2, <2>5, <2>6
    <2> HIDE DEF Q, P
    <2> QED BY <1>13, <2>2, <2>5, <2>6, <2>7, <2>8
<1> HIDE DEF P, Q
<1>17. PICK t : t = Landed(s, s[i], slot)
    OBVIOUS
<1>18. Shifted(n, s, i, slot, t)
    BY <1>10, <1>15, <1>17, LandedAt
<1>19. Rising(n, Q, t)
    <2>1. Q[s[i]] = p /\ \A y \in D : y # s[i] => Q[y] = P[y]
        BY <1>14, <1>16
    <2> HIDE DEF D
    <2> QED BY <1>7, <1>9, <1>11, <1>13, <1>15, <1>16, <1>18, <2>1, MovedRises
<1>20. t \in [1..n -> D]
    <2>1. {s[j] : j \in 1..n} \subseteq D
        BY <1>10
    <2>2. t \in [1..n -> {s[j] : j \in 1..n}]
        BY <1>18 DEF Shifted
    <2> QED BY <2>1, <2>2
<1>21. Sorted(D, n, Q, t)
    BY <1>16, <1>19, <1>20, RisingSorts
<1>22. \A u : u \in OrdersOf(rows') <=> Sorted(D, n, Q, u)
    BY <1>1, <1>16, OrderIsSorted DEF Q
<1>23. ASSUME NEW u, Sorted(D, n, Q, u) PROVE u = t
    <2>1. Covers(D, n, t)
        <3>1. Distinct(n, t)
            BY <1>21 DEF Sorted, Distinct
        <3> QED BY <1>1, <1>20, <3>1, OrderCovers
    <2>2. Covers(D, n, u)
        <3>1. u \in [1..n -> D] /\ Distinct(n, u)
            BY <1>23 DEF Sorted, Distinct
        <3> QED BY <1>1, <3>1, OrderCovers
    <2> QED BY <1>16, <1>19, <1>21, <1>23, <2>1, <2>2, RisingIsOne
<1>24. Orders' = {t}
    BY <1>6, <1>21, <1>22, <1>23
<1> QED BY <1>2, <1>4, <1>5, <1>14, <1>17, <1>24

\* A drop puts the entry at the line the reader saw, in every list and whatever
\* else is under way, as long as the list is the one on screen, nothing is written
\* between the computation of the position and its use, and there is room for it.
THEOREM DropsLand == Spec => DropLandsWhereShown
<1>1. ASSUME DropInv, [Next]_vars, NEW c \in Calls,
             calls[c].op = "move", calls[c].stage = "placed", calls'[c] = Idle
      PROVE  SetPosition(c)
    <2>1. Evolves(c)
        BY <1>1, CallEvolves DEF DropInv, OrderInv
    <2>2. Placed(calls[c]) /\ calls[c] # Idle
        BY <1>1 DEF Placed, Idle
    <2>3. ~IsOutrun(c)
        <3>1. Moved(calls[c])
            BY <1>1, MovesAreMoved DEF DropInv, OrderInv, CallsInv
        <3>2. [calls[c] EXCEPT !.stage = "outrun"].op = "move"
            BY <3>1 DEF Moved
        <3> QED BY <1>1, <3>2 DEF IsOutrun, Idle
    <2> QED BY <1>1, <2>1, <2>2, <2>3 DEF Evolves, Keeps, IsNoMove, IsAsked, Computes
<1>2. DropInv /\ [Next]_vars =>
        [\A c \in Calls :
          /\ calls[c].op = "move" /\ calls[c].stage = "placed" /\ calls'[c] = Idle
          /\ Orders = {calls[c].seen}
          /\ \A i \in DOMAIN rows \ {calls[c].id} : rows[i].pos # calls[c].pos
          => Orders' = {Landed(calls[c].seen, calls[c].id, calls[c].slot)}]_vars
    BY <1>1, SetLands
<1> QED BY <1>2, InitDropInv, DropInvStep, PTL DEF Spec, DropLandsWhereShown
=============================================================================
