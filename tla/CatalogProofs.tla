---------------------------- MODULE CatalogProofs ----------------------------
(***************************************************************************)
(* Theorems about Catalog, for any library, any files and any number of    *)
(* scans and books.                                                        *)
(***************************************************************************)
EXTENDS Catalog, TLAPS

Stages == {"idle", "ready", "over"} \cup Processing

\* The part of the type invariant about what scans hold.
Held ==
  /\ at \in [Scans -> Stages] /\ file \in [Scans -> Files \cup {None}]
  /\ \A s \in Scans : at[s] \in Processing <=> file[s] # None
  /\ \A s \in Scans : at[s] \in {"link", "pages"} => file[s].book # None

\* What a scan does to the file in its hands keeps the type of it.
LEMMA FilesClosed ==
  ASSUME NEW f \in Files
  PROVE  /\ \A h \in Contents : [f EXCEPT !.hash = h] \in Files
         /\ [f EXCEPT !.bad = TRUE] \in Files
         /\ \A c \in Contents : [f EXCEPT !.inside = c] \in Files
         /\ \A b \in Books : [f EXCEPT !.book = b] \in Files
         /\ \A b \in Books, m \in Marks : [f EXCEPT !.book = b, !.old = m] \in Files
BY DEF Files

\* A row that a scan builds from the file in its hands.
LEMMA BuiltIsRow ==
  ASSUME TypeOK, NEW f \in Files, NEW b \in Books
  PROVE  Built(f, b) \in Rows
<1>1. row[b] # None => row[b].marks.locks \in BOOLEAN
  BY DEF TypeOK, Rows, Marks
<1>2. Kept(f) \in BOOLEAN /\ (Kept(f) => f.old.user \in BOOLEAN)
  BY DEF Kept, Files, Marks
<1>3. (Kept(f) /\ f.old.user) \in BOOLEAN /\ (row[b] # None /\ row[b].marks.locks) \in BOOLEAN
  BY <1>1, <1>2
<1>4. QED
  BY <1>2, <1>3 DEF Built, Rows, Marks, Files

\* What a scan knows of a file when it has looked at it.
LEMMA LookedIsFile ==
  ASSUME TypeOK, NEW p \in Paths, disk[p] # None, NEW b \in Books \cup {None},
         b # None => row[b] # None
  PROVE  Looked(p, b) \in Files
<1>1. b # None => row[b].marks \in Marks
  BY DEF TypeOK, Rows
<1>2. disk[p] \in Versions
  BY DEF TypeOK
<1>3. QED
  BY <1>1, <1>2 DEF Looked, Files

\* A step that moves one scan on and changes what it holds keeps both typed.
LEMMA ScanMoves ==
  ASSUME TypeOK, NEW s \in Scans, NEW to \in Stages, NEW f \in Files \cup {None},
         (to \in Processing) <=> (f # None),
         to \in {"link", "pages"} => f.book # None,
         at' = [at EXCEPT ![s] = to], file' = [file EXCEPT ![s] = f]
  PROVE  Held'
BY DEF TypeOK, Stages, Held

\* One scan step of a file in hand that only fills in or marks a field.
LEMMA FileFilled ==
  ASSUME TypeOK, NoneIsApart, NEW s \in Scans, NEW from \in Processing, NEW to \in Processing,
         Goto(s, from, to), NEW f \in Files,
         to \in {"link", "pages"} => f.book # None, file' = [file EXCEPT ![s] = f]
  PROVE  Held'
<1>1. f \in Files \cup {None} /\ to \in Stages /\ f # None
  BY DEF NoneIsApart, Stages
<1>2. QED
  BY <1>1, ScanMoves DEF Goto

LEMMA HasFile ==
  ASSUME TypeOK, NEW s \in Scans, at[s] \in Processing
  PROVE  file[s] \in Files
BY DEF TypeOK

\* Letting the file in hand go, between two files or for good.
LEMMA FileDropped ==
  ASSUME TypeOK, NEW s \in Scans, NEW to \in {"ready", "over"},
         at' = [at EXCEPT ![s] = to], file' = [file EXCEPT ![s] = None]
  PROVE  Held'
<1>1. to \in Stages /\ to \notin Processing /\ to \notin {"link", "pages"}
  BY DEF Stages, Processing
<1>2. QED
  BY <1>1, ScanMoves

LEMMA FileTaken ==
  ASSUME TypeOK, NoneIsApart, NEW s \in Scans, NEW p \in Paths, disk[p] # None, 
         NEW b \in Books \cup {None}, b # None => row[b] # None,
         Take(s, Looked(p, b))
  PROVE  Held'
<1>1. Looked(p, b) \in Files
  BY LookedIsFile
<1>2. "hash" \in Stages /\ "hash" \in Processing /\ Looked(p, b) # None
  BY <1>1 DEF Stages, Processing, NoneIsApart
<1>3. QED
  BY <1>1, <1>2, ScanMoves DEF Take

\* An edit or a match writes marks.
LEMMA MarksWritten ==
  ASSUME TypeOK, NEW b \in Books, Edit(b) \/ Match(b)
  PROVE  \E m \in Marks : row' = [row EXCEPT ![b] = [row[b] EXCEPT !.marks = m]]
<1>1. row[b] \in Rows /\ row[b].marks \in Marks
  BY DEF Edit, Match, TypeOK, Rows
<1>2. CASE Edit(b)
  <2>1. [kept |-> TRUE, user |-> TRUE, locks |-> TRUE] \in Marks
    BY DEF Marks
  <2>2. QED
    BY <1>2, <2>1 DEF Edit, TypeOK
<1>3. CASE Match(b)
  <2>1. [kept |-> TRUE, user |-> row[b].marks.user /\ row[b].marks.locks,
         locks |-> row[b].marks.locks] \in Marks
    BY <1>1 DEF Marks
  <2>2. row' = [row EXCEPT ![b] = [row[b] EXCEPT !.marks =
           [kept |-> TRUE, user |-> row[b].marks.user /\ row[b].marks.locks,
            locks |-> row[b].marks.locks]]]
    BY <1>3, <1>1 DEF Match, TypeOK, Rows, Marks
  <2>3. QED
    BY <2>1, <2>2
<1>4. QED
  BY <1>2, <1>3

\* The type invariant: rows, pages and files in hand keep their types, and exactly
\* the scans that are processing hold a file.
THEOREM TypeCorrect == ASSUME CatalogAssumption, NoneIsApart PROVE Spec => []TypeOK
<1>1. Init => TypeOK
  BY DEF Init, TypeOK, Processing
<1>2. TypeOK /\ [Next]_vars => TypeOK'
  <2> SUFFICES ASSUME TypeOK, [Next]_vars PROVE TypeOK'
    OBVIOUS
  <2>b. Folder \in [Paths -> Folders] /\ Bytes \in [Versions -> Contents]
    BY DEF CatalogAssumption
  <2>1. ASSUME NEW p \in Paths, NEW v \in Versions, Write(p, v) PROVE TypeOK'
    BY <2>1 DEF Write, TypeOK, Disturb, catalogVars, scanVars
  <2>2. ASSUME NEW p \in Paths, Remove(p) PROVE TypeOK'
    BY <2>2 DEF Remove, TypeOK, Disturb, catalogVars, scanVars
  <2>3. ASSUME NEW p \in Paths, NEW q \in Paths, NEW v \in Versions, Move(p, q, v) PROVE TypeOK'
    BY <2>3 DEF Move, TypeOK, Disturb, catalogVars, scanVars
  <2>4. ASSUME NEW s \in Scans, Begin(s) PROVE TypeOK'
    <3>1. at[s] \notin Processing
      BY <2>4 DEF Begin, Processing
    <3>2. Held'
      BY <2>4, <3>1 DEF Begin, TypeOK, Held, Stages, Processing
    <3>3. todo' \in [Scans -> SUBSET Paths] /\ quiet' \subseteq Scans
      BY <2>4 DEF Begin, TypeOK
    <3>4. QED
      BY <2>4, <3>2, <3>3 DEF Begin, TypeOK, Held, Stages, diskVars, catalogVars
  <2>5. ASSUME NEW s \in Scans, NEW p \in Paths, Skip(s, p) PROVE TypeOK'
    BY <2>5 DEF Skip, NextFile, TypeOK, diskVars, catalogVars, history
  <2>6. ASSUME NEW s \in Scans, NEW p \in Paths, Look(s, p) \/ LookFails(s, p) PROVE TypeOK'
    <3>1. PICK b \in Books \cup {None} : (b # None => row[b] # None) /\ Take(s, Looked(p, b))
      BY <2>6 DEF Look, LookFails, Owners
    <3>2. disk[p] # None /\ quiet' \subseteq Scans /\ todo' \in [Scans -> SUBSET Paths]
      BY <2>6 DEF Look, LookFails, NextFile, TypeOK
    <3>3. Held'
      BY <3>1, <3>2, FileTaken
    <3>4. QED
      BY <3>1, <3>2, <3>3 DEF Take, TypeOK, Held, Stages, diskVars, catalogVars
  <2>7. ASSUME NEW s \in Scans, Hash(s) PROVE TypeOK'
    <3>1. at[s] \in Processing /\ file[s] \in Files /\ "match" \in Processing /\ "open" \in Processing
      BY <2>7, HasFile DEF Hash, Goto, Processing
    <3>2. Bytes[disk[file[s].path]] \in Contents
      BY <2>7, <2>b, <3>1 DEF Hash, TypeOK, Files
    <3>3. file' = [file EXCEPT ![s] = [file[s] EXCEPT !.hash = Bytes[disk[file[s].path]]]]
      BY <2>7 DEF Hash, TypeOK
    <3>4. [file[s] EXCEPT !.hash = Bytes[disk[file[s].path]]] \in Files
      BY <3>1, <3>2, FilesClosed
    <3>5. PICK to \in {"match", "open"} : Goto(s, "hash", to)
      BY <2>7, <3>1 DEF Hash
    <3>6. "hash" \in Processing
      BY DEF Processing
    <3>7. Held'
      BY <3>1, <3>3, <3>4, <3>5, <3>6, FileFilled
    <3>8. QED
      BY <2>7, <3>7 DEF Hash, TypeOK, Held, Stages, diskVars, catalogVars, history
  <2>8. ASSUME NEW s \in Scans, HashFails(s) \/ OpenFails(s) PROVE TypeOK'
    <3>1. at[s] \in Processing /\ file[s] \in Files /\ "series" \in Processing
      BY <2>8, HasFile DEF HashFails, OpenFails, Goto, Processing
    <3>2. file' = [file EXCEPT ![s] = [file[s] EXCEPT !.bad = TRUE]]
      BY <2>8 DEF HashFails, OpenFails, TypeOK
    <3>3. [file[s] EXCEPT !.bad = TRUE] \in Files
      BY <3>1, FilesClosed
    <3>4. PICK from \in Processing, to \in {"series"} : Goto(s, from, to)
      BY <2>8 DEF HashFails, OpenFails, Processing
    <3>5. Held'
      BY <3>1, <3>2, <3>3, <3>4, FileFilled
    <3>6. quiet' \subseteq Scans /\ fresh' \in BOOLEAN
      BY <2>8 DEF HashFails, OpenFails, Unread, Disturb, TypeOK
    <3>7. QED
      BY <2>8, <3>5, <3>6 DEF HashFails, OpenFails, TypeOK, Held, Stages, diskVars, catalogVars
  <2>9. ASSUME NEW s \in Scans, Reconcile(s) PROVE TypeOK'
    <3>1. at[s] \in Processing /\ file[s] \in Files /\ "match" \in Processing /\ "open" \in Processing
      BY <2>9, HasFile DEF Reconcile, Goto, Processing
    <3>2. PICK f \in Files : file' = [file EXCEPT ![s] = f]
      <4>1. CASE UNCHANGED file
        BY <3>1, <4>1 DEF TypeOK
      <4>2. CASE \E b \in Moved(file[s]) : file' = [file EXCEPT ![s].book = b, ![s].old = row[b].marks]
        <5>1. PICK b \in Moved(file[s]) : file' = [file EXCEPT ![s].book = b, ![s].old = row[b].marks]
          BY <4>2
        <5>2. b \in Books /\ row[b].marks \in Marks
          BY DEF Moved, TypeOK, Rows
        <5>3. file' = [file EXCEPT ![s] = [file[s] EXCEPT !.book = b, !.old = row[b].marks]]
          BY <5>1 DEF TypeOK
        <5>4. [file[s] EXCEPT !.book = b, !.old = row[b].marks] \in Files
          BY <3>1, <5>2, FilesClosed
        <5>5. QED
          BY <5>3, <5>4
      <4>3. QED
        BY <2>9, <4>1, <4>2 DEF Reconcile
    <3>3. PICK to \in {"open"} : Goto(s, "match", to)
      BY <2>9 DEF Reconcile
    <3>4. Held'
      BY <3>1, <3>2, <3>3, FileFilled
    <3>5. QED
      BY <2>9, <3>4 DEF Reconcile, TypeOK, Held, Stages, diskVars, catalogVars, history
  <2>10. ASSUME NEW s \in Scans, ReconcileFails(s) \/ LinkFails(s) PROVE TypeOK'
    BY <2>10 DEF ReconcileFails, LinkFails, Goto, TypeOK, Processing, diskVars, catalogVars
  <2>11. ASSUME NEW s \in Scans, Open(s) PROVE TypeOK'
    <3>1. at[s] \in Processing /\ file[s] \in Files /\ "open" \in Processing /\ "series" \in Processing
      BY <2>11, HasFile DEF Open, Goto, Processing
    <3>2. Bytes[disk[file[s].path]] \in Contents
      BY <2>11, <2>b, <3>1 DEF Open, Readable, TypeOK, Files
    <3>3. file' = [file EXCEPT ![s] = [file[s] EXCEPT !.inside = Bytes[disk[file[s].path]]]]
      BY <2>11 DEF Open, TypeOK
    <3>4. [file[s] EXCEPT !.inside = Bytes[disk[file[s].path]]] \in Files
      BY <3>1, <3>2, FilesClosed
    <3>5. PICK to \in {"series"} : Goto(s, "open", to)
      BY <2>11 DEF Open
    <3>6. Held'
      BY <3>1, <3>3, <3>4, <3>5, FileFilled
    <3>7. QED
      BY <2>11, <3>6 DEF Open, TypeOK, Held, Stages, diskVars, catalogVars, history
  <2>12. ASSUME NEW s \in Scans, ResolveSeries(s) PROVE TypeOK'
    <3>1. file[s].path \in Paths
      BY <2>12, HasFile DEF ResolveSeries, Goto, Processing, Files
    <3>2. Held'
      BY <2>12 DEF ResolveSeries, Goto, TypeOK, Held, Stages, Processing
    <3>3. series' \subseteq Folders
      <4>1. Folder[file[s].path] \in Folders
        BY <2>b, <3>1
      <4>2. series \subseteq Folders /\ series' = series \cup {Folder[file[s].path]}
        BY <2>12 DEF ResolveSeries, TypeOK
      <4>3. QED
        BY <4>1, <4>2
    <3>4. QED
      BY <2>12, <3>2, <3>3 DEF ResolveSeries, TypeOK, Held, Stages, diskVars, history
  <2>13. ASSUME NEW s \in Scans, Store(s) PROVE TypeOK'
    <3>1. at[s] \in Processing /\ file[s] \in Files
      BY <2>13, HasFile DEF Store, Processing
    <3>2. PICK b \in Books :
            /\ row' = [row EXCEPT ![b] = Built(file[s], b)]
            /\ IF file[s].bad THEN Drop(s)
               ELSE /\ at' = [at EXCEPT ![s] = IF file[s].book = None THEN "link" ELSE "pages"]
                    /\ file' = [file EXCEPT ![s].book = b]
      BY <2>13, <3>1 DEF Store, NewIds, Files
    <3>3. row' \in [Books -> Rows \cup {None}]
      BY <3>1, <3>2, BuiltIsRow DEF TypeOK
    <3>4. Held'
      <4>1. CASE file[s].bad
        BY <3>2, <4>1, FileDropped DEF Drop
      <4>2. CASE ~file[s].bad
        <5>1. file' = [file EXCEPT ![s] = [file[s] EXCEPT !.book = b]]
          BY <3>2, <4>2 DEF TypeOK
        <5>2. [file[s] EXCEPT !.book = b] \in Files
          BY <3>1, FilesClosed
        <5>3. PICK to \in {"link", "pages"} : at' = [at EXCEPT ![s] = to]
          BY <3>2, <4>2
        <5>4. Goto(s, "store", to) /\ "store" \in Processing /\ to \in Processing
          BY <2>13, <5>3 DEF Store, Goto, Processing
        <5>5. [file[s] EXCEPT !.book = b].book = b /\ b # None
          BY <3>1 DEF Files, CatalogAssumption
        <5>6. QED
          BY <5>1, <5>2, <5>4, <5>5, FileFilled
      <4>3. QED
        BY <4>1, <4>2
    <3>5. QED
      BY <2>13, <3>3, <3>4 DEF Store, TypeOK, Held, Stages, diskVars, history
  <2>14. ASSUME NEW s \in Scans, StoreFails(s) PROVE TypeOK'
    BY <2>14, FileDropped DEF StoreFails, Drop, TypeOK, Held, Stages, diskVars, catalogVars, history
  <2>15. ASSUME NEW s \in Scans, Link(s) PROVE TypeOK'
    BY <2>15 DEF Link, Goto, TypeOK, Processing, diskVars, history
  <2>16. ASSUME NEW s \in Scans, ReplacePages(s) PROVE TypeOK'
    <3>1. file[s] \in Files
      BY <2>16, HasFile DEF ReplacePages, Processing
    <3>2. pages' \in [Books -> Contents \cup {None}]
      BY <2>16, <3>1 DEF ReplacePages, TypeOK, Files
    <3>3. QED
      BY <2>16, <3>2, FileDropped DEF ReplacePages, Drop, TypeOK, Held, Stages, diskVars
  <2>17. ASSUME NEW s \in Scans, FileFails(s) \/ Stop(s) PROVE TypeOK'
    <3>1. torn' \subseteq Books
      <4>1. CASE at[s] \in {"link", "pages"}
        <5>1. file[s] \in Files
          BY <4>1, HasFile DEF Processing
        <5>2. file[s].book \in Books
          BY <4>1, <5>1 DEF Files, TypeOK
        <5>3. QED
          BY <2>17, <4>1, <5>2 DEF FileFails, Stop, Pending, TypeOK
      <4>2. CASE at[s] \notin {"link", "pages"}
        BY <2>17, <4>2 DEF FileFails, Stop, Pending, TypeOK
      <4>3. QED
        BY <4>1, <4>2
    <3>2. QED
      BY <2>17, <3>1, FileDropped DEF FileFails, Stop, Drop, TypeOK, Held, Stages, diskVars, catalogVars
  <2>18. ASSUME NEW s \in Scans, Finish(s) PROVE TypeOK'
    <3>1. \A b \in Books : row[b] # None => Folder[row[b].path] \in Folders
      BY <2>b DEF TypeOK, Rows
    <3>2. series' \subseteq Folders
      BY <2>18, <3>1 DEF Finish
    <3>3. QED
      BY <2>18, <3>2 DEF Finish, Goto, TypeOK, Processing, diskVars
  <2>19. ASSUME NEW b \in Books, Edit(b) \/ Match(b) PROVE TypeOK'
    <3>1. row[b] \in Rows /\ row[b].marks \in Marks
      BY <2>19 DEF Edit, Match, TypeOK, Rows
    <3>2. PICK m \in Marks : row' = [row EXCEPT ![b] = [row[b] EXCEPT !.marks = m]]
      BY <2>19, MarksWritten
    <3>3. [row[b] EXCEPT !.marks = m] \in Rows
      BY <3>1 DEF Rows
    <3>4. row' \in [Books -> Rows \cup {None}]
      BY <3>2, <3>3 DEF TypeOK
    <3>5. QED
      BY <2>19, <3>4 DEF Edit, Match, TypeOK, diskVars, scanVars, history
  <2>20. ASSUME NEW d \in Folders, DeleteSeries(d) PROVE TypeOK'
    <3>1. \A b \in Books : row[b] # None => row[b].hash \in Contents \cup {None}
      BY DEF TypeOK, Rows
    <3>2. stale' \subseteq Contents
      BY <2>20, <3>1 DEF DeleteSeries, TypeOK
    <3>3. row' \in [Books -> Rows \cup {None}] /\ pages' \in [Books -> Contents \cup {None}]
      BY <2>20 DEF DeleteSeries, TypeOK
    <3>4. QED
      BY <2>20, <3>2, <3>3 DEF DeleteSeries, Disturb, TypeOK, diskVars, scanVars
  <2>21. CASE UNCHANGED vars
    BY <2>21 DEF TypeOK, vars, diskVars, catalogVars, scanVars, history
  <2>22. QED
    BY <2>1, <2>2, <2>3, <2>4, <2>5, <2>6, <2>7, <2>8, <2>9, <2>10, <2>11, <2>12, <2>13, <2>14,
       <2>15, <2>16, <2>17, <2>18, <2>19, <2>20, <2>21 DEF Next, ScanStep
<1>3. QED
  BY <1>1, <1>2, PTL DEF Spec
-----------------------------------------------------------------------------
(* What an incremental scan skips is right.                                *)

\* One scan of the library at a time.
Serial == \A r, s \in Scans : Active(r) /\ Active(s) => r = s

\* What a scan has read of a file whose version is still the one it saw is the content
\* of that version, and a row it has just stored is the one it means.
Reads(s) ==
  file[s] # None =>
    /\ file[s].seen \notin unused
    /\ ~file[s].bad /\ disk[file[s].path] = file[s].seen =>
         /\ at[s] # "hash" => file[s].hash = Bytes[file[s].seen]
         /\ at[s] \in {"series", "store", "link", "pages"} =>
              file[s].inside = Bytes[file[s].seen]
    /\ at[s] \in {"link", "pages"} =>
         /\ ~file[s].bad
         /\ row[file[s].book] # None =>
              /\ row[file[s].book].path = file[s].path
              /\ row[file[s].book].seen = file[s].seen
              /\ row[file[s].book].hash = file[s].hash

\* SkippedIsCurrent for one book, and that its version is no longer unused.
Current(b) ==
  row[b] # None =>
    /\ row[b].seen \notin unused
    /\ ~row[b].corrupt /\ disk[row[b].path] = row[b].seen =>
         /\ row[b].hash = Bytes[row[b].seen]
         /\ pages[b] = Bytes[row[b].seen] \/ InHand(b) \/ b \in torn

IInv ==
  /\ \A p \in Paths : disk[p] \notin unused
  /\ Serial
  /\ \A s \in Scans : Reads(s)
  /\ \A b \in Books : Current(b)

\* A change on disk shows a version nobody has seen, or nothing.
LEMMA DiskChanges ==
  ASSUME TypeOK, CatalogAssumption, IInv, unused' \subseteq unused,
         \A p \in Paths : disk'[p] = disk[p] \/ disk'[p] = None
                          \/ (disk'[p] \in unused /\ disk'[p] \notin unused'),
         UNCHANGED <<row, pages, at, file, torn>>
  PROVE  IInv'
<1>0. None \notin Versions
  BY DEF CatalogAssumption
<1>1. \A p \in Paths : disk'[p] \notin unused'
  BY <1>0 DEF IInv, TypeOK
<1>2. Serial'
  BY DEF IInv, Serial, Active
<1>3. ASSUME NEW s \in Scans PROVE Reads(s)'
  <2>1. CASE file[s] = None
    BY <2>1 DEF Reads
  <2>2. CASE file[s] # None
    <3>1. file[s].path \in Paths /\ file[s].seen \in Versions /\ Reads(s)
      BY <2>2 DEF TypeOK, Files, IInv
    <3>2. disk'[file[s].path] = file[s].seen => disk[file[s].path] = file[s].seen
      BY <1>0, <2>2, <3>1 DEF Reads
    <3>3. QED
      BY <2>2, <3>1, <3>2 DEF Reads
  <2>3. QED
    BY <2>1, <2>2
<1>4. ASSUME NEW b \in Books PROVE Current(b)'
  <2>1. CASE row[b] = None
    BY <2>1 DEF Current
  <2>2. CASE row[b] # None
    <3>1. row[b].path \in Paths /\ row[b].seen \in Versions /\ Current(b)
      BY <2>2 DEF TypeOK, Rows, IInv
    <3>2. disk'[row[b].path] = row[b].seen => disk[row[b].path] = row[b].seen
      BY <1>0, <2>2, <3>1 DEF Current
    <3>3. InHand(b)' <=> InHand(b)
      BY DEF InHand
    <3>4. QED
      BY <2>2, <3>1, <3>2, <3>3 DEF Current
  <2>3. QED
    BY <2>1, <2>2
<1>5. QED
  BY <1>1, <1>2, <1>3, <1>4 DEF IInv

\* A step of one scan that writes neither a row nor pages.
LEMMA OneScanMoves ==
  ASSUME TypeOK, IInv, NEW s \in Scans, NEW to, NEW f,
         at' = [at EXCEPT ![s] = to], file' = [file EXCEPT ![s] = f],
         UNCHANGED <<disk, unused, row, pages>>,
         to \in Processing \cup {"ready"} => Active(s),
         torn \subseteq torn', Reads(s)',
         at[s] \in {"link", "pages"} =>
           file[s].book \in torn' \/ (to \in {"link", "pages"} /\ f.book = file[s].book)
  PROVE  IInv'
<1>1. at'[s] = to /\ file'[s] = f
  BY DEF TypeOK
<1>2. \A r \in Scans : r # s => at'[r] = at[r] /\ file'[r] = file[r]
  BY DEF TypeOK
<1>3. Serial'
  BY <1>1, <1>2 DEF IInv, Serial, Active
<1>4. ASSUME NEW r \in Scans PROVE Reads(r)'
  BY <1>2 DEF IInv, Reads
<1>5. ASSUME NEW b \in Books PROVE Current(b)'
  <2>1. InHand(b) => InHand(b)' \/ b \in torn'
    BY <1>1, <1>2 DEF InHand
  <2>2. QED
    BY <2>1 DEF IInv, Current
<1>6. QED
  BY <1>3, <1>4, <1>5 DEF IInv

\* A step that deletes rows or changes their metadata only.
LEMMA RowsKeepFile ==
  ASSUME TypeOK, IInv, UNCHANGED <<disk, unused, at, file>>,
         \A b \in Books : row'[b] # None =>
           /\ row[b] # None
           /\ row'[b].path = row[b].path /\ row'[b].seen = row[b].seen
           /\ row'[b].hash = row[b].hash /\ row'[b].corrupt = row[b].corrupt
           /\ pages'[b] = pages[b] /\ (b \in torn => b \in torn')
  PROVE  IInv'
<1>1. Serial'
  BY DEF IInv, Serial, Active
<1>2. ASSUME NEW s \in Scans PROVE Reads(s)'
  <2>1. CASE at[s] \in {"link", "pages"} /\ file[s] # None
    <3>1. file[s].book \in Books
      BY <2>1 DEF TypeOK, Files
    <3>2. QED
      BY <2>1, <3>1 DEF IInv, Reads
  <2>2. CASE ~(at[s] \in {"link", "pages"} /\ file[s] # None)
    BY <2>2 DEF IInv, Reads
  <2>3. QED
    BY <2>1, <2>2
<1>3. ASSUME NEW b \in Books PROVE Current(b)'
  <2>1. InHand(b)' <=> InHand(b)
    BY DEF InHand
  <2>2. QED
    BY <2>1 DEF IInv, Current
<1>4. QED
  BY <1>1, <1>2, <1>3 DEF IInv

\* Begin: no other scan is active, and the one that begins holds no file.
LEMMA BeginKeeps ==
  ASSUME TypeOK, IInv, Overlap = FALSE, NEW s \in Scans, Begin(s)
  PROVE  IInv'
<1>1. /\ at[s] = "idle" /\ at' = [at EXCEPT ![s] = "ready"] /\ \A r \in Scans : ~Active(r)
      /\ UNCHANGED <<disk, unused, row, pages, file, torn>>
  BY DEF Begin, diskVars, catalogVars
<1>2. \A r \in Scans : r # s => at'[r] = at[r]
  BY <1>1 DEF TypeOK
<1>3. at'[s] = "ready" /\ file[s] = None
  BY <1>1 DEF TypeOK, Processing
<1>4. Serial'
  BY <1>1, <1>2 DEF Serial, Active
<1>5. ASSUME NEW r \in Scans PROVE Reads(r)'
  BY <1>1, <1>2, <1>3 DEF IInv, Reads
<1>6. ASSUME NEW b \in Books PROVE Current(b)'
  <2>1. InHand(b) => InHand(b)'
    BY <1>1, <1>2 DEF InHand
  <2>2. QED
    BY <1>1, <2>1 DEF IInv, Current
<1>7. QED
  BY <1>1, <1>4, <1>5, <1>6 DEF IInv

\* Store: the row written is the one the scan means, and its pages are still to come.
LEMMA StoreKeeps ==
  ASSUME TypeOK, TypeOK', CatalogAssumption, IInv, NEW s \in Scans, Store(s)
  PROVE  IInv'
<1>1. PICK b \in Books :
        /\ b \in IF file[s].book = None THEN NewIds ELSE {file[s].book}
        /\ row' = [row EXCEPT ![b] = Built(file[s], b)]
        /\ IF file[s].bad THEN Drop(s)
           ELSE /\ at' = [at EXCEPT ![s] = IF file[s].book = None THEN "link" ELSE "pages"]
                /\ file' = [file EXCEPT ![s].book = b]
  <2>1. file[s] \in Files
    BY HasFile DEF Store, Processing
  <2>2. QED
    BY <2>1 DEF Store, NewIds, Files
<1>2. at[s] = "store" /\ UNCHANGED <<disk, unused, pages, torn>>
  BY DEF Store, diskVars, history
<1>3. file[s] \in Files /\ file[s] # None /\ Reads(s)
  BY <1>2, HasFile DEF Processing, TypeOK, IInv
<1>4. \A r \in Scans : r # s => at'[r] = at[r] /\ file'[r] = file[r]
  BY <1>1 DEF Drop, TypeOK
<1>5. \A c \in Books : c # b => row'[c] = row[c]
  BY <1>1 DEF TypeOK
<1>6. row'[b] = Built(file[s], b)
  BY <1>1 DEF TypeOK
<1>7. /\ row'[b].path = file[s].path /\ row'[b].seen = file[s].seen
      /\ row'[b].hash = file[s].hash /\ row'[b].corrupt = file[s].bad
  BY <1>6 DEF Built
<1>8. \A r \in Scans : Active(r) => r = s
  BY <1>2 DEF IInv, Serial, Active, Processing
<1>9. Serial'
  <2>1. \A r \in Scans : r # s => ~Active(r)'
    BY <1>4, <1>8 DEF Active
  <2>2. QED
    BY <2>1 DEF Serial
<1>10. CASE file[s].bad
  <2>1. at'[s] = "ready" /\ file'[s] = None
    BY <1>1, <1>10 DEF Drop, TypeOK
  <2>2. ASSUME NEW r \in Scans PROVE Reads(r)'
    <3>1. CASE r = s
      BY <2>1, <3>1 DEF Reads
    <3>2. CASE r # s
      <4>1. ~Active(r)
        BY <1>8, <3>2
      <4>2. file'[r] = None
        BY <1>4, <3>2, <4>1 DEF Active, TypeOK
      <4>3. QED
        BY <4>2 DEF Reads
    <3>3. QED
      BY <3>1, <3>2
  <2>3. ASSUME NEW c \in Books PROVE Current(c)'
    <3>1. CASE c = b
      BY <1>2, <1>3, <1>7, <1>10, <3>1 DEF Current, Reads
    <3>2. CASE c # b
      <4>1. InHand(c) => InHand(c)'
        BY <1>2, <1>4 DEF InHand
      <4>2. QED
        BY <1>2, <1>5, <3>2, <4>1 DEF IInv, Current
    <3>3. QED
      BY <3>1, <3>2
  <2>4. QED
    BY <1>2, <1>9, <2>2, <2>3 DEF IInv
<1>11. CASE ~file[s].bad
  <2>1. at'[s] \in {"link", "pages"}
    BY <1>1, <1>11 DEF TypeOK
  <2>2. /\ file'[s].book = b /\ file'[s].path = file[s].path /\ file'[s].seen = file[s].seen
        /\ file'[s].hash = file[s].hash /\ file'[s].bad = file[s].bad
        /\ file'[s].inside = file[s].inside
    BY <1>1, <1>3, <1>11 DEF TypeOK, Files
  <2>3. ASSUME NEW r \in Scans PROVE Reads(r)'
    <3>1. CASE r = s
      BY <1>2, <1>3, <1>7, <1>11, <2>1, <2>2, <3>1 DEF Reads
    <3>2. CASE r # s
      <4>1. ~Active(r)
        BY <1>8, <3>2
      <4>2. file'[r] = None
        BY <1>4, <3>2, <4>1 DEF Active, TypeOK
      <4>3. QED
        BY <4>2 DEF Reads
    <3>3. QED
      BY <3>1, <3>2
  <2>4. ASSUME NEW c \in Books PROVE Current(c)'
    <3>1. CASE c = b
      <4>1. InHand(b)'
        BY <2>1, <2>2 DEF InHand
      <4>2. file[s].seen \notin unused'
        BY <1>2, <1>3 DEF Reads
      <4>3. disk[file[s].path] = file[s].seen => file[s].hash = Bytes[file[s].seen]
        BY <1>2, <1>3, <1>11 DEF Reads
      <4>4. QED
        BY <1>2, <1>7, <3>1, <4>1, <4>2, <4>3 DEF Current
    <3>2. CASE c # b
      <4>1. InHand(c) => InHand(c)'
        BY <1>2, <1>4 DEF InHand
      <4>2. QED
        BY <1>2, <1>5, <3>2, <4>1 DEF IInv, Current
    <3>3. QED
      BY <3>1, <3>2
  <2>5. QED
    BY <1>2, <1>9, <2>3, <2>4 DEF IInv
<1>12. QED
  BY <1>10, <1>11

\* ReplacePages: the pages written are those of the version the row carries.
LEMMA PagesKeep ==
  ASSUME TypeOK, IInv, NEW s \in Scans, ReplacePages(s)
  PROVE  IInv'
<1> DEFINE b == file[s].book
<1>1. /\ at[s] = "pages" /\ UNCHANGED <<disk, unused, row>>
      /\ pages' = IF row[b] # None THEN [pages EXCEPT ![b] = file[s].inside] ELSE pages
      /\ torn' = torn \ {b}
      /\ at' = [at EXCEPT ![s] = "ready"] /\ file' = [file EXCEPT ![s] = None]
  BY DEF ReplacePages, Drop, diskVars
<1>2. file[s] \in Files /\ file[s] # None /\ Reads(s)
  BY <1>1, HasFile DEF Processing, TypeOK, IInv
<1>3. \A r \in Scans : r # s => at'[r] = at[r] /\ file'[r] = file[r]
  BY <1>1 DEF TypeOK
<1>4. at'[s] = "ready" /\ file'[s] = None
  BY <1>1 DEF TypeOK
<1>5. Serial'
  <2>1. \A r \in Scans : Active(r)' => Active(r)
    BY <1>1, <1>3 DEF Active, Processing
  <2>2. QED
    BY <2>1 DEF IInv, Serial
<1>6. ASSUME NEW r \in Scans PROVE Reads(r)'
  BY <1>1, <1>3, <1>4 DEF IInv, Reads
<1>7. ASSUME NEW c \in Books PROVE Current(c)'
  <2>1. CASE c = b
    <3>1. row[c] # None => pages'[c] = file[s].inside
      BY <1>1, <2>1 DEF TypeOK
    <3>2. QED
      BY <1>1, <1>2, <2>1, <3>1 DEF IInv, Current, Reads
  <2>2. CASE c # b
    <3>1. pages'[c] = pages[c] /\ (c \in torn => c \in torn')
      BY <1>1, <2>2 DEF TypeOK
    <3>2. InHand(c) => InHand(c)'
      BY <1>3, <2>2 DEF InHand
    <3>3. QED
      BY <1>1, <3>1, <3>2 DEF IInv, Current
  <2>3. QED
    BY <2>1, <2>2
<1>8. QED
  BY <1>1, <1>5, <1>6, <1>7 DEF IInv

\* The inductive step of IInv, action by action.
LEMMA StepKeepsIInv ==
  ASSUME CatalogAssumption, Overlap = FALSE, TypeOK, TypeOK', IInv, [Next]_vars
  PROVE  IInv'
<1>0. None \notin Versions /\ (\A p \in Paths : disk[p] \notin unused)
  BY DEF CatalogAssumption, IInv
<1>1. ASSUME NEW p \in Paths, NEW v \in Versions, Write(p, v) PROVE IInv'
  <2>1. \A q \in Paths : disk'[q] = disk[q] \/ (disk'[q] \in unused /\ disk'[q] \notin unused')
    BY <1>1 DEF Write, TypeOK
  <2>2. unused' \subseteq unused /\ UNCHANGED <<row, pages, at, file, torn>>
    BY <1>1 DEF Write, catalogVars, scanVars
  <2>3. QED
    BY <2>1, <2>2, DiskChanges
<1>2. ASSUME NEW p \in Paths, Remove(p) PROVE IInv'
  <2>1. \A q \in Paths : disk'[q] = disk[q] \/ disk'[q] = None
    BY <1>2 DEF Remove, TypeOK
  <2>2. unused' \subseteq unused /\ UNCHANGED <<row, pages, at, file, torn>>
    BY <1>2 DEF Remove, catalogVars, scanVars
  <2>3. QED
    BY <2>1, <2>2, DiskChanges
<1>3. ASSUME NEW p \in Paths, NEW q \in Paths, NEW v \in Versions, Move(p, q, v) PROVE IInv'
  <2>1. \A r \in Paths : disk'[r] = disk[r] \/ disk'[r] = None
                         \/ (disk'[r] \in unused /\ disk'[r] \notin unused')
    BY <1>3 DEF Move, TypeOK
  <2>2. unused' \subseteq unused /\ UNCHANGED <<row, pages, at, file, torn>>
    BY <1>3 DEF Move, catalogVars, scanVars
  <2>3. QED
    BY <2>1, <2>2, DiskChanges
<1>4. ASSUME NEW s \in Scans, NEW p \in Paths, Skip(s, p) PROVE IInv'
  <2>1. UNCHANGED <<disk, unused, row, pages, at, file, torn>>
    BY <1>4 DEF Skip, diskVars, catalogVars, history
  <2>2. QED
    BY <2>1, RowsKeepFile
<1>5. ASSUME NEW s \in Scans, NEW p \in Paths, Look(s, p) \/ LookFails(s, p) PROVE IInv'
  <2>1. PICK b \in Books \cup {None} : Take(s, Looked(p, b))
    BY <1>5 DEF Look, LookFails, Owners
  <2>2. at[s] = "ready" /\ disk[p] # None
    BY <1>5 DEF Look, LookFails, NextFile
  <2>3. /\ at' = [at EXCEPT ![s] = "hash"] /\ file' = [file EXCEPT ![s] = Looked(p, b)]
        /\ UNCHANGED <<disk, unused, row, pages, torn>>
    BY <2>1 DEF Take, diskVars, catalogVars
  <2>4. at'[s] = "hash" /\ file'[s].seen = disk[p]
    BY <2>3 DEF TypeOK, Looked
  <2>5. Reads(s)'
    BY <1>0, <2>3, <2>4 DEF Reads
  <2>6. Active(s)
    BY <2>2 DEF Active
  <2>7. QED
    BY <2>2, <2>3, <2>5, <2>6, OneScanMoves
<1>6. ASSUME NEW s \in Scans, Hash(s) PROVE IInv'
  <2>1. PICK to \in {"match", "open"} : at[s] = "hash" /\ at' = [at EXCEPT ![s] = to]
    BY <1>6 DEF Hash, Goto
  <2>2. file[s] \in Files /\ file[s] # None
    BY <2>1, HasFile DEF Processing, TypeOK
  <2>3. PICK h : h = Bytes[disk[file[s].path]]
    OBVIOUS
  <2>4. /\ file' = [file EXCEPT ![s] = [file[s] EXCEPT !.hash = h]]
        /\ UNCHANGED <<disk, unused, row, pages, torn>>
    BY <1>6, <2>3 DEF Hash, TypeOK, diskVars, catalogVars, history
  <2>5. at'[s] = to /\ file'[s] = [file[s] EXCEPT !.hash = h]
    BY <2>1, <2>4 DEF TypeOK
  <2>6. Reads(s)'
    BY <2>1, <2>2, <2>3, <2>4, <2>5 DEF IInv, Reads, Files
  <2>7. Active(s)
    BY <2>1 DEF Active, Processing
  <2>8. QED
    BY <2>1, <2>4, <2>6, <2>7, OneScanMoves
<1>7. ASSUME NEW s \in Scans, HashFails(s) \/ OpenFails(s) PROVE IInv'
  <2>1. at[s] \in {"hash", "open"} /\ at' = [at EXCEPT ![s] = "series"]
    BY <1>7 DEF HashFails, OpenFails, Goto
  <2>2. file[s] \in Files /\ file[s] # None
    BY <2>1, HasFile DEF Processing, TypeOK
  <2>3. /\ file' = [file EXCEPT ![s] = [file[s] EXCEPT !.bad = TRUE]]
        /\ UNCHANGED <<disk, unused, row, pages, torn>>
    BY <1>7 DEF HashFails, OpenFails, TypeOK, diskVars, catalogVars
  <2>4. at'[s] = "series" /\ file'[s] = [file[s] EXCEPT !.bad = TRUE]
    BY <2>1, <2>3 DEF TypeOK
  <2>5. Reads(s)'
    BY <2>2, <2>3, <2>4 DEF IInv, Reads, Files
  <2>6. Active(s)
    BY <2>1 DEF Active, Processing
  <2>7. QED
    BY <2>1, <2>3, <2>5, <2>6, OneScanMoves
<1>8. ASSUME NEW s \in Scans, Reconcile(s) PROVE IInv'
  <2>1. at[s] = "match" /\ at' = [at EXCEPT ![s] = "open"]
    BY <1>8 DEF Reconcile, Goto
  <2>2. file[s] \in Files /\ file[s] # None
    BY <2>1, HasFile DEF Processing, TypeOK
  <2>3. file' = [file EXCEPT ![s] = file'[s]]
    BY <1>8 DEF Reconcile, TypeOK
  <2>4. /\ file'[s] # None => file'[s].path = file[s].path /\ file'[s].seen = file[s].seen
        /\ file'[s] # None => file'[s].hash = file[s].hash /\ file'[s].bad = file[s].bad
    <3>1. CASE UNCHANGED file
      BY <3>1
    <3>2. CASE \E b \in Moved(file[s]) : file' = [file EXCEPT ![s].book = b, ![s].old = row[b].marks]
      <4>1. PICK b : file' = [file EXCEPT ![s].book = b, ![s].old = row[b].marks]
        BY <3>2
      <4>2. file' = [file EXCEPT ![s] = [file[s] EXCEPT !.book = b, !.old = row[b].marks]]
        BY <4>1 DEF TypeOK
      <4>3. file'[s] = [file[s] EXCEPT !.book = b, !.old = row[b].marks]
        BY <4>2 DEF TypeOK
      <4>4. QED
        BY <2>2, <4>3 DEF Files
    <3>3. QED
      BY <1>8, <3>1, <3>2 DEF Reconcile
  <2>5. UNCHANGED <<disk, unused, row, pages, torn>> /\ at'[s] = "open"
    BY <1>8, <2>1 DEF Reconcile, TypeOK, diskVars, catalogVars, history
  <2>6. Reads(s)'
    BY <2>1, <2>2, <2>4, <2>5 DEF IInv, Reads
  <2>7. Active(s)
    BY <2>1 DEF Active, Processing
  <2>8. QED
    BY <2>1, <2>3, <2>5, <2>6, <2>7, OneScanMoves
<1>9. ASSUME NEW s \in Scans, Open(s) PROVE IInv'
  <2>1. at[s] = "open" /\ at' = [at EXCEPT ![s] = "series"]
    BY <1>9 DEF Open, Goto
  <2>2. file[s] \in Files /\ file[s] # None
    BY <2>1, HasFile DEF Processing, TypeOK
  <2>3. PICK c : c = Bytes[disk[file[s].path]]
    OBVIOUS
  <2>4. /\ file' = [file EXCEPT ![s] = [file[s] EXCEPT !.inside = c]]
        /\ UNCHANGED <<disk, unused, row, pages, torn>>
    BY <1>9, <2>3 DEF Open, TypeOK, diskVars, catalogVars, history
  <2>5. at'[s] = "series" /\ file'[s] = [file[s] EXCEPT !.inside = c]
    BY <2>1, <2>4 DEF TypeOK
  <2>6. Reads(s)'
    BY <2>1, <2>2, <2>3, <2>4, <2>5 DEF IInv, Reads, Files
  <2>7. Active(s)
    BY <2>1 DEF Active, Processing
  <2>8. QED
    BY <2>1, <2>4, <2>6, <2>7, OneScanMoves
<1>10. ASSUME NEW s \in Scans, ReconcileFails(s) \/ ResolveSeries(s) \/ Link(s) \/ LinkFails(s)
       PROVE IInv'
  <2>0. Goto(s, "match", "open") \/ Goto(s, "series", "store") \/ Goto(s, "link", "pages")
    BY <1>10 DEF ReconcileFails, ResolveSeries, Link, LinkFails
  <2>1. at[s] \in Processing /\ at'[s] \in Processing /\ at' = [at EXCEPT ![s] = at'[s]]
    BY <2>0 DEF Goto, TypeOK, Processing
  <2>2. \/ at[s] = "match" /\ at'[s] = "open"
        \/ at[s] = "series" /\ at'[s] = "store"
        \/ at[s] = "link" /\ at'[s] = "pages"
    BY <2>0 DEF Goto, TypeOK
  <2>3. UNCHANGED <<disk, unused, row, pages, torn, file>>
    BY <1>10 DEF ReconcileFails, ResolveSeries, Link, LinkFails, diskVars, catalogVars, history
  <2>4. file' = [file EXCEPT ![s] = file[s]]
    BY <2>3 DEF TypeOK
  <2>5. Reads(s)'
    BY <2>1, <2>2, <2>3 DEF IInv, Reads
  <2>6. Active(s)
    BY <2>1, <2>2 DEF Active
  <2>7. QED
    BY <2>1, <2>2, <2>3, <2>4, <2>5, <2>6, OneScanMoves
<1>11. ASSUME NEW s \in Scans, StoreFails(s) \/ FileFails(s) \/ Stop(s) PROVE IInv'
  <2>1. PICK to \in {"ready", "over"} : at' = [at EXCEPT ![s] = to]
    BY <1>11 DEF StoreFails, FileFails, Stop, Drop
  <2>2. Active(s)
    BY <1>11 DEF StoreFails, FileFails, Stop, Active, Processing
  <2>3. /\ file' = [file EXCEPT ![s] = None]
        /\ UNCHANGED <<disk, unused, row, pages>>
    BY <1>11 DEF StoreFails, FileFails, Stop, Drop, diskVars, catalogVars
  <2>4. torn \subseteq torn' /\ (at[s] \in {"link", "pages"} => file[s].book \in torn')
    BY <1>11 DEF StoreFails, FileFails, Stop, Pending, history
  <2>5. Reads(s)'
    BY <2>3 DEF Reads, TypeOK
  <2>6. QED
    BY <2>1, <2>2, <2>3, <2>4, <2>5, OneScanMoves
<1>12. ASSUME NEW s \in Scans, Finish(s) PROVE IInv'
  <2>1. at[s] = "ready" /\ at' = [at EXCEPT ![s] = "over"]
    BY <1>12 DEF Finish, Goto
  <2>2. UNCHANGED <<disk, unused, row, pages, torn, file>>
    BY <1>12 DEF Finish, diskVars
  <2>3. file' = [file EXCEPT ![s] = file[s]] /\ file[s] = None
    BY <2>1, <2>2 DEF TypeOK, Processing
  <2>4. Reads(s)'
    BY <2>2, <2>3 DEF Reads
  <2>5. Active(s)
    BY <2>1 DEF Active
  <2>6. QED
    BY <2>1, <2>2, <2>3, <2>4, <2>5, OneScanMoves
<1>13. ASSUME NEW b \in Books, Edit(b) \/ Match(b) PROVE IInv'
  <2>1. UNCHANGED <<disk, unused, pages, at, file, torn>> /\ row[b] \in Rows
    BY <1>13 DEF Edit, Match, diskVars, scanVars, history, TypeOK
  <2>2. PICK m : row' = [row EXCEPT ![b].marks = m]
    BY <1>13 DEF Edit, Match, TypeOK
  <2>3. /\ row'[b].path = row[b].path /\ row'[b].seen = row[b].seen
        /\ row'[b].hash = row[b].hash /\ row'[b].corrupt = row[b].corrupt
    BY <2>1, <2>2 DEF TypeOK, Rows
  <2>4. \A c \in Books : c # b => row'[c] = row[c]
    BY <2>2 DEF TypeOK
  <2>5. row[b] # None
    BY <1>13 DEF Edit, Match
  <2>6. QED
    BY <2>1, <2>3, <2>4, <2>5, RowsKeepFile
<1>14. ASSUME NEW d \in Folders, DeleteSeries(d) PROVE IInv'
  <2>1. UNCHANGED <<disk, unused, at, file>>
    BY <1>14 DEF DeleteSeries, diskVars, scanVars
  <2>2. ASSUME NEW b \in Books, row'[b] # None
        PROVE  row'[b] = row[b] /\ pages'[b] = pages[b] /\ (b \in torn => b \in torn')
    BY <1>14, <2>2 DEF DeleteSeries
  <2>3. QED
    BY <2>1, <2>2, RowsKeepFile
<1>15. CASE UNCHANGED vars
  <2>1. UNCHANGED <<disk, unused, row, pages, at, file, torn>>
    BY <1>15 DEF vars, diskVars, catalogVars, scanVars, history
  <2>2. QED
    BY <2>1, RowsKeepFile
<1>16. QED
  BY <1>1, <1>2, <1>3, <1>4, <1>5, <1>6, <1>7, <1>8, <1>9, <1>10, <1>11, <1>12, <1>13, <1>14,
     <1>15, BeginKeeps, StoreKeeps, PagesKeep DEF Next, ScanStep

\* With one scan at a time, every row that an incremental scan would skip carries the
\* hash and the pages of its file, for any library and any number of scans and books.
THEOREM SkipsAreSafe ==
  ASSUME CatalogAssumption, NoneIsApart, Overlap = FALSE
  PROVE  Spec => []SkippedIsCurrent
<1>1. Init => IInv
  BY DEF Init, IInv, Serial, Active, Processing, Reads, Current, CatalogAssumption
<1>2. TypeOK /\ TypeOK' /\ IInv /\ [Next]_vars => IInv'
  BY StepKeepsIInv
<1>3. IInv => SkippedIsCurrent
  BY DEF IInv, Current, SkippedIsCurrent
<1>4. QED
  BY <1>1, <1>2, <1>3, TypeCorrect, PTL DEF Spec

\* With one scan at a time, a placeholder is resolved only by a book of its content.
THEOREM PlaceholdersFound ==
  ASSUME CatalogAssumption, NoneIsApart, Overlap = FALSE
  PROVE  Spec => PlaceholdersFindTheirBook
<1>1. Init => IInv
  BY DEF Init, IInv, Serial, Active, Processing, Reads, Current, CatalogAssumption
<1>2. TypeOK /\ TypeOK' /\ IInv /\ [Next]_vars => IInv'
  BY StepKeepsIInv
<1>3. ASSUME TypeOK, IInv, [Next]_vars, NEW c \in stale \ stale'
      PROVE  \E b \in Books : row[b] # None /\ row[b].hash = c
  <2>a. /\ \A p \in Paths, v \in Versions : Write(p, v) => stale' = stale
        /\ \A p \in Paths : Remove(p) => stale' = stale
        /\ \A p, q \in Paths, v \in Versions : Move(p, q, v) => stale' = stale
    BY DEF Write, Remove, Move, catalogVars
  <2>b. ASSUME NEW s \in Scans, NEW p \in Paths, Skip(s, p) \/ Look(s, p) \/ LookFails(s, p)
        PROVE  stale' = stale
    BY <2>b DEF Skip, Look, LookFails, Take, catalogVars
  <2>c. ASSUME NEW s \in Scans,
               \/ Begin(s) \/ Hash(s) \/ HashFails(s) \/ Reconcile(s) \/ ReconcileFails(s)
               \/ Open(s) \/ OpenFails(s) \/ ResolveSeries(s)
        PROVE  stale' = stale
    BY <2>c DEF Begin, Hash, HashFails, Reconcile, ReconcileFails, Open, OpenFails,
       ResolveSeries, catalogVars
  <2>d. ASSUME NEW s \in Scans,
               \/ Store(s) \/ StoreFails(s) \/ LinkFails(s) \/ ReplacePages(s)
               \/ FileFails(s) \/ Finish(s) \/ Stop(s)
        PROVE  stale' = stale
    BY <2>d DEF Store, StoreFails, LinkFails, ReplacePages, FileFails, Finish, Stop, catalogVars
  <2>e. ASSUME NEW b \in Books, Edit(b) \/ Match(b) PROVE stale' = stale
    BY <2>e DEF Edit, Match
  <2>f. ASSUME NEW d \in Folders, DeleteSeries(d) PROVE stale \subseteq stale'
    BY <2>f DEF DeleteSeries
  <2>g. ~UNCHANGED vars
    BY <1>3 DEF vars, catalogVars
  <2>1. PICK s \in Scans : Link(s)
    <3>1. Next /\ stale' # stale /\ ~(stale \subseteq stale')
      BY <1>3, <2>g
    <3>2. QED
      BY <3>1, <2>a, <2>b, <2>c, <2>d, <2>e, <2>f DEF Next, ScanStep
  <2>2. at[s] = "link" /\ row[file[s].book] # None /\ c = file[s].hash
    BY <1>3, <2>1 DEF Link, Goto
  <2>3. file[s] \in Files /\ file[s] # None /\ file[s].book # None
    BY <1>3, <2>2, HasFile DEF Processing, TypeOK
  <2>4. file[s].book \in Books
    BY <2>3 DEF Files
  <2>5. row[file[s].book].hash = file[s].hash
    BY <1>3, <2>2, <2>3 DEF IInv, Reads
  <2>6. QED
    BY <2>2, <2>4, <2>5
<1>4. TypeOK /\ IInv /\ [Next]_vars =>
        [\A c \in stale \ stale' : \E b \in Books : row[b] # None /\ row[b].hash = c]_vars
  BY <1>3
<1>5. QED
  BY <1>1, <1>2, <1>4, TypeCorrect, PTL DEF Spec, PlaceholdersFindTheirBook

-----------------------------------------------------------------------------
(* What becomes of a user's edits, whether or not scans overlap.           *)

Sound(m) == m \in Marks /\ (m.user => m.kept)

Remembers(s) ==
  at[s] \in Processing \ {"link", "pages"} /\ file[s].book # None => Sound(file[s].old)

\* Marks with user values are kept ones, in rows and in what scans remember of them.
MarksKept ==
  /\ \A b \in Books : row[b] # None => Sound(row[b].marks)
  /\ \A s \in Scans : Remembers(s)

\* A step of one scan that leaves the rows alone.
LEMMA OneScanRemembers ==
  ASSUME TypeOK, MarksKept, NEW s \in Scans, NEW to, NEW f,
         at' = [at EXCEPT ![s] = to], file' = [file EXCEPT ![s] = f], UNCHANGED row,
         to \in Processing \ {"link", "pages"} /\ f.book # None => Sound(f.old)
  PROVE  MarksKept'
<1>1. at'[s] = to /\ file'[s] = f
  BY DEF TypeOK
<1>2. \A r \in Scans : r # s => at'[r] = at[r] /\ file'[r] = file[r]
  BY DEF TypeOK
<1>3. ASSUME NEW r \in Scans PROVE Remembers(r)'
  BY <1>1, <1>2 DEF MarksKept, Remembers, Sound
<1>4. QED
  BY <1>3 DEF MarksKept, Sound

\* One row written with sound marks, or rows deleted, the scans as they were.
LEMMA RowsRemember ==
  ASSUME TypeOK, MarksKept, UNCHANGED <<at, file>>,
         \A b \in Books : row'[b] # None =>
           Sound(row'[b].marks) \/ (row[b] # None /\ row'[b] = row[b])
  PROVE  MarksKept'
<1>1. ASSUME NEW r \in Scans PROVE Remembers(r)'
  BY DEF MarksKept, Remembers, Sound
<1>2. ASSUME NEW b \in Books, row'[b] # None PROVE Sound(row'[b].marks)
  BY <1>2 DEF MarksKept
<1>3. QED
  BY <1>1, <1>2 DEF MarksKept, Sound

\* The marks of a row that a scan builds.
LEMMA BuiltIsSound ==
  ASSUME TypeOK, NEW f \in Files, NEW b \in Books
  PROVE  Sound(Built(f, b).marks)
<1>1. Built(f, b) \in Rows
  BY BuiltIsRow
<1>2. Built(f, b).marks \in Marks
  BY <1>1 DEF Rows
<1>3. Built(f, b).marks.user => Built(f, b).marks.kept
  BY DEF Built
<1>4. QED
  BY <1>2, <1>3 DEF Sound

LEMMA StepKeepsMarks ==
  ASSUME CatalogAssumption, TypeOK, MarksKept, [Next]_vars
  PROVE  MarksKept'
<1>0. UNCHANGED <<row, at, file>> => MarksKept'
  BY RowsRemember
<1>a. ASSUME NEW p \in Paths, NEW v \in Versions, Write(p, v) PROVE MarksKept'
  BY <1>a, <1>0 DEF Write, catalogVars, scanVars
<1>b. ASSUME NEW p \in Paths, Remove(p) PROVE MarksKept'
  BY <1>b, <1>0 DEF Remove, catalogVars, scanVars
<1>c. ASSUME NEW p \in Paths, NEW q \in Paths, NEW v \in Versions, Move(p, q, v) PROVE MarksKept'
  BY <1>c, <1>0 DEF Move, catalogVars, scanVars
<1>2. ASSUME NEW s \in Scans, Begin(s) PROVE MarksKept'
  <2>1. at' = [at EXCEPT ![s] = "ready"] /\ UNCHANGED <<row, file>>
    BY <1>2 DEF Begin, catalogVars
  <2>2. file' = [file EXCEPT ![s] = file[s]]
    BY <2>1 DEF TypeOK
  <2>3. "ready" \notin Processing
    BY DEF Processing
  <2>4. QED
    BY <2>1, <2>2, <2>3, OneScanRemembers
<1>3. ASSUME NEW s \in Scans, NEW p \in Paths, Skip(s, p) PROVE MarksKept'
  <2>1. UNCHANGED <<row, at, file>>
    BY <1>3 DEF Skip, catalogVars
  <2>2. QED
    BY <2>1, RowsRemember
<1>4. ASSUME NEW s \in Scans, NEW p \in Paths, Look(s, p) \/ LookFails(s, p) PROVE MarksKept'
  <2>1. PICK b \in Books \cup {None} : (b # None => row[b] # None) /\ Take(s, Looked(p, b))
    BY <1>4 DEF Look, LookFails, Owners
  <2>2. Looked(p, b).book = b /\ (b # None => Looked(p, b).old = row[b].marks)
    BY DEF Looked
  <2>3. b # None => Sound(row[b].marks)
    BY <2>1 DEF MarksKept
  <2>4. at' = [at EXCEPT ![s] = "hash"] /\ file' = [file EXCEPT ![s] = Looked(p, b)] /\ UNCHANGED row
    BY <2>1 DEF Take, catalogVars
  <2>5. QED
    BY <2>2, <2>3, <2>4, OneScanRemembers
<1>5. ASSUME NEW s \in Scans, Hash(s) \/ HashFails(s) \/ Open(s) \/ OpenFails(s) PROVE MarksKept'
  <2>1. at[s] \in Processing \ {"link", "pages"} /\ at' = [at EXCEPT ![s] = at'[s]] /\ UNCHANGED row
    BY <1>5 DEF Hash, HashFails, Open, OpenFails, Goto, Processing, TypeOK, catalogVars
  <2>2. file[s] \in Files
    BY <2>1, HasFile
  <2>3. PICK g : /\ file' = [file EXCEPT ![s] = g]
                 /\ \/ \E h : g = [file[s] EXCEPT !.hash = h]
                    \/ g = [file[s] EXCEPT !.bad = TRUE]
                    \/ \E c : g = [file[s] EXCEPT !.inside = c]
    <3>1. CASE Hash(s)
      <4>1. PICK h : file' = [file EXCEPT ![s] = [file[s] EXCEPT !.hash = h]]
        BY <3>1 DEF Hash, TypeOK
      <4>2. QED
        BY <4>1
    <3>2. CASE HashFails(s) \/ OpenFails(s)
      <4>1. file' = [file EXCEPT ![s] = [file[s] EXCEPT !.bad = TRUE]]
        BY <3>2 DEF HashFails, OpenFails, TypeOK
      <4>2. QED
        BY <4>1
    <3>3. CASE Open(s)
      <4>1. PICK c : file' = [file EXCEPT ![s] = [file[s] EXCEPT !.inside = c]]
        BY <3>3 DEF Open, TypeOK
      <4>2. QED
        BY <4>1
    <3>4. QED
      BY <1>5, <3>1, <3>2, <3>3
  <2>4. g.book = file[s].book /\ g.old = file[s].old
    BY <2>2, <2>3 DEF Files
  <2>5. file[s].book # None => Sound(file[s].old)
    BY <2>1 DEF MarksKept, Remembers
  <2>6. QED
    BY <2>1, <2>3, <2>4, <2>5, OneScanRemembers
<1>6. ASSUME NEW s \in Scans, Reconcile(s) PROVE MarksKept'
  <2>1. at[s] = "match" /\ at' = [at EXCEPT ![s] = "open"] /\ UNCHANGED row
    BY <1>6 DEF Reconcile, Goto, catalogVars
  <2>2. file[s] \in Files
    BY <2>1, HasFile DEF Processing
  <2>3. CASE UNCHANGED file
    <3>1. file' = [file EXCEPT ![s] = file[s]]
      BY <2>3 DEF TypeOK
    <3>2. file[s].book # None => Sound(file[s].old)
      BY <2>1 DEF MarksKept, Remembers, Processing
    <3>3. QED
      BY <2>1, <3>1, <3>2, OneScanRemembers
  <2>4. CASE \E b \in Moved(file[s]) : file' = [file EXCEPT ![s].book = b, ![s].old = row[b].marks]
    <3>1. PICK b \in Moved(file[s]) : file' = [file EXCEPT ![s].book = b, ![s].old = row[b].marks]
      BY <2>4
    <3>2. file' = [file EXCEPT ![s] = [file[s] EXCEPT !.book = b, !.old = row[b].marks]]
      BY <3>1 DEF TypeOK
    <3>3. [file[s] EXCEPT !.book = b, !.old = row[b].marks].old = row[b].marks
      BY <2>2 DEF Files
    <3>4. Sound(row[b].marks)
      BY DEF Moved, MarksKept
    <3>5. QED
      BY <2>1, <3>2, <3>3, <3>4, OneScanRemembers
  <2>5. QED
    BY <1>6, <2>3, <2>4 DEF Reconcile
<1>7. ASSUME NEW s \in Scans, ReconcileFails(s) \/ ResolveSeries(s) \/ Link(s) \/ LinkFails(s)
      PROVE  MarksKept'
  <2>1. /\ at' = [at EXCEPT ![s] = at'[s]] /\ UNCHANGED <<row, file>>
        /\ at[s] \in Processing \ {"link", "pages"} \/ at'[s] = "pages"
    BY <1>7 DEF ReconcileFails, ResolveSeries, Link, LinkFails, Goto, Processing, TypeOK, catalogVars
  <2>2. file' = [file EXCEPT ![s] = file[s]]
    BY <2>1 DEF TypeOK
  <2>3. at[s] \in Processing \ {"link", "pages"} /\ file[s].book # None => Sound(file[s].old)
    BY DEF MarksKept, Remembers
  <2>4. QED
    BY <2>1, <2>2, <2>3, OneScanRemembers
<1>8. ASSUME NEW s \in Scans, Store(s) PROVE MarksKept'
  <2>1. file[s] \in Files /\ at[s] = "store"
    BY <1>8, HasFile DEF Store, Processing
  <2>2. PICK b \in Books :
          /\ row' = [row EXCEPT ![b] = Built(file[s], b)]
          /\ IF file[s].bad THEN Drop(s)
             ELSE /\ at' = [at EXCEPT ![s] = IF file[s].book = None THEN "link" ELSE "pages"]
                  /\ file' = [file EXCEPT ![s].book = b]
    BY <1>8, <2>1 DEF Store, NewIds, Files
  <2>3. Sound(Built(file[s], b).marks)
    BY <2>1, BuiltIsSound
  <2>4. ASSUME NEW c \in Books, row'[c] # None PROVE Sound(row'[c].marks)
    BY <2>2, <2>3, <2>4 DEF TypeOK, MarksKept
  <2>5. at'[s] \notin Processing \ {"link", "pages"}
    BY <2>2 DEF Drop, TypeOK, Processing
  <2>6. \A r \in Scans : r # s => at'[r] = at[r] /\ file'[r] = file[r]
    BY <2>2 DEF Drop, TypeOK
  <2>7. ASSUME NEW r \in Scans PROVE Remembers(r)'
    BY <2>5, <2>6 DEF MarksKept, Remembers, Sound
  <2>8. QED
    BY <2>4, <2>7 DEF MarksKept, Sound
<1>9. ASSUME NEW s \in Scans,
             StoreFails(s) \/ ReplacePages(s) \/ FileFails(s) \/ Finish(s) \/ Stop(s)
      PROVE  MarksKept'
  <2>1. /\ at' = [at EXCEPT ![s] = at'[s]] /\ file' = [file EXCEPT ![s] = file'[s]]
        /\ at'[s] \notin Processing /\ UNCHANGED row
    BY <1>9 DEF StoreFails, ReplacePages, FileFails, Finish, Goto, Stop, Drop, TypeOK, Processing,
       catalogVars
  <2>2. QED
    BY <2>1, OneScanRemembers
<1>10. ASSUME NEW b \in Books, Edit(b) \/ Match(b) PROVE MarksKept'
  <2>1. UNCHANGED <<at, file>> /\ row[b] \in Rows /\ row[b].marks \in Marks
    BY <1>10 DEF Edit, Match, scanVars, TypeOK, Rows
  <2>2. PICK m : row' = [row EXCEPT ![b].marks = m] /\ Sound(m)
    <3>1. CASE Edit(b)
      <4>1. Sound([kept |-> TRUE, user |-> TRUE, locks |-> TRUE])
        BY DEF Sound, Marks
      <4>2. QED
        BY <3>1, <4>1 DEF Edit
    <3>2. CASE Match(b)
      <4>1. PICK m : m = [kept |-> TRUE, user |-> row[b].marks.user /\ row[b].marks.locks,
                          locks |-> row[b].marks.locks]
        OBVIOUS
      <4>2. Sound(m)
        BY <2>1, <4>1 DEF Sound, Marks
      <4>3. row' = [row EXCEPT ![b].marks = m]
        BY <3>2, <4>1, <2>1 DEF Match, TypeOK
      <4>4. QED
        BY <4>2, <4>3
    <3>3. QED
      BY <1>10, <3>1, <3>2
  <2>3. row'[b].marks = m
    BY <2>1, <2>2 DEF TypeOK, Rows
  <2>4. \A c \in Books : c # b => row'[c] = row[c]
    BY <2>2 DEF TypeOK
  <2>5. QED
    BY <2>1, <2>2, <2>3, <2>4, RowsRemember
<1>11. ASSUME NEW d \in Folders, DeleteSeries(d) PROVE MarksKept'
  <2>1. UNCHANGED <<at, file>>
    BY <1>11 DEF DeleteSeries, scanVars
  <2>2. \A b \in Books : row'[b] # None => row'[b] = row[b]
    BY <1>11 DEF DeleteSeries
  <2>3. QED
    BY <2>1, <2>2, RowsRemember
<1>12. CASE UNCHANGED vars
  <2>1. UNCHANGED <<row, at, file>>
    BY <1>12 DEF vars, catalogVars, scanVars
  <2>2. QED
    BY <2>1, RowsRemember
<1>13. QED
  BY <1>a, <1>b, <1>c, <1>2, <1>3, <1>4, <1>5, <1>6, <1>7, <1>8, <1>9, <1>10, <1>11, <1>12 DEF Next, ScanStep

\* What a user typed is lost only to a scan that could not read the file or had read
\* the book before the edit, or to a match that finds no locks, for any number of
\* scans, overlapping or not.
THEOREM EditsLostUnseenOnly ==
  ASSUME CatalogAssumption, NoneIsApart PROVE Spec => OnlyUnseenEditsLost
<1> DEFINE Overwritten(b) == row[b] # None /\ row[b].marks.user /\ row'[b] # None /\ ~row'[b].marks.user
           Excused(b) ==
             \/ \E s \in Scans : /\ at[s] = "store" /\ file[s].book = b
                                 /\ file[s].bad \/ ~file[s].old.user
             \/ ~row[b].marks.locks
<1>1. Init => MarksKept
  BY DEF Init, MarksKept, Remembers, Processing
<1>2. TypeOK /\ MarksKept /\ [Next]_vars => MarksKept'
  BY StepKeepsMarks
<1>3. ASSUME TypeOK, MarksKept, [Next]_vars, NEW b \in Books, Overwritten(b) PROVE Excused(b)
  <2>1. row'[b] # row[b]
    BY <1>3
  <2>2. ASSUME NEW s \in Scans, Store(s) PROVE Excused(b)
    <3>1. file[s] \in Files /\ at[s] = "store"
      BY <1>3, <2>2, HasFile DEF Store, Processing
    <3>2. PICK c \in Books : /\ c \in IF file[s].book = None THEN NewIds ELSE {file[s].book}
                             /\ row' = [row EXCEPT ![c] = Built(file[s], c)]
      BY <2>2, <3>1 DEF Store, NewIds, Files
    <3>3. c = b
      BY <1>3, <2>1, <3>2 DEF TypeOK
    <3>4. file[s].book = b /\ b # None
      BY <1>3, <3>2, <3>3 DEF NewIds, CatalogAssumption
    <3>5. row'[b].marks.user = (Kept(file[s]) /\ file[s].old.user)
      BY <1>3, <3>2, <3>3 DEF TypeOK, Built
    <3>6. Sound(file[s].old)
      BY <1>3, <3>1, <3>4 DEF MarksKept, Remembers, Processing
    <3>7. file[s].old # None
      BY <3>6 DEF Sound, NoneIsApart
    <3>8. file[s].bad \/ ~file[s].old.user
      BY <1>3, <3>5, <3>6, <3>7 DEF Kept, Sound
    <3>9. QED
      BY <3>1, <3>4, <3>8
  <2>3. ASSUME NEW c \in Books, Edit(c) \/ Match(c) PROVE Excused(b)
    <3>1. c = b
      BY <1>3, <2>1, <2>3 DEF Edit, Match, TypeOK
    <3>2. row[b] \in Rows
      BY <1>3 DEF TypeOK
    <3>3. Edit(b) => row'[b].marks.user
      BY <1>3, <3>2 DEF Edit, TypeOK, Rows
    <3>4. Match(b) => row'[b].marks.user = (row[b].marks.user /\ row[b].marks.locks)
      BY <1>3, <3>2 DEF Match, TypeOK, Rows
    <3>5. QED
      BY <1>3, <2>3, <3>1, <3>3, <3>4
  <2>4. ASSUME NEW d \in Folders, DeleteSeries(d) PROVE FALSE
    BY <1>3, <2>1, <2>4 DEF DeleteSeries
  <2>a. /\ \A p \in Paths, v \in Versions : Write(p, v) => row' = row
        /\ \A p \in Paths : Remove(p) => row' = row
        /\ \A p, q \in Paths, v \in Versions : Move(p, q, v) => row' = row
    BY DEF Write, Remove, Move, catalogVars
  <2>b. ASSUME NEW s \in Scans, NEW p \in Paths, Skip(s, p) \/ Look(s, p) \/ LookFails(s, p)
        PROVE  row' = row
    BY <2>b DEF Skip, Look, LookFails, Take, catalogVars
  <2>c. ASSUME NEW s \in Scans,
               \/ Begin(s) \/ Hash(s) \/ HashFails(s) \/ Reconcile(s) \/ ReconcileFails(s)
               \/ Open(s) \/ OpenFails(s) \/ ResolveSeries(s)
        PROVE  row' = row
    BY <2>c DEF Begin, Hash, HashFails, Reconcile, ReconcileFails, Open, OpenFails,
       ResolveSeries, catalogVars
  <2>d. ASSUME NEW s \in Scans,
               \/ StoreFails(s) \/ Link(s) \/ LinkFails(s) \/ ReplacePages(s)
               \/ FileFails(s) \/ Finish(s) \/ Stop(s)
        PROVE  row' = row
    BY <2>d DEF StoreFails, Link, LinkFails, ReplacePages, FileFails, Finish, Stop, catalogVars
  <2>e. Next /\ row' # row
    BY <1>3, <2>1 DEF vars, catalogVars
  <2>f. QED
    BY <2>2, <2>3, <2>4, <2>a, <2>b, <2>c, <2>d, <2>e DEF Next, ScanStep
<1>4. TypeOK /\ MarksKept /\ [Next]_vars =>
        [\A b \in Books :
           row[b] # None /\ row[b].marks.user /\ row'[b] # None /\ ~row'[b].marks.user =>
             \/ \E s \in Scans : /\ at[s] = "store" /\ file[s].book = b
                                 /\ file[s].bad \/ ~file[s].old.user
             \/ ~row[b].marks.locks]_vars
  BY <1>3
<1>5. QED
  BY <1>1, <1>2, <1>4, TypeCorrect, PTL DEF Spec, OnlyUnseenEditsLost

-----------------------------------------------------------------------------
(* The catalog and the disk, whether or not scans overlap.                 *)

\* The catalog has the file at p as it is.
Covered(p) ==
  \E b \in Books :
    /\ row[b] # None /\ row[b].path = p /\ row[b].seen = disk[p]
    /\ row[b].hash = Bytes[disk[p]]
    /\ row[b].corrupt <=> Bytes[disk[p]] \notin Openable

\* What a scan has read of a file whose version is still the one it saw.
Learned(s) ==
  file[s] # None =>
    /\ file[s].seen \notin unused
    /\ ~file[s].bad /\ disk[file[s].path] = file[s].seen =>
         /\ at[s] # "hash" => file[s].hash = Bytes[file[s].seen]
         /\ at[s] \in {"series", "store", "link", "pages"} =>
              Bytes[file[s].seen] \in Openable

\* A row of a version that is still at its path is right about it.
Recorded(b) ==
  row[b] # None =>
    /\ row[b].seen \notin unused
    /\ ~row[b].corrupt /\ disk[row[b].path] = row[b].seen =>
         row[b].hash = Bytes[row[b].seen] /\ Bytes[row[b].seen] \in Openable

OneRowPerPath ==
  \A b, c \in Books :
    row[b] # None /\ row[c] # None /\ row[b].path = row[c].path => b = c

QuietAlone == \A s \in quiet : Active(s) /\ \A r \in Scans : Active(r) => r = s

Before(s) == at[s] \in {"hash", "match", "open", "series", "store"}

\* With nothing disturbed, what a scan knows of its file is what the file is.
Faithful(s) ==
  (fresh \/ s \in quiet) /\ Before(s) =>
    /\ disk[file[s].path] = file[s].seen
    /\ at[s] # "hash" => file[s].hash = Bytes[file[s].seen]
    /\ IF at[s] \in {"series", "store"}
       THEN file[s].bad <=> Bytes[file[s].seen] \notin Openable
       ELSE ~file[s].bad

\* What an undisturbed scan has still to do, of what is on disk.
Remaining(s) ==
  s \in quiet =>
    \A p \in Paths : disk[p] # None =>
      p \in todo[s] \/ Covered(p) \/ (Before(s) /\ file[s].path = p)

\* The book an undisturbed scan is about to write.
Target(s) ==
  s \in quiet /\ Before(s) =>
    /\ IF file[s].book = None
       THEN Owners(file[s].path) = {}
       ELSE /\ row[file[s].book] # None
            /\ \/ row[file[s].book].path = file[s].path
               \/ disk[row[file[s].book].path] = None /\ Owners(file[s].path) = {}
    /\ at[s] = "match" => file[s].book = None
    /\ at[s] = "store" => Folder[file[s].path] \in series
    /\ at[s] \in {"open", "series", "store"} /\ file[s].book = None =>
         ~\E c \in Books : row[c] # None /\ row[c].hash = file[s].hash
                           /\ disk[row[c].path] = None

\* The part of the invariant that holds whatever happens, and the part that says what
\* an undisturbed scan achieves.
Base ==
  /\ \A p \in Paths : disk[p] \notin unused
  /\ \A s \in Scans : Learned(s)
  /\ \A b \in Books : Recorded(b)
  /\ OneRowPerPath

Undisturbed ==
  /\ QuietAlone
  /\ \A s \in Scans : Faithful(s) /\ Remaining(s) /\ Target(s)
  /\ CatalogMatchesDisk

\* A scan that takes over a moved book changes nothing it has read of the file.
LEMMA ReconcileTakes ==
  ASSUME TypeOK, CatalogAssumption, NEW s \in Scans, Reconcile(s)
  PROVE  \E f : /\ file' = [file EXCEPT ![s] = f]
                /\ f.path = file[s].path /\ f.seen = file[s].seen
                /\ f.hash = file[s].hash /\ f.bad = file[s].bad
                /\ \/ f.book = file[s].book /\ Moved(file[s]) = {}
                   \/ f.book \in Moved(file[s]) /\ f.book # None
<1>1. file[s] \in Files
  BY HasFile DEF Reconcile, Goto, Processing
<1>2. CASE UNCHANGED file /\ Moved(file[s]) = {}
  <2>1. file' = [file EXCEPT ![s] = file[s]]
    BY <1>2 DEF TypeOK
  <2>2. QED
    BY <1>2, <2>1
<1>3. CASE \E b \in Moved(file[s]) : file' = [file EXCEPT ![s].book = b, ![s].old = row[b].marks]
  <2>1. PICK b \in Moved(file[s]) : file' = [file EXCEPT ![s].book = b, ![s].old = row[b].marks]
    BY <1>3
  <2>2. b # None
    BY DEF Moved, CatalogAssumption
  <2>3. file' = [file EXCEPT ![s] = [file[s] EXCEPT !.book = b, !.old = row[b].marks]]
    BY <2>1 DEF TypeOK
  <2>4. PICK f : f = [file[s] EXCEPT !.book = b, !.old = row[b].marks]
    OBVIOUS
  <2>5. /\ f.path = file[s].path /\ f.seen = file[s].seen
        /\ f.hash = file[s].hash /\ f.bad = file[s].bad /\ f.book = b
    BY <1>1, <2>4 DEF Files
  <2>6. QED
    BY <2>1, <2>2, <2>3, <2>4, <2>5
<1>4. QED
  BY <1>2, <1>3 DEF Reconcile

\* An edit or a match changes the marks of a row and nothing else of it.
LEMMA MarksOnly ==
  ASSUME TypeOK, NoneIsApart, NEW b \in Books, Edit(b) \/ Match(b)
  PROVE  \A c \in Books :
           /\ row'[c] # None <=> row[c] # None
           /\ row'[c] # None =>
                /\ row'[c].path = row[c].path /\ row'[c].seen = row[c].seen
                /\ row'[c].hash = row[c].hash /\ row'[c].corrupt = row[c].corrupt
<1>1. row[b] \in Rows /\ row[b] # None
  BY DEF Edit, Match, TypeOK
<1>2. PICK m \in Marks : row' = [row EXCEPT ![b] = [row[b] EXCEPT !.marks = m]]
  BY <1>1, MarksWritten
<1>3. /\ row'[b] \in Rows
      /\ row'[b].path = row[b].path /\ row'[b].seen = row[b].seen
      /\ row'[b].hash = row[b].hash /\ row'[b].corrupt = row[b].corrupt
  BY <1>1, <1>2 DEF TypeOK, Rows
<1>4. \A c \in Books : c # b => row'[c] = row[c]
  BY <1>2 DEF TypeOK
<1>5. QED
  BY <1>1, <1>3, <1>4 DEF NoneIsApart

\* A change on disk shows a version nobody has seen, or nothing.
LEMMA DiskBase ==
  ASSUME TypeOK, CatalogAssumption, Base, unused' \subseteq unused,
         \A p \in Paths : disk'[p] = disk[p] \/ disk'[p] = None
                          \/ (disk'[p] \in unused /\ disk'[p] \notin unused'),
         UNCHANGED <<row, at, file>>
  PROVE  Base'
<1>0. None \notin Versions
  BY DEF CatalogAssumption
<1>1. \A p \in Paths : disk'[p] \notin unused'
  BY <1>0 DEF Base, TypeOK
<1>2. ASSUME NEW s \in Scans PROVE Learned(s)'
  <2>1. CASE file[s] = None
    BY <2>1 DEF Learned
  <2>2. CASE file[s] # None
    <3>1. file[s].path \in Paths /\ file[s].seen \in Versions /\ Learned(s)
      BY <2>2 DEF TypeOK, Files, Base
    <3>2. disk'[file[s].path] = file[s].seen => disk[file[s].path] = file[s].seen
      BY <1>0, <2>2, <3>1 DEF Learned
    <3>3. QED
      BY <2>2, <3>1, <3>2 DEF Learned
  <2>3. QED
    BY <2>1, <2>2
<1>3. ASSUME NEW b \in Books PROVE Recorded(b)'
  <2>1. CASE row[b] = None
    BY <2>1 DEF Recorded
  <2>2. CASE row[b] # None
    <3>1. row[b].path \in Paths /\ row[b].seen \in Versions /\ Recorded(b)
      BY <2>2 DEF TypeOK, Rows, Base
    <3>2. disk'[row[b].path] = row[b].seen => disk[row[b].path] = row[b].seen
      BY <1>0, <2>2, <3>1 DEF Recorded
    <3>3. QED
      BY <2>2, <3>1, <3>2 DEF Recorded
  <2>3. QED
    BY <2>1, <2>2
<1>4. OneRowPerPath'
  BY DEF Base, OneRowPerPath
<1>5. QED
  BY <1>1, <1>2, <1>3, <1>4 DEF Base

\* A step of one scan that writes no row.
LEMMA ScanBase ==
  ASSUME TypeOK, Base, NEW s \in Scans, NEW to, NEW f,
         at' = [at EXCEPT ![s] = to], file' = [file EXCEPT ![s] = f],
         UNCHANGED <<disk, unused, row>>, Learned(s)'
  PROVE  Base'
<1>1. \A r \in Scans : r # s => at'[r] = at[r] /\ file'[r] = file[r]
  BY DEF TypeOK
<1>2. ASSUME NEW r \in Scans PROVE Learned(r)'
  BY <1>1 DEF Base, Learned
<1>3. (\A b \in Books : Recorded(b)') /\ OneRowPerPath'
  BY DEF Base, Recorded, OneRowPerPath
<1>4. QED
  BY <1>2, <1>3 DEF Base

\* A step that deletes rows or changes their metadata only.
LEMMA RowsBase ==
  ASSUME TypeOK, Base, UNCHANGED <<disk, unused, at, file>>,
         \A b \in Books : row'[b] # None =>
           /\ row[b] # None
           /\ row'[b].path = row[b].path /\ row'[b].seen = row[b].seen
           /\ row'[b].hash = row[b].hash /\ row'[b].corrupt = row[b].corrupt
  PROVE  Base'
<1>1. \A s \in Scans : Learned(s)'
  BY DEF Base, Learned
<1>2. ASSUME NEW b \in Books PROVE Recorded(b)'
  BY DEF Base, Recorded
<1>3. OneRowPerPath'
  BY DEF Base, OneRowPerPath
<1>4. QED
  BY <1>1, <1>2, <1>3 DEF Base

\* What a store writes, and what it leaves alone.
LEMMA StoreWrites ==
  ASSUME TypeOK, CatalogAssumption, NEW s \in Scans, Store(s)
  PROVE  \E b \in Books :
           /\ IF file[s].book = None THEN row[b] = None ELSE b = file[s].book
           /\ Storable(file[s], b)
           /\ row' = [row EXCEPT ![b] = Built(file[s], b)]
           /\ \E to \in {"ready", "link", "pages"} : \E f :
                /\ at' = [at EXCEPT ![s] = to] /\ file' = [file EXCEPT ![s] = f]
                /\ IF to = "ready" THEN f = None
                   ELSE f = [file[s] EXCEPT !.book = b] /\ ~file[s].bad
<1>1. file[s] \in Files
  BY HasFile DEF Store, Processing
<1>2. PICK b \in IF file[s].book = None THEN NewIds ELSE {file[s].book} :
        /\ Storable(file[s], b)
        /\ row' = [row EXCEPT ![b] = Built(file[s], b)]
        /\ IF file[s].bad THEN Drop(s)
           ELSE /\ at' = [at EXCEPT ![s] = IF file[s].book = None THEN "link" ELSE "pages"]
                /\ file' = [file EXCEPT ![s].book = b]
  BY DEF Store
<1>3. b \in Books /\ (IF file[s].book = None THEN row[b] = None ELSE b = file[s].book)
  BY <1>1, <1>2 DEF NewIds, Files
<1>4. \E to \in {"ready", "link", "pages"} : \E f :
        /\ at' = [at EXCEPT ![s] = to] /\ file' = [file EXCEPT ![s] = f]
        /\ IF to = "ready" THEN f = None ELSE f = [file[s] EXCEPT !.book = b] /\ ~file[s].bad
  <2>1. CASE file[s].bad
    BY <1>2, <2>1 DEF Drop
  <2>2. CASE ~file[s].bad
    <3>1. file' = [file EXCEPT ![s] = [file[s] EXCEPT !.book = b]]
      BY <1>2, <2>2 DEF TypeOK
    <3>2. PICK to \in {"link", "pages"} : at' = [at EXCEPT ![s] = to]
      BY <1>2, <2>2
    <3>3. QED
      BY <2>2, <3>1, <3>2
  <2>3. QED
    BY <2>1, <2>2
<1>5. QED
  BY <1>2, <1>3, <1>4

\* Store: a path gets one row, and the row is right about what it claims.
LEMMA StoreBase ==
  ASSUME TypeOK, CatalogAssumption, Base, NEW s \in Scans, Store(s)
  PROVE  Base'
<1>1. PICK b \in Books :
        /\ IF file[s].book = None THEN row[b] = None ELSE b = file[s].book
        /\ Storable(file[s], b)
        /\ row' = [row EXCEPT ![b] = Built(file[s], b)]
        /\ \E to \in {"ready", "link", "pages"} : \E f :
             /\ at' = [at EXCEPT ![s] = to] /\ file' = [file EXCEPT ![s] = f]
             /\ IF to = "ready" THEN f = None
                ELSE f = [file[s] EXCEPT !.book = b] /\ ~file[s].bad
  BY StoreWrites
<1>1a. PICK to \in {"ready", "link", "pages"} : \E f :
        /\ at' = [at EXCEPT ![s] = to] /\ file' = [file EXCEPT ![s] = f]
        /\ IF to = "ready" THEN f = None
           ELSE f = [file[s] EXCEPT !.book = b] /\ ~file[s].bad
  BY <1>1
<1>2. PICK f :
        /\ at' = [at EXCEPT ![s] = to] /\ file' = [file EXCEPT ![s] = f]
        /\ IF to = "ready" THEN f = None
           ELSE f = [file[s] EXCEPT !.book = b] /\ ~file[s].bad
  BY <1>1a
<1>3. at[s] = "store" /\ UNCHANGED <<disk, unused>>
  BY DEF Store, diskVars
<1>4. file[s] \in Files /\ file[s] # None /\ Learned(s)
  BY <1>3, HasFile DEF Processing, TypeOK, Base
<1>5. /\ row'[b].path = file[s].path /\ row'[b].seen = file[s].seen
      /\ row'[b].hash = file[s].hash /\ row'[b].corrupt = file[s].bad
  BY <1>1 DEF Built, TypeOK
<1>6. \A c \in Books : c # b => row'[c] = row[c]
  BY <1>1 DEF TypeOK
<1>7. \A r \in Scans : r # s => at'[r] = at[r] /\ file'[r] = file[r]
  BY <1>2 DEF TypeOK
<1>8. Learned(s)'
  <2>1. at'[s] = to /\ file'[s] = f
    BY <1>2 DEF TypeOK
  <2>2. CASE to = "ready"
    BY <1>2, <2>1, <2>2 DEF Learned
  <2>3. CASE to # "ready"
    <3>1. /\ f.path = file[s].path /\ f.seen = file[s].seen
          /\ f.hash = file[s].hash /\ f.bad = file[s].bad
      BY <1>2, <1>4, <2>3 DEF Files
    <3>2. QED
      BY <1>3, <1>4, <2>1, <3>1 DEF Learned
  <2>4. QED
    BY <2>2, <2>3
<1>9. ASSUME NEW r \in Scans PROVE Learned(r)'
  BY <1>3, <1>7, <1>8 DEF Base, Learned
<1>10. ASSUME NEW c \in Books PROVE Recorded(c)'
  <2>1. CASE c = b
    BY <1>3, <1>4, <1>5, <2>1 DEF Learned, Recorded
  <2>2. CASE c # b
    BY <1>3, <1>6, <2>2 DEF Base, Recorded
  <2>3. QED
    BY <2>1, <2>2
<1>11. \A c \in Books : row[c] # None /\ row[c].path = file[s].path => c = b
  BY <1>1 DEF Storable, Owners
<1>12. OneRowPerPath'
  BY <1>5, <1>6, <1>11 DEF Base, OneRowPerPath
<1>13. QED
  BY <1>3, <1>9, <1>10, <1>12 DEF Base

\* The inductive step of Base, action by action.
LEMMA StepKeepsBase ==
  ASSUME CatalogAssumption, NoneIsApart, TypeOK, Base, [Next]_vars
  PROVE  Base'
<1>0. None \notin Versions /\ (\A p \in Paths : disk[p] \notin unused)
  BY DEF CatalogAssumption, Base
<1>1. ASSUME NEW p \in Paths, NEW v \in Versions, Write(p, v) PROVE Base'
  <2>1. \A q \in Paths : disk'[q] = disk[q] \/ (disk'[q] \in unused /\ disk'[q] \notin unused')
    BY <1>1 DEF Write, TypeOK
  <2>2. unused' \subseteq unused /\ UNCHANGED <<row, at, file>>
    BY <1>1 DEF Write, catalogVars, scanVars
  <2>3. QED
    BY <2>1, <2>2, DiskBase
<1>2. ASSUME NEW p \in Paths, Remove(p) PROVE Base'
  <2>1. \A q \in Paths : disk'[q] = disk[q] \/ disk'[q] = None
    BY <1>2 DEF Remove, TypeOK
  <2>2. unused' \subseteq unused /\ UNCHANGED <<row, at, file>>
    BY <1>2 DEF Remove, catalogVars, scanVars
  <2>3. QED
    BY <2>1, <2>2, DiskBase
<1>3. ASSUME NEW p \in Paths, NEW q \in Paths, NEW v \in Versions, Move(p, q, v) PROVE Base'
  <2>1. \A r \in Paths : disk'[r] = disk[r] \/ disk'[r] = None
                         \/ (disk'[r] \in unused /\ disk'[r] \notin unused')
    BY <1>3 DEF Move, TypeOK
  <2>2. unused' \subseteq unused /\ UNCHANGED <<row, at, file>>
    BY <1>3 DEF Move, catalogVars, scanVars
  <2>3. QED
    BY <2>1, <2>2, DiskBase
<1>4. ASSUME NEW s \in Scans, Begin(s) \/ Finish(s) PROVE Base'
  <2>1. at[s] \notin Processing /\ UNCHANGED <<disk, unused, row, file>>
    BY <1>4 DEF Begin, Finish, Goto, Processing, diskVars, catalogVars
  <2>2. PICK to : at' = [at EXCEPT ![s] = to]
    BY <1>4 DEF Begin, Finish, Goto
  <2>3. file' = [file EXCEPT ![s] = file[s]] /\ file[s] = None
    BY <2>1 DEF TypeOK
  <2>4. Learned(s)'
    BY <2>1, <2>3 DEF Learned
  <2>5. QED
    BY <2>1, <2>2, <2>3, <2>4, ScanBase
<1>5. ASSUME NEW s \in Scans, NEW p \in Paths, Skip(s, p) PROVE Base'
  <2>1. UNCHANGED <<disk, unused, row, at, file>>
    BY <1>5 DEF Skip, diskVars, catalogVars
  <2>2. QED
    BY <2>1, RowsBase
<1>6. ASSUME NEW s \in Scans, NEW p \in Paths, Look(s, p) \/ LookFails(s, p) PROVE Base'
  <2>1. PICK b : Take(s, Looked(p, b))
    BY <1>6 DEF Look, LookFails
  <2>2. disk[p] # None
    BY <1>6 DEF Look, LookFails
  <2>3. /\ at' = [at EXCEPT ![s] = "hash"] /\ file' = [file EXCEPT ![s] = Looked(p, b)]
        /\ UNCHANGED <<disk, unused, row>>
    BY <2>1 DEF Take, diskVars, catalogVars
  <2>4. at'[s] = "hash" /\ file'[s].seen = disk[p]
    BY <2>3 DEF TypeOK, Looked
  <2>5. Learned(s)'
    BY <1>0, <2>3, <2>4 DEF Learned
  <2>6. QED
    BY <2>3, <2>5, ScanBase
<1>7. ASSUME NEW s \in Scans, Hash(s) PROVE Base'
  <2>1. PICK to \in {"match", "open"} : at[s] = "hash" /\ at' = [at EXCEPT ![s] = to]
    BY <1>7 DEF Hash, Goto
  <2>2. file[s] \in Files /\ file[s] # None
    BY <2>1, HasFile DEF Processing, TypeOK
  <2>3. PICK h : h = Bytes[disk[file[s].path]]
    OBVIOUS
  <2>4. /\ file' = [file EXCEPT ![s] = [file[s] EXCEPT !.hash = h]]
        /\ UNCHANGED <<disk, unused, row>>
    BY <1>7, <2>3 DEF Hash, TypeOK, diskVars, catalogVars
  <2>5. at'[s] = to /\ file'[s] = [file[s] EXCEPT !.hash = h]
    BY <2>1, <2>4 DEF TypeOK
  <2>6. Learned(s)'
    BY <2>1, <2>2, <2>3, <2>4, <2>5 DEF Base, Learned, Files
  <2>7. QED
    BY <2>1, <2>4, <2>6, ScanBase
<1>8. ASSUME NEW s \in Scans, HashFails(s) \/ OpenFails(s) PROVE Base'
  <2>1. at[s] \in {"hash", "open"} /\ at' = [at EXCEPT ![s] = "series"]
    BY <1>8 DEF HashFails, OpenFails, Goto
  <2>2. file[s] \in Files /\ file[s] # None
    BY <2>1, HasFile DEF Processing, TypeOK
  <2>3. /\ file' = [file EXCEPT ![s] = [file[s] EXCEPT !.bad = TRUE]]
        /\ UNCHANGED <<disk, unused, row>>
    BY <1>8 DEF HashFails, OpenFails, TypeOK, diskVars, catalogVars
  <2>4. at'[s] = "series" /\ file'[s] = [file[s] EXCEPT !.bad = TRUE]
    BY <2>1, <2>3 DEF TypeOK
  <2>5. Learned(s)'
    BY <2>2, <2>3, <2>4 DEF Base, Learned, Files
  <2>6. QED
    BY <2>1, <2>3, <2>5, ScanBase
<1>9. ASSUME NEW s \in Scans, Reconcile(s) PROVE Base'
  <2>1. at[s] = "match" /\ at' = [at EXCEPT ![s] = "open"]
    BY <1>9 DEF Reconcile, Goto
  <2>2. file[s] \in Files /\ file[s] # None
    BY <2>1, HasFile DEF Processing, TypeOK
  <2>3. PICK f : /\ file' = [file EXCEPT ![s] = f]
                 /\ f.path = file[s].path /\ f.seen = file[s].seen
                 /\ f.hash = file[s].hash /\ f.bad = file[s].bad
    BY <1>9, ReconcileTakes
  <2>4. UNCHANGED <<disk, unused, row>> /\ at'[s] = "open" /\ file'[s] = f
    BY <1>9, <2>1, <2>3 DEF Reconcile, TypeOK, diskVars, catalogVars
  <2>5. Learned(s)'
    BY <2>1, <2>2, <2>3, <2>4 DEF Base, Learned
  <2>6. QED
    BY <2>1, <2>3, <2>4, <2>5, ScanBase
<1>10. ASSUME NEW s \in Scans, Open(s) PROVE Base'
  <2>1. at[s] = "open" /\ at' = [at EXCEPT ![s] = "series"]
    BY <1>10 DEF Open, Goto
  <2>2. file[s] \in Files /\ file[s] # None
    BY <2>1, HasFile DEF Processing, TypeOK
  <2>3. PICK c : c = Bytes[disk[file[s].path]]
    OBVIOUS
  <2>4. /\ file' = [file EXCEPT ![s] = [file[s] EXCEPT !.inside = c]]
        /\ UNCHANGED <<disk, unused, row>> /\ c \in Openable
    BY <1>10, <2>3 DEF Open, Readable, TypeOK, diskVars, catalogVars
  <2>5. at'[s] = "series" /\ file'[s] = [file[s] EXCEPT !.inside = c]
    BY <2>1, <2>4 DEF TypeOK
  <2>6. Learned(s)'
    BY <2>1, <2>2, <2>3, <2>4, <2>5 DEF Base, Learned, Files
  <2>7. QED
    BY <2>1, <2>4, <2>6, ScanBase
<1>11. ASSUME NEW s \in Scans, ReconcileFails(s) \/ ResolveSeries(s) \/ Link(s) \/ LinkFails(s)
       PROVE Base'
  <2>0. Goto(s, "match", "open") \/ Goto(s, "series", "store") \/ Goto(s, "link", "pages")
    BY <1>11 DEF ReconcileFails, ResolveSeries, Link, LinkFails
  <2>1. at' = [at EXCEPT ![s] = at'[s]]
    BY <2>0 DEF Goto, TypeOK
  <2>2. \/ at[s] = "match" /\ at'[s] = "open"
        \/ at[s] = "series" /\ at'[s] = "store"
        \/ at[s] = "link" /\ at'[s] = "pages"
    BY <2>0 DEF Goto, TypeOK
  <2>3. UNCHANGED <<disk, unused, row, file>>
    BY <1>11 DEF ReconcileFails, ResolveSeries, Link, LinkFails, diskVars, catalogVars
  <2>4. file' = [file EXCEPT ![s] = file[s]]
    BY <2>3 DEF TypeOK
  <2>5. Learned(s)'
    BY <2>2, <2>3 DEF Base, Learned
  <2>6. QED
    BY <2>1, <2>3, <2>4, <2>5, ScanBase
<1>12. ASSUME NEW s \in Scans, StoreFails(s) \/ ReplacePages(s) \/ FileFails(s) \/ Stop(s)
       PROVE Base'
  <2>1. PICK to \in {"ready", "over"} : at' = [at EXCEPT ![s] = to]
    BY <1>12 DEF StoreFails, ReplacePages, FileFails, Stop, Drop
  <2>2. file' = [file EXCEPT ![s] = None] /\ UNCHANGED <<disk, unused, row>>
    BY <1>12 DEF StoreFails, ReplacePages, FileFails, Stop, Drop, diskVars, catalogVars
  <2>3. Learned(s)'
    BY <2>2 DEF Learned, TypeOK
  <2>4. QED
    BY <2>1, <2>2, <2>3, ScanBase
<1>13. ASSUME NEW b \in Books, Edit(b) \/ Match(b) PROVE Base'
  <2>1. UNCHANGED <<disk, unused, at, file>>
    BY <1>13 DEF Edit, Match, diskVars, scanVars
  <2>2. QED
    BY <1>13, <2>1, MarksOnly, RowsBase
<1>14. ASSUME NEW d \in Folders, DeleteSeries(d) PROVE Base'
  <2>1. UNCHANGED <<disk, unused, at, file>>
    BY <1>14 DEF DeleteSeries, diskVars, scanVars
  <2>2. ASSUME NEW b \in Books, row'[b] # None PROVE row'[b] = row[b]
    BY <1>14, <2>2 DEF DeleteSeries
  <2>3. QED
    BY <2>1, <2>2, RowsBase
<1>15. CASE UNCHANGED vars
  <2>1. UNCHANGED <<disk, unused, row, at, file>>
    BY <1>15 DEF vars, diskVars, catalogVars, scanVars
  <2>2. QED
    BY <2>1, RowsBase
<1>16. QED
  BY <1>1, <1>2, <1>3, <1>4, <1>5, <1>6, <1>7, <1>8, <1>9, <1>10, <1>11, <1>12, <1>13, <1>14,
     <1>15, StoreBase DEF Next, ScanStep

\* A step that disturbs whatever runs.
LEMMA Disturbed == ASSUME Disturb PROVE Undisturbed'
BY DEF Disturb, Undisturbed, QuietAlone, Faithful, Remaining, Target, CatalogMatchesDisk

\* A step of one active scan that writes no row.
LEMMA ScanUndisturbed ==
  ASSUME TypeOK, Undisturbed, NEW s \in Scans, Active(s),
         \A r \in Scans : r # s => at'[r] = at[r] /\ file'[r] = file[r] /\ todo'[r] = todo[r],
         UNCHANGED <<disk, row, fresh>>, series \subseteq series', quiet' \subseteq quiet,
         s \in quiet' => Active(s)' /\ Remaining(s)' /\ Target(s)',
         Faithful(s)'
  PROVE  Undisturbed'
<1>1. QuietAlone'
  BY DEF Undisturbed, QuietAlone, Active, TypeOK
<1>2. ASSUME NEW r \in Scans PROVE Faithful(r)'
  <2>1. CASE r # s
    BY <2>1 DEF Undisturbed, Faithful, Before
  <2>2. QED
    BY <2>1
<1>3. ASSUME NEW r \in Scans PROVE Remaining(r)' /\ Target(r)'
  <2>1. CASE r # s
    <3>1. r \notin quiet
      BY <2>1 DEF Undisturbed, QuietAlone
    <3>2. QED
      BY <3>1 DEF Remaining, Target
  <2>2. CASE r = s
    BY <2>2 DEF Remaining, Target
  <2>3. QED
    BY <2>1, <2>2
<1>4. CatalogMatchesDisk'
  BY DEF Undisturbed, CatalogMatchesDisk
<1>5. QED
  BY <1>1, <1>2, <1>3, <1>4 DEF Undisturbed

\* A step that changes at most the metadata of rows.
LEMMA MarksUndisturbed ==
  ASSUME TypeOK, Undisturbed, UNCHANGED <<disk, at, file, todo, series, quiet, fresh>>,
         \A b \in Books :
           /\ row'[b] # None <=> row[b] # None
           /\ row'[b] # None =>
                /\ row'[b].path = row[b].path /\ row'[b].seen = row[b].seen
                /\ row'[b].hash = row[b].hash /\ row'[b].corrupt = row[b].corrupt
  PROVE  Undisturbed'
<1>1. QuietAlone'
  BY DEF Undisturbed, QuietAlone, Active
<1>2. \A p : Owners(p)' = Owners(p)
  BY DEF Owners
<1>3. \A p \in Paths : Covered(p)' <=> Covered(p)
  BY DEF Covered
<1>4. ASSUME NEW s \in Scans PROVE Faithful(s)'
  BY DEF Undisturbed, Faithful, Before
<1>5. ASSUME NEW s \in Scans PROVE Remaining(s)'
  BY <1>3 DEF Undisturbed, Remaining, Before
<1>6. ASSUME NEW s \in Scans PROVE Target(s)'
  <2>1. CASE s \in quiet /\ Before(s)
    <3>1. file[s].book \in Books \cup {None}
      BY <2>1, HasFile DEF Before, Processing, Files
    <3>2. Target(s)
      BY DEF Undisturbed
    <3>3. QED
      BY <1>2, <2>1, <3>1, <3>2 DEF Target, Before
  <2>2. CASE ~(s \in quiet /\ Before(s))
    BY <2>2 DEF Target, Before
  <2>3. QED
    BY <2>1, <2>2
<1>7. CatalogMatchesDisk'
  BY DEF Undisturbed, CatalogMatchesDisk
<1>8. QED
  BY <1>1, <1>4, <1>5, <1>6, <1>7 DEF Undisturbed

\* Begin: what is on disk is what there is to do.
LEMMA BeginUndisturbed ==
  ASSUME TypeOK, Undisturbed, NEW s \in Scans, Begin(s)
  PROVE  Undisturbed'
<1>1. /\ at[s] = "idle" /\ at' = [at EXCEPT ![s] = "ready"]
      /\ todo' = [todo EXCEPT ![s] = {p \in Paths : disk[p] # None}]
      /\ quiet' = IF \A r \in Scans : ~Active(r) THEN {s} ELSE {}
      /\ UNCHANGED <<disk, row, series, file, fresh>>
  BY DEF Begin, diskVars, catalogVars
<1>2. \A r \in Scans : r # s => at'[r] = at[r]
  BY <1>1 DEF TypeOK
<1>3. at'[s] = "ready" /\ todo'[s] = {p \in Paths : disk[p] # None}
  BY <1>1 DEF TypeOK
<1>4. ~Before(s)'
  BY <1>3 DEF Before
<1>5. QuietAlone'
  BY <1>1, <1>2, <1>3 DEF QuietAlone, Active
<1>6. ASSUME NEW r \in Scans PROVE Faithful(r)'
  <2>1. CASE r = s
    BY <1>4, <2>1 DEF Faithful
  <2>2. CASE r # s
    <3>1. r \notin quiet'
      BY <1>1, <2>2
    <3>2. QED
      BY <1>1, <1>2, <2>2, <3>1 DEF Undisturbed, Faithful, Before
  <2>3. QED
    BY <2>1, <2>2
<1>7. ASSUME NEW r \in quiet' PROVE r = s
  BY <1>1
<1>8. ASSUME NEW r \in Scans PROVE Remaining(r)' /\ Target(r)'
  BY <1>1, <1>3, <1>4, <1>7 DEF Remaining, Target
<1>9. CatalogMatchesDisk'
  BY <1>1 DEF Undisturbed, CatalogMatchesDisk
<1>10. QED
  BY <1>5, <1>6, <1>8, <1>9 DEF Undisturbed

\* Finish: an undisturbed scan with nothing left to do has covered the disk.
LEMMA FinishUndisturbed ==
  ASSUME TypeOK, Undisturbed, NEW s \in Scans, Finish(s)
  PROVE  Undisturbed'
<1>1. /\ at[s] = "ready" /\ at' = [at EXCEPT ![s] = "over"] /\ todo[s] = {}
      /\ fresh' = (fresh \/ s \in quiet) /\ quiet' = quiet \ {s}
      /\ UNCHANGED <<disk, row, todo, file>>
  BY DEF Finish, Goto, diskVars
<1>2. \A r \in Scans : r # s => at'[r] = at[r]
  BY <1>1 DEF TypeOK
<1>3. at'[s] = "over" /\ ~Before(s) /\ Active(s)
  BY <1>1 DEF TypeOK, Before, Active
<1>4. ~Before(s)'
  BY <1>3 DEF Before
<1>5. ASSUME NEW r \in quiet' PROVE FALSE
  BY <1>1, <1>3, <1>5 DEF Undisturbed, QuietAlone, TypeOK
<1>6. QuietAlone'
  BY <1>5 DEF QuietAlone
<1>7. s \in quiet => \A r \in Scans : r # s => ~Before(r)
  BY DEF Undisturbed, QuietAlone, Active, Before, Processing
<1>8. ASSUME NEW r \in Scans PROVE Faithful(r)'
  <2>1. CASE r = s
    BY <1>4, <2>1 DEF Faithful
  <2>2. CASE r # s
    <3>1. Before(r)' <=> Before(r)
      BY <1>2, <2>2 DEF Before
    <3>2. CASE s \in quiet
      BY <1>7, <2>2, <3>1, <3>2 DEF Faithful
    <3>3. CASE s \notin quiet
      BY <1>1, <1>2, <2>2, <3>1, <3>3 DEF Undisturbed, Faithful
    <3>4. QED
      BY <3>2, <3>3
  <2>3. QED
    BY <2>1, <2>2
<1>9. ASSUME NEW r \in Scans PROVE Remaining(r)' /\ Target(r)'
  BY <1>5 DEF Remaining, Target
<1>10. CatalogMatchesDisk'
  <2>1. CASE fresh
    BY <1>1, <2>1 DEF Undisturbed, CatalogMatchesDisk
  <2>2. CASE s \in quiet
    <3>1. \A p \in Paths : disk[p] # None => Covered(p)
      BY <1>1, <1>3, <2>2 DEF Undisturbed, Remaining
    <3>2. QED
      BY <1>1, <3>1 DEF CatalogMatchesDisk, Covered
  <2>3. CASE ~fresh /\ s \notin quiet
    BY <1>1, <2>3 DEF CatalogMatchesDisk
  <2>4. QED
    BY <2>1, <2>2, <2>3
<1>11. QED
  BY <1>6, <1>8, <1>9, <1>10 DEF Undisturbed

\* Store: the row of the path is written as the file is, and no other path loses its row.
LEMMA StoreUndisturbed ==
  ASSUME TypeOK, CatalogAssumption, NoneIsApart, Base, Undisturbed, NEW s \in Scans, Store(s)
  PROVE  Undisturbed'
<1>1. PICK b \in Books :
        /\ IF file[s].book = None THEN row[b] = None ELSE b = file[s].book
        /\ Storable(file[s], b)
        /\ row' = [row EXCEPT ![b] = Built(file[s], b)]
        /\ \E to \in {"ready", "link", "pages"} : \E f :
             /\ at' = [at EXCEPT ![s] = to] /\ file' = [file EXCEPT ![s] = f]
             /\ IF to = "ready" THEN f = None
                ELSE f = [file[s] EXCEPT !.book = b] /\ ~file[s].bad
  BY StoreWrites
<1>1a. PICK to \in {"ready", "link", "pages"} : \E f :
        /\ at' = [at EXCEPT ![s] = to] /\ file' = [file EXCEPT ![s] = f]
  BY <1>1
<1>2. PICK f : /\ at' = [at EXCEPT ![s] = to] /\ file' = [file EXCEPT ![s] = f]
  BY <1>1a
<1>3. at[s] = "store" /\ UNCHANGED <<disk, todo, quiet, fresh>>
  BY DEF Store, diskVars, history
<1>4. file[s] \in Files /\ Before(s) /\ Active(s)
  BY <1>3, HasFile DEF Processing, Before, Active
<1>5. /\ row'[b] = Built(file[s], b) /\ \A c \in Books : c # b => row'[c] = row[c]
  BY <1>1 DEF TypeOK
<1>6. /\ row'[b].path = file[s].path /\ row'[b].seen = file[s].seen
      /\ row'[b].hash = file[s].hash /\ row'[b].corrupt = file[s].bad
  BY <1>5 DEF Built
<1>7. at'[s] = to /\ \A r \in Scans : r # s => at'[r] = at[r] /\ file'[r] = file[r]
  BY <1>2 DEF TypeOK
<1>8. \A c \in Books : row[c] # None /\ row[c].path = file[s].path => c = b
  BY <1>1 DEF Storable, Owners
<1>9. row'[b] # None
  BY <1>1, <1>4, <1>5, BuiltIsRow DEF NoneIsApart
<1>10. ~Before(s)' /\ (s \in quiet => Active(s)')
  BY <1>7 DEF Before, Active, Processing
<1>11. QuietAlone'
  BY <1>3, <1>4, <1>7, <1>10 DEF Undisturbed, QuietAlone, Active
<1>12. ASSUME NEW r \in Scans PROVE Faithful(r)'
  <2>1. CASE r = s
    BY <1>10, <2>1 DEF Faithful
  <2>2. CASE r # s
    BY <1>3, <1>7, <2>2 DEF Undisturbed, Faithful, Before
  <2>3. QED
    BY <2>1, <2>2
<1>13. ASSUME fresh \/ s \in quiet, NEW p \in Paths, p = file[s].path PROVE Covered(p)'
  <2>1. /\ disk[p] = file[s].seen /\ file[s].hash = Bytes[file[s].seen]
        /\ file[s].bad <=> Bytes[file[s].seen] \notin Openable
    BY <1>3, <1>4, <1>13 DEF Undisturbed, Faithful
  <2>2. QED
    BY <1>3, <1>6, <1>9, <1>13, <2>1 DEF Covered
<1>14. ASSUME fresh \/ s \in quiet, NEW p \in Paths, p # file[s].path, disk[p] # None, Covered(p)
       PROVE  Covered(p)'
  <2>1. PICK c \in Books :
          /\ row[c] # None /\ row[c].path = p /\ row[c].seen = disk[p]
          /\ row[c].hash = Bytes[disk[p]]
          /\ row[c].corrupt <=> Bytes[disk[p]] \notin Openable
    BY <1>14 DEF Covered
  <2>2. c # b
    <3>1. CASE s \in quiet
      <4>1. Target(s)
        BY DEF Undisturbed
      <4>2. QED
        BY <1>1, <1>4, <1>14, <2>1, <3>1, <4>1 DEF Target
    <3>2. CASE fresh
      <4>1. disk[file[s].path] # None
        BY <1>4, <3>2 DEF Undisturbed, Faithful, Files, CatalogAssumption
      <4>2. Covered(file[s].path)
        BY <1>4, <3>2, <4>1 DEF Undisturbed, CatalogMatchesDisk, Covered, Files
      <4>3. row[b] # None /\ row[b].path = file[s].path
        BY <1>8, <4>2 DEF Covered
      <4>4. QED
        BY <1>14, <2>1, <4>3
    <3>3. QED
      BY <1>14, <3>1, <3>2
  <2>3. row'[c] = row[c]
    BY <1>5, <2>2
  <2>4. QED
    BY <1>3, <2>1, <2>3 DEF Covered
<1>15. ASSUME NEW r \in Scans PROVE Remaining(r)' /\ Target(r)'
  <2>1. CASE r \notin quiet
    BY <1>3, <2>1 DEF Remaining, Target
  <2>2. CASE r \in quiet
    <3>1. r = s
      BY <1>4, <2>2 DEF Undisturbed, QuietAlone
    <3>2. Remaining(s)
      BY DEF Undisturbed
    <3>3. Remaining(s)'
      BY <1>3, <1>13, <1>14, <2>2, <3>1, <3>2 DEF Remaining
    <3>4. QED
      BY <1>10, <3>1, <3>3 DEF Target
  <2>3. QED
    BY <2>1, <2>2
<1>16. CatalogMatchesDisk'
  <2>1. SUFFICES ASSUME fresh, NEW p \in Paths, disk[p] # None PROVE Covered(p)'
    BY <1>3 DEF CatalogMatchesDisk, Covered
  <2>2. Covered(p)
    BY <2>1 DEF Undisturbed, CatalogMatchesDisk, Covered
  <2>3. QED
    BY <1>13, <1>14, <2>1, <2>2
<1>17. QED
  BY <1>11, <1>12, <1>15, <1>16 DEF Undisturbed

\* A look at a file: it is in hand now, and nothing else of it is known.
LEMMA LookUndisturbed ==
  ASSUME TypeOK, CatalogAssumption, Undisturbed, NEW s \in Scans, NEW p \in Paths,
         Look(s, p) \/ LookFails(s, p)
  PROVE  Undisturbed'
<1>1. PICK b : /\ Take(s, Looked(p, b))
               /\ Look(s, p) => IF b = None THEN Owners(p) = {} ELSE b \in Owners(p)
  BY DEF Look, LookFails, Owners, CatalogAssumption
<1>2. /\ at[s] = "ready" /\ p \in todo[s] /\ todo' = [todo EXCEPT ![s] = @ \ {p}]
      /\ disk[p] # None /\ quiet' \subseteq quiet /\ (s \in quiet' => Look(s, p))
  BY DEF Look, LookFails, NextFile
<1>3. /\ at' = [at EXCEPT ![s] = "hash"] /\ file' = [file EXCEPT ![s] = Looked(p, b)]
      /\ UNCHANGED <<disk, row, series, fresh>>
  BY <1>1 DEF Take, diskVars, catalogVars
<1>4. at'[s] = "hash" /\ todo'[s] = todo[s] \ {p} /\ Active(s)
  BY <1>2, <1>3 DEF TypeOK, Active
<1>5. file'[s].path = p /\ file'[s].seen = disk[p] /\ file'[s].book = b /\ ~file'[s].bad
  BY <1>3 DEF TypeOK, Looked
<1>6. \A r \in Scans : r # s => at'[r] = at[r] /\ file'[r] = file[r] /\ todo'[r] = todo[r]
  BY <1>2, <1>3 DEF TypeOK
<1>7. Faithful(s)'
  BY <1>3, <1>4, <1>5 DEF Faithful
<1>8. ASSUME s \in quiet' PROVE Active(s)' /\ Remaining(s)' /\ Target(s)'
  <2>1. Active(s)' /\ Before(s)' /\ Before(s)' /\ ~Before(s)
    BY <1>2, <1>4 DEF Active, Before, Processing
  <2>2. Remaining(s)'
    <3>1. Remaining(s) /\ s \in quiet
      BY <1>2, <1>8 DEF Undisturbed
    <3>2. ASSUME NEW q \in Paths, disk[q] # None
          PROVE  q \in todo'[s] \/ Covered(q)' \/ (Before(s)' /\ file'[s].path = q)
      <4>1. Covered(q)' <=> Covered(q)
        BY <1>3 DEF Covered
      <4>2. q \in todo[s] \/ Covered(q)
        BY <2>1, <3>1, <3>2 DEF Remaining
      <4>3. QED
        BY <1>4, <1>5, <2>1, <4>1, <4>2
    <3>3. QED
      BY <1>3, <3>2 DEF Remaining
  <2>3. Target(s)'
    <3>1. IF b = None THEN Owners(p) = {} ELSE b \in Owners(p)
      BY <1>1, <1>2, <1>8
    <3>2. Owners(p)' = Owners(p)
      BY <1>3 DEF Owners
    <3>3. IF b = None THEN Owners(file[s].path)' = {} ELSE row[b] # None /\ row[b].path = p
      BY <1>5, <3>1, <3>2 DEF Owners
    <3>4. QED
      BY <1>3, <1>4, <1>5, <3>3 DEF Target
  <2>4. QED
    BY <2>1, <2>2, <2>3
<1>9. QED
  BY <1>2, <1>3, <1>4, <1>6, <1>7, <1>8, ScanUndisturbed

\* Between two queries about the file in hand, its path and the todo list stay.
LEMMA RemainingKept ==
  ASSUME TypeOK, Undisturbed, NEW s \in Scans, UNCHANGED <<disk, row>>,
         quiet' \subseteq quiet, todo'[s] = todo[s],
         Before(s) => Before(s)' /\ file'[s].path = file[s].path
  PROVE  Remaining(s)'
<1>1. \A p \in Paths : Covered(p)' <=> Covered(p)
  BY DEF Covered
<1>2. QED
  BY <1>1 DEF Undisturbed, Remaining

\* The book to write stays the one to write.
LEMMA TargetKept ==
  ASSUME TypeOK, Undisturbed, NEW s \in Scans, UNCHANGED <<disk, row>>,
         series \subseteq series', quiet' \subseteq quiet, Before(s)' => Before(s),
         s \in quiet /\ Before(s) =>
           /\ file'[s].path = file[s].path /\ file'[s].book = file[s].book
           /\ at'[s] = "match" => file'[s].book = None
           /\ at'[s] = "store" => Folder[file[s].path] \in series'
           /\ at'[s] \in {"open", "series", "store"} /\ file[s].book = None =>
                ~\E c \in Books : row[c] # None /\ row[c].hash = file'[s].hash
                                  /\ disk[row[c].path] = None
  PROVE  Target(s)'
<1>1. CASE s \in quiet' /\ Before(s)'
  <2>1. Target(s) /\ s \in quiet /\ Before(s)
    BY <1>1 DEF Undisturbed
  <2>2. Owners(file[s].path)' = Owners(file[s].path)
    BY <2>1 DEF Owners
  <2>3. QED
    BY <2>1, <2>2 DEF Target
<1>2. CASE ~(s \in quiet' /\ Before(s)')
  BY <1>2 DEF Target
<1>3. QED
  BY <1>1, <1>2

\* The inductive step of Undisturbed, action by action.
LEMMA StepKeepsUndisturbed ==
  ASSUME CatalogAssumption, NoneIsApart, TypeOK, Base, Undisturbed, [Next]_vars
  PROVE  Undisturbed'
<1>1. ASSUME NEW p \in Paths, NEW v \in Versions, Write(p, v) PROVE Undisturbed'
  BY <1>1, Disturbed DEF Write
<1>2. ASSUME NEW p \in Paths, Remove(p) PROVE Undisturbed'
  BY <1>2, Disturbed DEF Remove
<1>3. ASSUME NEW p \in Paths, NEW q \in Paths, NEW v \in Versions, Move(p, q, v)
      PROVE  Undisturbed'
  BY <1>3, Disturbed DEF Move
<1>4. ASSUME NEW d \in Folders, DeleteSeries(d) PROVE Undisturbed'
  BY <1>4, Disturbed DEF DeleteSeries
<1>5. ASSUME NEW s \in Scans, NEW p \in Paths, Skip(s, p) PROVE Undisturbed'
  <2>1. /\ at[s] = "ready" /\ p \in todo[s] /\ todo' = [todo EXCEPT ![s] = @ \ {p}]
        /\ disk[p] = None \/ \E b \in Owners(p) : Unchanged(s, b, p)
        /\ UNCHANGED <<disk, row, series, at, file, quiet, fresh>>
    BY <1>5 DEF Skip, NextFile, diskVars, catalogVars, history
  <2>2. /\ \A r \in Scans : r # s => todo'[r] = todo[r]
        /\ todo'[s] = todo[s] \ {p} /\ Active(s) /\ ~Before(s)
    BY <2>1 DEF TypeOK, Active, Before
  <2>3. Active(s)' /\ ~Before(s)'
    BY <2>1, <2>2 DEF Active, Before
  <2>4. \A q \in Paths : Covered(q)' <=> Covered(q)
    BY <2>1 DEF Covered
  <2>5. disk[p] # None => Covered(p)
    <3>1. SUFFICES ASSUME NEW b \in Owners(p), Unchanged(s, b, p) PROVE Covered(p)
      BY <2>1
    <3>2. /\ b \in Books /\ row[b] # None /\ row[b].path = p
          /\ ~row[b].corrupt /\ row[b].seen = disk[p]
      BY <3>1 DEF Owners, Unchanged
    <3>3. Recorded(b)
      BY <3>2 DEF Base
    <3>4. QED
      BY <3>2, <3>3 DEF Recorded, Covered
  <2>6. Remaining(s)'
    BY <2>1, <2>2, <2>3, <2>4, <2>5 DEF Undisturbed, Remaining
  <2>7. Target(s)' /\ Faithful(s)'
    BY <2>3 DEF Target, Faithful
  <2>8. QED
    BY <2>1, <2>2, <2>3, <2>6, <2>7, ScanUndisturbed
<1>6. ASSUME NEW s \in Scans, Hash(s) PROVE Undisturbed'
  <2>1. PICK to : at' = [at EXCEPT ![s] = to] /\ to = IF file[s].book = None THEN "match" ELSE "open"
    BY <1>6 DEF Hash, Goto
  <2>2. at[s] = "hash" /\ UNCHANGED <<disk, row, series, todo, quiet, fresh>>
    BY <1>6 DEF Hash, Goto, diskVars, catalogVars, history
  <2>3. file[s] \in Files /\ Active(s) /\ Before(s)
    BY <2>2, HasFile DEF Processing, Active, Before
  <2>4. PICK h : h = Bytes[disk[file[s].path]]
    OBVIOUS
  <2>5. file' = [file EXCEPT ![s] = [file[s] EXCEPT !.hash = h]]
    BY <1>6, <2>4 DEF Hash, TypeOK
  <2>6. \A r \in Scans : r # s => at'[r] = at[r] /\ file'[r] = file[r]
    BY <2>1, <2>5 DEF TypeOK
  <2>7. at'[s] = to /\ file'[s] = [file[s] EXCEPT !.hash = h]
    BY <2>1, <2>5 DEF TypeOK
  <2>8. /\ file'[s].path = file[s].path /\ file'[s].seen = file[s].seen /\ file'[s].hash = h
        /\ file'[s].bad = file[s].bad /\ file'[s].book = file[s].book
    BY <2>3, <2>7 DEF Files
  <2>9. Active(s)' /\ Before(s)'
    BY <2>1, <2>7 DEF Active, Before, Processing
  <2>10. Faithful(s)'
    BY <2>1, <2>2, <2>3, <2>4, <2>7, <2>8 DEF Undisturbed, Faithful
  <2>11. Remaining(s)'
    BY <2>2, <2>8, <2>9, RemainingKept
  <2>12. IF file[s].book = None THEN at'[s] = "match" ELSE at'[s] = "open"
    BY <2>1, <2>7
  <2>13. Target(s)'
    <3>1. /\ at'[s] = "match" => file'[s].book = None
          /\ at'[s] # "store"
          /\ ~(at'[s] \in {"open", "series", "store"} /\ file[s].book = None)
      BY <2>8, <2>12
    <3>2. QED
      BY <2>2, <2>3, <2>8, <3>1, TargetKept
  <2>14. QED
    BY <2>2, <2>3, <2>6, <2>9, <2>10, <2>11, <2>13, ScanUndisturbed
<1>7. ASSUME NEW s \in Scans, HashFails(s) \/ OpenFails(s) PROVE Undisturbed'
  <2>1. CASE Disturb
    BY <2>1, Disturbed
  <2>2. CASE ~Disturb
    <3>1. /\ at[s] \in {"hash", "open"} /\ at' = [at EXCEPT ![s] = "series"]
          /\ UNCHANGED <<disk, row, series, todo, quiet, fresh>>
          /\ IF at[s] = "hash" THEN disk[file[s].path] = None ELSE ~Readable(file[s].path)
      BY <1>7, <2>2 DEF HashFails, OpenFails, Goto, Unread, diskVars, catalogVars
    <3>2. file[s] \in Files /\ Active(s) /\ Before(s)
      BY <3>1, HasFile DEF Processing, Active, Before
    <3>3. file' = [file EXCEPT ![s] = [file[s] EXCEPT !.bad = TRUE]]
      BY <1>7 DEF HashFails, OpenFails, TypeOK
    <3>4. \A r \in Scans : r # s => at'[r] = at[r] /\ file'[r] = file[r]
      BY <3>1, <3>3 DEF TypeOK
    <3>5. at'[s] = "series" /\ file'[s] = [file[s] EXCEPT !.bad = TRUE]
      BY <3>1, <3>3 DEF TypeOK
    <3>6. /\ file'[s].path = file[s].path /\ file'[s].seen = file[s].seen
          /\ file'[s].hash = file[s].hash /\ file'[s].bad = TRUE /\ file'[s].book = file[s].book
      BY <3>2, <3>5 DEF Files
    <3>7. Active(s)' /\ Before(s)'
      BY <3>5 DEF Active, Before, Processing
    <3>8. ASSUME fresh \/ s \in quiet
          PROVE  /\ at[s] = "open" /\ Bytes[file[s].seen] \notin Openable
                 /\ disk[file[s].path] = file[s].seen /\ file[s].hash = Bytes[file[s].seen]
      <4>1. disk[file[s].path] = file[s].seen /\ (at[s] # "hash" => file[s].hash = Bytes[file[s].seen])
        BY <3>2, <3>8 DEF Undisturbed, Faithful
      <4>2. file[s].seen # None
        BY <3>2 DEF Files, CatalogAssumption
      <4>3. QED
        BY <3>1, <4>1, <4>2 DEF Readable
    <3>9. Faithful(s)'
      BY <3>1, <3>5, <3>6, <3>8 DEF Faithful
    <3>10. Remaining(s)'
      BY <3>1, <3>6, <3>7, RemainingKept
    <3>11. Target(s)'
      <4>1. s \in quiet => at[s] = "open" /\ Target(s)
        BY <3>8 DEF Undisturbed
      <4>2. s \in quiet /\ file[s].book = None =>
              ~\E c \in Books : row[c] # None /\ row[c].hash = file'[s].hash
                                /\ disk[row[c].path] = None
        BY <3>2, <3>6, <4>1 DEF Target
      <4>3. QED
        BY <3>1, <3>2, <3>5, <3>6, <4>2, TargetKept
    <3>12. QED
      BY <3>1, <3>2, <3>4, <3>7, <3>9, <3>10, <3>11, ScanUndisturbed
  <2>3. QED
    BY <2>1, <2>2
<1>8. ASSUME NEW s \in Scans, Reconcile(s) PROVE Undisturbed'
  <2>1. /\ at[s] = "match" /\ at' = [at EXCEPT ![s] = "open"]
        /\ UNCHANGED <<disk, row, series, todo, quiet, fresh>>
    BY <1>8 DEF Reconcile, Goto, diskVars, catalogVars, history
  <2>2. PICK f : /\ file' = [file EXCEPT ![s] = f]
                 /\ f.path = file[s].path /\ f.seen = file[s].seen
                 /\ f.hash = file[s].hash /\ f.bad = file[s].bad
                 /\ \/ f.book = file[s].book /\ Moved(file[s]) = {}
                    \/ f.book \in Moved(file[s]) /\ f.book # None
    BY <1>8, ReconcileTakes
  <2>3. file[s] \in Files /\ Active(s) /\ Before(s)
    BY <2>1, HasFile DEF Processing, Active, Before
  <2>4. \A r \in Scans : r # s => at'[r] = at[r] /\ file'[r] = file[r]
    BY <2>1, <2>2 DEF TypeOK
  <2>5. at'[s] = "open" /\ file'[s] = f
    BY <2>1, <2>2 DEF TypeOK
  <2>6. Active(s)' /\ Before(s)'
    BY <2>5 DEF Active, Before, Processing
  <2>7. Faithful(s)'
    BY <2>1, <2>2, <2>3, <2>5 DEF Undisturbed, Faithful
  <2>8. Remaining(s)'
    BY <2>1, <2>2, <2>5, <2>6, RemainingKept
  <2>9. ASSUME s \in quiet PROVE Target(s)'
    <3>1. file[s].book = None /\ Owners(file[s].path) = {}
      BY <2>1, <2>3, <2>9 DEF Undisturbed, Target
    <3>2. Owners(f.path)' = {}
      BY <2>1, <2>2, <3>1 DEF Owners
    <3>3. f.path \in Paths /\ disk[f.path] # None
      <4>1. disk[file[s].path] = file[s].seen
        BY <2>3, <2>9 DEF Undisturbed, Faithful
      <4>2. QED
        BY <2>2, <2>3, <4>1 DEF Files, CatalogAssumption
    <3>4. CASE f.book = None
      <4>1. Moved(file[s]) = {}
        BY <2>2, <3>4
      <4>2. ASSUME NEW c \in Books, row[c] # None, row[c].hash = f.hash, disk[row[c].path] = None
            PROVE  FALSE
        BY <2>2, <3>3, <4>1, <4>2 DEF Moved
      <4>3. QED
        BY <2>1, <2>2, <2>5, <3>1, <3>4, <4>2 DEF Target, Owners
    <3>5. CASE f.book # None
      <4>1. f.book \in Moved(file[s])
        BY <2>2, <3>1, <3>5
      <4>2. row[f.book] # None /\ disk[row[f.book].path] = None
        BY <4>1 DEF Moved
      <4>3. QED
        BY <2>1, <2>2, <2>5, <3>1, <3>5, <4>2 DEF Target, Owners
    <3>6. QED
      BY <3>4, <3>5
  <2>10. QED
    BY <2>1, <2>3, <2>4, <2>6, <2>7, <2>8, <2>9, ScanUndisturbed
<1>9. ASSUME NEW s \in Scans, Open(s) PROVE Undisturbed'
  <2>1. /\ at[s] = "open" /\ at' = [at EXCEPT ![s] = "series"] /\ Readable(file[s].path)
        /\ UNCHANGED <<disk, row, series, todo, quiet, fresh>>
    BY <1>9 DEF Open, Goto, diskVars, catalogVars, history
  <2>2. file[s] \in Files /\ Active(s) /\ Before(s)
    BY <2>1, HasFile DEF Processing, Active, Before
  <2>3. PICK c : c = Bytes[disk[file[s].path]]
    OBVIOUS
  <2>4. file' = [file EXCEPT ![s] = [file[s] EXCEPT !.inside = c]]
    BY <1>9, <2>3 DEF Open, TypeOK
  <2>5. \A r \in Scans : r # s => at'[r] = at[r] /\ file'[r] = file[r]
    BY <2>1, <2>4 DEF TypeOK
  <2>6. at'[s] = "series" /\ file'[s] = [file[s] EXCEPT !.inside = c]
    BY <2>1, <2>4 DEF TypeOK
  <2>7. /\ file'[s].path = file[s].path /\ file'[s].seen = file[s].seen
        /\ file'[s].hash = file[s].hash /\ file'[s].bad = file[s].bad
        /\ file'[s].book = file[s].book
    BY <2>2, <2>6 DEF Files
  <2>8. Active(s)' /\ Before(s)'
    BY <2>6 DEF Active, Before, Processing
  <2>9. Faithful(s)'
    BY <2>1, <2>2, <2>6, <2>7 DEF Undisturbed, Faithful, Readable
  <2>10. Remaining(s)'
    BY <2>1, <2>7, <2>8, RemainingKept
  <2>11. s \in quiet /\ file[s].book = None =>
           ~\E d \in Books : row[d] # None /\ row[d].hash = file'[s].hash
                             /\ disk[row[d].path] = None
    BY <2>1, <2>2, <2>7 DEF Undisturbed, Target
  <2>12. Target(s)'
    BY <2>1, <2>2, <2>6, <2>7, <2>11, TargetKept
  <2>13. QED
    BY <2>1, <2>2, <2>5, <2>8, <2>9, <2>10, <2>12, ScanUndisturbed
<1>10. ASSUME NEW s \in Scans, ResolveSeries(s) PROVE Undisturbed'
  <2>1. /\ at[s] = "series" /\ at' = [at EXCEPT ![s] = "store"]
        /\ series' = series \cup {Folder[file[s].path]}
        /\ UNCHANGED <<disk, row, todo, file, quiet, fresh>>
    BY <1>10 DEF ResolveSeries, Goto, diskVars, history
  <2>2. at'[s] = "store" /\ \A r \in Scans : r # s => at'[r] = at[r]
    BY <2>1 DEF TypeOK
  <2>3. Active(s) /\ Before(s) /\ Active(s)' /\ Before(s)'
    BY <2>1, <2>2 DEF Active, Before, Processing
  <2>4. Faithful(s)'
    BY <2>1, <2>2, <2>3 DEF Undisturbed, Faithful
  <2>5. Remaining(s)'
    BY <2>1, <2>3, RemainingKept
  <2>6. s \in quiet /\ file[s].book = None =>
          ~\E d \in Books : row[d] # None /\ row[d].hash = file'[s].hash
                            /\ disk[row[d].path] = None
    BY <2>1, <2>3 DEF Undisturbed, Target
  <2>7. Target(s)'
    BY <2>1, <2>2, <2>3, <2>6, TargetKept
  <2>8. QED
    BY <2>1, <2>2, <2>3, <2>4, <2>5, <2>7, ScanUndisturbed
<1>11. ASSUME NEW s \in Scans, ReconcileFails(s) PROVE Undisturbed'
  <2>1. /\ at[s] = "match" /\ at' = [at EXCEPT ![s] = "open"] /\ quiet' = quiet \ {s}
        /\ UNCHANGED <<disk, row, series, todo, file, fresh>>
    BY <1>11 DEF ReconcileFails, Goto, diskVars, catalogVars
  <2>2. at'[s] = "open" /\ \A r \in Scans : r # s => at'[r] = at[r]
    BY <2>1 DEF TypeOK
  <2>3. Active(s) /\ Before(s)
    BY <2>1 DEF Active, Before, Processing
  <2>4. Faithful(s)'
    BY <2>1, <2>2, <2>3 DEF Undisturbed, Faithful
  <2>5. QED
    BY <2>1, <2>2, <2>3, <2>4, ScanUndisturbed
<1>12. ASSUME NEW s \in Scans,
              StoreFails(s) \/ Link(s) \/ LinkFails(s) \/ ReplacePages(s) \/ FileFails(s) \/ Stop(s)
       PROVE Undisturbed'
  <2>1. /\ UNCHANGED <<disk, row, series, fresh>> /\ quiet' \subseteq quiet
        /\ \A r \in Scans : r # s => at'[r] = at[r] /\ file'[r] = file[r] /\ todo'[r] = todo[r]
    BY <1>12 DEF StoreFails, Link, LinkFails, ReplacePages, FileFails, Stop, Goto, Drop, TypeOK,
       diskVars, catalogVars, history
  <2>2. at'[s] \in {"pages", "ready", "over"}
    BY <1>12 DEF StoreFails, Link, LinkFails, ReplacePages, FileFails, Stop, Goto, Drop, TypeOK
  <2>3. Active(s) /\ ~Before(s)'
    BY <1>12, <2>2 DEF StoreFails, Link, LinkFails, ReplacePages, FileFails, Stop, Goto,
       Active, Before, Processing
  <2>4. s \in quiet' => /\ StoreFails(s) \/ Link(s) \/ ReplacePages(s)
                        /\ todo'[s] = todo[s] /\ at'[s] \in {"pages", "ready"}
    BY <1>12 DEF StoreFails, Link, LinkFails, ReplacePages, FileFails, Stop, Goto, Drop, TypeOK
  <2>5. ~(s \in quiet /\ StoreFails(s))
    <3>1. SUFFICES ASSUME s \in quiet, StoreFails(s) PROVE FALSE
      OBVIOUS
    <3>2. at[s] = "store" /\ ~Storable(file[s], file[s].book)
      BY <3>1 DEF StoreFails
    <3>3. file[s] \in Files /\ Target(s) /\ Before(s)
      BY <3>2, HasFile DEF Processing, Before, Undisturbed
    <3>4. Folder[file[s].path] \in series
      BY <3>1, <3>2, <3>3 DEF Target
    <3>5. Owners(file[s].path) \subseteq {file[s].book}
      BY <3>1, <3>3 DEF Target, Owners, Base, OneRowPerPath, Files
    <3>6. QED
      BY <3>2, <3>4, <3>5 DEF Storable
  <2>6. s \in quiet' => Remaining(s)' /\ Active(s)'
    <3>1. SUFFICES ASSUME s \in quiet' PROVE Remaining(s)' /\ Active(s)'
      OBVIOUS
    <3>2. Link(s) \/ ReplacePages(s)
      BY <2>1, <2>4, <2>5, <3>1
    <3>3. ~Before(s)
      BY <3>2 DEF Link, ReplacePages, Goto, Before
    <3>4. Active(s)'
      BY <2>4, <3>1 DEF Active, Processing
    <3>5. QED
      BY <2>1, <2>4, <3>1, <3>3, <3>4, RemainingKept
  <2>7. Target(s)' /\ Faithful(s)'
    BY <2>3 DEF Target, Faithful
  <2>8. QED
    BY <2>1, <2>3, <2>6, <2>7, ScanUndisturbed
<1>13. ASSUME NEW b \in Books, Edit(b) \/ Match(b) PROVE Undisturbed'
  <2>1. UNCHANGED <<disk, at, file, todo, series, quiet, fresh>>
    BY <1>13 DEF Edit, Match, diskVars, scanVars, history
  <2>2. QED
    BY <1>13, <2>1, MarksOnly, MarksUndisturbed
<1>14. CASE UNCHANGED vars
  <2>1. UNCHANGED <<disk, row, at, file, todo, series, quiet, fresh>>
    BY <1>14 DEF vars, diskVars, catalogVars, scanVars, history
  <2>2. QED
    BY <2>1, MarksUndisturbed
<1>15. QED
  BY <1>1, <1>2, <1>3, <1>4, <1>5, <1>6, <1>7, <1>8, <1>9, <1>10, <1>11, <1>12, <1>13, <1>14,
     BeginUndisturbed, LookUndisturbed, StoreUndisturbed, FinishUndisturbed DEF Next, ScanStep

\* At the start nothing is known, on disk or in the catalog.
LEMMA InitUndisturbed ==
  ASSUME CatalogAssumption, Init PROVE Base /\ Undisturbed
BY DEF CatalogAssumption, Init, Base, Learned, Recorded, OneRowPerPath, Undisturbed, QuietAlone,
   Faithful, Remaining, Target, CatalogMatchesDisk, Before

\* However many scans overlap, are interrupted or fail: no path has two rows, and a readable row
\* of a version that is still at its path has the hash of what is there, which opens.
THEOREM RowsAreTrue ==
  ASSUME CatalogAssumption, NoneIsApart
  PROVE  Spec => [](OneRowPerPath /\ \A b \in Books : Recorded(b))
<1>1. Init => Base
  BY InitUndisturbed
<1>2. TypeOK /\ Base /\ [Next]_vars => Base'
  BY StepKeepsBase
<1>3. Base => OneRowPerPath /\ \A b \in Books : Recorded(b)
  BY DEF Base
<1>4. QED
  BY <1>1, <1>2, <1>3, TypeCorrect, PTL DEF Spec

\* Once a scan has run undisturbed, the catalog describes the disk until a file or a
\* series is changed, for any library and however many scans run and overlap.
THEOREM CatalogIsCurrent ==
  ASSUME CatalogAssumption, NoneIsApart
  PROVE  Spec => []CatalogMatchesDisk
<1>1. Init => Base /\ Undisturbed
  BY InitUndisturbed
<1>2. TypeOK /\ Base /\ Undisturbed /\ [Next]_vars => Base' /\ Undisturbed'
  BY StepKeepsBase, StepKeepsUndisturbed
<1>3. Undisturbed => CatalogMatchesDisk
  BY DEF Undisturbed
<1>4. QED
  BY <1>1, <1>2, <1>3, TypeCorrect, PTL DEF Spec

\* An undisturbed scan makes a new book only of a content that no book without a file
\* has, for any library and however many scans run and overlap.
THEOREM MovesKeepBooks ==
  ASSUME CatalogAssumption, NoneIsApart
  PROVE  Spec => MovedFilesKeepTheirBook
<1>1. Init => Base /\ Undisturbed
  BY InitUndisturbed
<1>2. TypeOK /\ Base /\ Undisturbed /\ [Next]_vars => Base' /\ Undisturbed'
  BY StepKeepsBase, StepKeepsUndisturbed
<1>3. ASSUME CatalogAssumption, TypeOK, Undisturbed, [Next]_vars, NEW s \in quiet, NEW b \in Books,
             at[s] = "store", at'[s] # "store", row[b] = None, row'[b] # None
      PROVE  ~\E c \in Books : row[c] # None /\ row[c].hash = row'[b].hash
                               /\ disk[row[c].path] = None
  <2>0. s \in Scans /\ row' # row /\ at' # at
    BY <1>3 DEF TypeOK
  <2>1. PICK r \in Scans : Store(r)
    <3>1. /\ \A p \in Paths, v \in Versions : Write(p, v) => row' = row
          /\ \A p \in Paths : Remove(p) => row' = row
          /\ \A p, q \in Paths, v \in Versions : Move(p, q, v) => row' = row
      BY DEF Write, Remove, Move, catalogVars
    <3>2. ASSUME NEW r \in Scans, NEW p \in Paths, Skip(r, p) \/ Look(r, p) \/ LookFails(r, p)
          PROVE  row' = row
      BY <3>2 DEF Skip, Look, LookFails, Take, catalogVars
    <3>3. ASSUME NEW r \in Scans,
                 \/ Begin(r) \/ Hash(r) \/ HashFails(r) \/ Reconcile(r) \/ ReconcileFails(r)
                 \/ Open(r) \/ OpenFails(r) \/ ResolveSeries(r)
          PROVE  row' = row
      BY <3>3 DEF Begin, Hash, HashFails, Reconcile, ReconcileFails, Open, OpenFails,
         ResolveSeries, catalogVars
    <3>4. ASSUME NEW r \in Scans,
                 \/ StoreFails(r) \/ Link(r) \/ LinkFails(r) \/ ReplacePages(r)
                 \/ FileFails(r) \/ Finish(r) \/ Stop(r)
          PROVE  row' = row
      BY <3>4 DEF StoreFails, Link, LinkFails, ReplacePages, FileFails, Finish, Stop, catalogVars
    <3>5. /\ \A c \in Books : Edit(c) \/ Match(c) => at' = at
          /\ \A d \in Folders : DeleteSeries(d) => at' = at
      BY DEF Edit, Match, DeleteSeries, scanVars
    <3>6. ~UNCHANGED vars
      BY <2>0 DEF vars, scanVars
    <3>7. Next
      BY <1>3, <3>6
    <3>8. QED
      BY <2>0, <3>1, <3>2, <3>3, <3>4, <3>5, <3>7 DEF Next, ScanStep
  <2>2. PICK c \in Books :
          /\ IF file[r].book = None THEN row[c] = None ELSE c = file[r].book
          /\ Storable(file[r], c)
          /\ row' = [row EXCEPT ![c] = Built(file[r], c)]
          /\ \E to \in {"ready", "link", "pages"} : \E f :
               /\ at' = [at EXCEPT ![r] = to] /\ file' = [file EXCEPT ![r] = f]
               /\ IF to = "ready" THEN f = None
                  ELSE f = [file[r] EXCEPT !.book = c] /\ ~file[r].bad
    BY <1>3, <2>1, StoreWrites
  <2>3. r = s /\ c = b
    BY <1>3, <2>0, <2>2 DEF TypeOK
  <2>4. Target(s) /\ Before(s)
    BY <1>3, <2>0 DEF Undisturbed, Before
  <2>5. file[s].book = None
    BY <1>3, <2>2, <2>3, <2>4 DEF Target
  <2>6. row'[b].hash = file[s].hash
    <3>1. row'[b] = Built(file[s], b)
      BY <1>3, <2>2, <2>3 DEF TypeOK
    <3>2. QED
      BY <3>1 DEF Built
  <2>7. QED
    BY <1>3, <2>4, <2>5, <2>6 DEF Target
<1>4. TypeOK /\ Undisturbed /\ [Next]_vars =>
        [\A s \in quiet, b \in Books :
           at[s] = "store" /\ at'[s] # "store" /\ row[b] = None /\ row'[b] # None =>
             ~\E c \in Books : row[c] # None /\ row[c].hash = row'[b].hash
                               /\ disk[row[c].path] = None]_vars
  BY <1>3
<1>5. QED
  BY <1>1, <1>2, <1>4, TypeCorrect, PTL DEF Spec, MovedFilesKeepTheirBook
=============================================================================
