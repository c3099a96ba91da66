------------------------------- MODULE Catalog -------------------------------
(***************************************************************************)
(* The scanner (internal/scanner/scanner.go) and the rows it keeps: a scan *)
(* walks a library, and for each file it stats, reads the stored row,      *)
(* hashes, looks for a moved book, opens the archive and upserts the WHOLE *)
(* row it read earlier, while files change on disk, a user edits, a        *)
(* provider match is applied and a series is deleted.  Every database call *)
(* is one step and nothing is locked between two of them.                  *)
(*                                                                         *)
(* A version stands for what change detection compares, (size, mtime), and *)
(* Bytes gives the content behind it.  A path never shows one version      *)
(* twice: a file that is written, copied or moved to a path gets a version *)
(* of its own there.  A hash stands for the content it is computed from.   *)
(***************************************************************************)

EXTENDS Naturals

CONSTANTS
  Paths,      \* numbered in the order a walk meets them
  Folders,
  Folder,     \* path -> the series folder it lies in
  Versions, Contents,
  Bytes,      \* version -> content
  Openable,   \* contents that are whole archives
  Books, Scans,
  Full,       \* scans that were asked to re-read unchanged files
  None,
  Overlap,    \* may two scans of the library run at once?
  Events      \* of "stop", "error", "edit", "match", "delete": what may happen

ASSUME CatalogAssumption ==
  /\ Paths \subseteq Nat
  /\ Folder \in [Paths -> Folders]
  /\ Bytes \in [Versions -> Contents]
  /\ Openable \subseteq Contents /\ Full \subseteq Scans
  /\ None \notin Paths \cup Versions \cup Contents \cup Books
  /\ Overlap \in BOOLEAN

VARIABLES
  disk,      \* path -> version of the file there, or None
  unused,    \* versions no file has had yet
  row,       \* book -> its row, or None
  pages,     \* book -> content its page rows describe, or None
  series,    \* folders that have a series row
  stale,     \* contents some reading-list placeholder waits for
  at,        \* scan -> how far it is
  todo,      \* scan -> collected paths it has still to process
  file,      \* scan -> what it knows of the file in hand, or None
  quiet,     \* history: active scans that nothing has disturbed since they began
  fresh,     \* history: has an undisturbed scan ended since the last change?
  torn       \* history: books whose pages a scan did not come to write

diskVars == <<disk, unused>>
catalogVars == <<row, pages, series, stale>>
scanVars == <<at, todo, file>>
history == <<quiet, fresh, torn>>
vars == <<diskVars, catalogVars, scanVars, history>>

\* Whose the metadata of a row is.  kept: its state is "matched" or "locked", else it
\* is "none" or "sidecar"; user: it holds values a user typed; locks: the
\* locked_fields column names them.
Marks == [kept : BOOLEAN, user : BOOLEAN, locks : BOOLEAN]

Rows == [path : Paths, seen : Versions, hash : Contents \cup {None}, corrupt : BOOLEAN,
         marks : Marks]

Files == [path : Paths, seen : Versions, hash : Contents \cup {None}, bad : BOOLEAN,
          inside : Contents \cup {None}, book : Books \cup {None}, old : Marks \cup {None}]

ASSUME NoneIsApart == None \notin Rows /\ None \notin Files /\ None \notin Marks

Processing == {"hash", "match", "open", "series", "store", "link", "pages"}
Active(s) == at[s] \in Processing \cup {"ready"}

TypeOK ==
  /\ disk \in [Paths -> Versions \cup {None}] /\ unused \subseteq Versions
  /\ row \in [Books -> Rows \cup {None}]
  /\ pages \in [Books -> Contents \cup {None}]
  /\ series \subseteq Folders /\ stale \subseteq Contents
  /\ at \in [Scans -> {"idle", "ready", "over"} \cup Processing]
  /\ todo \in [Scans -> SUBSET Paths]
  /\ file \in [Scans -> Files \cup {None}]
  /\ \A s \in Scans : at[s] \in Processing <=> file[s] # None
  /\ \A s \in Scans : at[s] \in {"link", "pages"} => file[s].book # None
  /\ quiet \subseteq Scans /\ fresh \in BOOLEAN /\ torn \subseteq Books

Init ==
  /\ disk = [p \in Paths |-> None] /\ unused = Versions
  /\ row = [b \in Books |-> None] /\ pages = [b \in Books |-> None]
  /\ series = {} /\ stale = {}
  /\ at = [s \in Scans |-> "idle"] /\ todo = [s \in Scans |-> {}]
  /\ file = [s \in Scans |-> None]
  /\ quiet = {} /\ fresh = FALSE /\ torn = {}

-----------------------------------------------------------------------------
(* The files.                                                              *)

Disturb == quiet' = {} /\ fresh' = FALSE

Write(p, v) ==
  /\ v \in unused /\ unused' = unused \ {v}
  /\ disk' = [disk EXCEPT ![p] = v]
  /\ Disturb
  /\ UNCHANGED <<catalogVars, scanVars, torn>>

Remove(p) ==
  /\ disk[p] # None
  /\ disk' = [disk EXCEPT ![p] = None]
  /\ Disturb
  /\ UNCHANGED <<unused, catalogVars, scanVars, torn>>

Move(p, q, v) ==
  /\ disk[p] # None /\ disk[q] = None
  /\ v \in unused /\ Bytes[v] = Bytes[disk[p]]
  /\ unused' = unused \ {v}
  /\ disk' = [disk EXCEPT ![p] = None, ![q] = v]
  /\ Disturb
  /\ UNCHANGED <<catalogVars, scanVars, torn>>

-----------------------------------------------------------------------------
(* A scan.                                                                 *)

Owners(p) == {b \in Books : row[b] # None /\ row[b].path = p}

\* collect: a file that appears behind the walk is missed, one that is gone when its
\* turn comes fails at the stat; so one instant stands for the whole walk.
Begin(s) ==
  /\ at[s] = "idle"
  /\ Overlap \/ \A r \in Scans : ~Active(r)
  /\ at' = [at EXCEPT ![s] = "ready"]
  /\ todo' = [todo EXCEPT ![s] = {p \in Paths : disk[p] # None}]
  /\ quiet' = IF \A r \in Scans : ~Active(r) THEN {s} ELSE {}
  /\ UNCHANGED <<diskVars, catalogVars, file, fresh, torn>>

NextFile(s, p) ==
  /\ at[s] = "ready"
  /\ p \in todo[s] /\ \A q \in todo[s] : p <= q
  /\ todo' = [todo EXCEPT ![s] = @ \ {p}]

Take(s, f) ==
  /\ at' = [at EXCEPT ![s] = "hash"]
  /\ file' = [file EXCEPT ![s] = f]
  /\ UNCHANGED <<diskVars, catalogVars, fresh, torn>>

Drop(s) ==
  /\ at' = [at EXCEPT ![s] = "ready"]
  /\ file' = [file EXCEPT ![s] = None]

Looked(p, b) ==
  [path |-> p, seen |-> disk[p], hash |-> None, bad |-> FALSE, inside |-> None,
   book |-> b, old |-> IF b = None THEN None ELSE row[b].marks]

UnchangedByPath(s, b, p) ==  \* mutation: a known path is an unchanged file
  s \notin Full /\ ~row[b].corrupt

Unchanged(s, b, p) == s \notin Full /\ ~row[b].corrupt /\ row[b].seen = disk[p]

\* The file is gone, or what is stored of it is up to date.
Skip(s, p) ==
  /\ NextFile(s, p)
  /\ disk[p] = None \/ \E b \in Owners(p) : Unchanged(s, b, p)
  /\ UNCHANGED <<diskVars, catalogVars, at, file, history>>

Look(s, p) ==
  /\ NextFile(s, p)
  /\ disk[p] # None
  /\ \/ Owners(p) = {} /\ Take(s, Looked(p, None))
     \/ \E b \in Owners(p) : ~Unchanged(s, b, p) /\ Take(s, Looked(p, b))
  /\ UNCHANGED quiet

\* A lookup that fails reads as "no such row".
LookFails(s, p) ==
  /\ "error" \in Events
  /\ NextFile(s, p)
  /\ disk[p] # None /\ Owners(p) # {}
  /\ Take(s, Looked(p, None))
  /\ quiet' = quiet \ {s}

Goto(s, from, to) == at[s] = from /\ at' = [at EXCEPT ![s] = to]

Hash(s) ==
  /\ Goto(s, "hash", IF file[s].book = None THEN "match" ELSE "open")
  /\ disk[file[s].path] # None
  /\ file' = [file EXCEPT ![s].hash = Bytes[disk[file[s].path]]]
  /\ UNCHANGED <<diskVars, catalogVars, todo, history>>

\* Reading a file fails: it is no longer there, or no archive, or the disk errs.
Unread(reason) ==
  \/ reason /\ UNCHANGED <<quiet, fresh>>
  \/ "error" \in Events /\ Disturb

HashFails(s) ==
  /\ Goto(s, "hash", "series")
  /\ Unread(disk[file[s].path] = None)
  /\ file' = [file EXCEPT ![s].bad = TRUE]
  /\ UNCHANGED <<diskVars, catalogVars, todo, torn>>

MovedByName(f) == {}  \* mutation: a moved file is a new book

\* Books of the same content, recorded elsewhere, whose file is gone.
Moved(f) ==
  {b \in Books : row[b] # None /\ row[b].hash = f.hash
                 /\ row[b].path # f.path /\ disk[row[b].path] = None}

Reconcile(s) ==
  /\ Goto(s, "match", "open")
  /\ \/ Moved(file[s]) = {} /\ UNCHANGED file
     \/ \E b \in Moved(file[s]) :
          file' = [file EXCEPT ![s].book = b, ![s].old = row[b].marks]
  /\ UNCHANGED <<diskVars, catalogVars, todo, history>>

ReconcileFails(s) ==
  /\ "error" \in Events
  /\ Goto(s, "match", "open")
  /\ quiet' = quiet \ {s}
  /\ UNCHANGED <<diskVars, catalogVars, todo, file, fresh, torn>>

Readable(p) == disk[p] # None /\ Bytes[disk[p]] \in Openable

OpenStats(s) ==  \* mutation: size and mtime are read last, beside a hash read before
  LET p == file[s].path IN
  /\ Goto(s, "open", "series")
  /\ Readable(p)
  /\ file' = [file EXCEPT ![s].inside = Bytes[disk[p]], ![s].seen = disk[p]]
  /\ UNCHANGED <<diskVars, catalogVars, todo, history>>

Open(s) ==
  LET p == file[s].path IN
  /\ Goto(s, "open", "series")
  /\ Readable(p)
  /\ file' = [file EXCEPT ![s].inside = Bytes[disk[p]]]
  /\ UNCHANGED <<diskVars, catalogVars, todo, history>>

OpenFails(s) ==
  /\ Goto(s, "open", "series")
  /\ Unread(~Readable(file[s].path))
  /\ file' = [file EXCEPT ![s].bad = TRUE]
  /\ UNCHANGED <<diskVars, catalogVars, todo, torn>>

ResolveSeries(s) ==
  /\ Goto(s, "series", "store")
  /\ series' = series \cup {Folder[file[s].path]}
  /\ UNCHANGED <<diskVars, row, pages, stale, todo, file, history>>

Forget(f) == FALSE  \* mutation: metadata is always derived from the file again

\* buildBook and persistCorrupt: a matched or locked book keeps its metadata, unless
\* the file could not be read.
Kept(f) == ~f.bad /\ f.old # None /\ f.old.kept

Built(f, b) ==
  [path |-> f.path, seen |-> f.seen, hash |-> f.hash, corrupt |-> f.bad,
   marks |-> [kept |-> Kept(f),
              user |-> Kept(f) /\ f.old.user,
              locks |-> row[b] # None /\ row[b].marks.locks]]

\* A ULID never used: no row has it and nothing in flight refers to it.
NewIds ==
  {b \in Books : row[b] = None /\ \A s \in Scans : file[s] = None \/ file[s].book # b}

\* The constraints of the book table: its series exists, no other row has the path.
Storable(f, b) == Folder[f.path] \in series /\ Owners(f.path) \subseteq {b}

Store(s) ==
  LET f == file[s] IN
  /\ at[s] = "store"
  /\ \E b \in IF f.book = None THEN NewIds ELSE {f.book} :
       /\ Storable(f, b)
       /\ row' = [row EXCEPT ![b] = Built(f, b)]
       /\ IF f.bad
          THEN Drop(s)
          ELSE /\ at' = [at EXCEPT ![s] = IF f.book = None THEN "link" ELSE "pages"]
               /\ file' = [file EXCEPT ![s].book = b]
  /\ UNCHANGED <<diskVars, pages, series, stale, todo, history>>

StoreFails(s) ==
  /\ at[s] = "store"
  /\ ~Storable(file[s], file[s].book)
  /\ Drop(s)
  /\ UNCHANGED <<diskVars, catalogVars, todo, history>>

\* RelinkStaleByHash for a new book; its foreign key fails if the book is gone again.
Link(s) ==
  /\ Goto(s, "link", "pages")
  /\ stale' = IF row[file[s].book] # None THEN stale \ {file[s].hash} ELSE stale
  /\ UNCHANGED <<diskVars, row, pages, series, todo, file, history>>

LinkFails(s) ==
  /\ "error" \in Events
  /\ Goto(s, "link", "pages")
  /\ quiet' = quiet \ {s}
  /\ UNCHANGED <<diskVars, catalogVars, todo, file, fresh, torn>>

ReplacePages(s) ==
  LET b == file[s].book IN
  /\ at[s] = "pages"
  /\ pages' = IF row[b] # None THEN [pages EXCEPT ![b] = file[s].inside] ELSE pages
  /\ torn' = torn \ {b}
  /\ Drop(s)
  /\ UNCHANGED <<diskVars, row, series, stale, todo, quiet, fresh>>

Pending(s) == IF at[s] \in {"link", "pages"} THEN {file[s].book} ELSE {}

\* A query of this file fails: the scan logs it and takes the next file.
FileFails(s) ==
  /\ "error" \in Events
  /\ at[s] \in {"series", "store", "pages"}
  /\ torn' = torn \cup Pending(s)
  /\ Drop(s)
  /\ quiet' = quiet \ {s}
  /\ UNCHANGED <<diskVars, catalogVars, todo, fresh>>

\* Every file is done: series without a book are pruned.
Finish(s) ==
  /\ todo[s] = {}
  /\ Goto(s, "ready", "over")
  /\ series' = {Folder[row[b].path] : b \in {c \in Books : row[c] # None}}
  /\ fresh' = (fresh \/ s \in quiet)
  /\ quiet' = quiet \ {s}
  /\ UNCHANGED <<diskVars, row, pages, stale, todo, file, torn>>

\* The job is cancelled, or the process dies.
Stop(s) ==
  /\ "stop" \in Events
  /\ Active(s)
  /\ torn' = torn \cup Pending(s)
  /\ at' = [at EXCEPT ![s] = "over"]
  /\ todo' = [todo EXCEPT ![s] = {}]
  /\ file' = [file EXCEPT ![s] = None]
  /\ quiet' = quiet \ {s}
  /\ UNCHANGED <<diskVars, catalogVars, fresh>>

-----------------------------------------------------------------------------
(* The others who write book rows.                                         *)

\* EditBook: the edited fields are written and locked.
Edit(b) ==
  /\ "edit" \in Events
  /\ row[b] # None
  /\ row' = [row EXCEPT ![b].marks = [kept |-> TRUE, user |-> TRUE, locks |-> TRUE]]
  /\ UNCHANGED <<diskVars, pages, series, stale, scanVars, history>>

\* applyIssueMeta: a matched book, of which locked fields keep their values.  The
\* queries it reads the book and the locks with are taken as one step with its update.
Match(b) ==
  /\ "match" \in Events
  /\ row[b] # None
  /\ row' = [row EXCEPT ![b].marks =
               [kept |-> TRUE, user |-> @.user /\ @.locks, locks |-> @.locks]]
  /\ UNCHANGED <<diskVars, pages, series, stale, scanVars, history>>

\* The rescan handler deletes the series: its books and their pages go with it, and
\* the reading-list entries of those that were listed become placeholders.
DeleteSeries(d) ==
  LET gone == {b \in Books : row[b] # None /\ Folder[row[b].path] = d} IN
  /\ "delete" \in Events
  /\ d \in series
  /\ series' = series \ {d}
  /\ row' = [b \in Books |-> IF b \in gone THEN None ELSE row[b]]
  /\ pages' = [b \in Books |-> IF b \in gone THEN None ELSE pages[b]]
  /\ \E listed \in SUBSET gone :
       stale' = stale \cup ({row[b].hash : b \in listed} \ {None})
  /\ torn' = torn \ gone
  /\ Disturb
  /\ UNCHANGED <<diskVars, scanVars>>

-----------------------------------------------------------------------------

ScanStep(s) ==
  \/ \E p \in Paths : Skip(s, p) \/ Look(s, p) \/ LookFails(s, p)
  \/ Hash(s) \/ HashFails(s)
  \/ Reconcile(s) \/ ReconcileFails(s)
  \/ Open(s) \/ OpenFails(s) \/ ResolveSeries(s)
  \/ Store(s) \/ StoreFails(s)
  \/ Link(s) \/ LinkFails(s)
  \/ ReplacePages(s) \/ FileFails(s) \/ Finish(s)

Next ==
  \/ \E p \in Paths, v \in Versions : Write(p, v)
  \/ \E p \in Paths : Remove(p)
  \/ \E p, q \in Paths, v \in Versions : Move(p, q, v)
  \/ \E s \in Scans : Begin(s) \/ ScanStep(s) \/ Stop(s)
  \/ \E b \in Books : Edit(b) \/ Match(b)
  \/ \E d \in Folders : DeleteSeries(d)

Spec == Init /\ [][Next]_vars
-----------------------------------------------------------------------------
(* Properties.                                                             *)

InHand(b) == \E s \in Scans : at[s] \in {"link", "pages"} /\ file[s].book = b

\* What an incremental scan skips is right: a row that carries the size and mtime of
\* the file at its path also carries its hash and its pages, though stat, hash, open
\* and the two writes all happen at different times (scanner.go:122-185).  Excepted
\* are books whose pages some scan did not come to write.  Scans do not overlap.
SkippedIsCurrent ==
  \A b \in Books :
    row[b] # None /\ ~row[b].corrupt /\ disk[row[b].path] = row[b].seen =>
      /\ row[b].hash = Bytes[row[b].seen]
      /\ pages[b] = Bytes[row[b].seen] \/ InHand(b) \/ b \in torn

\* Once a scan has run undisturbed, the catalog describes every file on disk, and
\* stays so through edits, matches and whatever becomes of later scans, until a file
\* or a series is changed (scanner.go:24-26, "idempotent (safe to re-run)").
CatalogMatchesDisk ==
  fresh => \A p \in Paths : disk[p] # None =>
    \E b \in Books :
      /\ row[b] # None /\ row[b].path = p /\ row[b].seen = disk[p]
      /\ row[b].hash = Bytes[disk[p]]
      /\ row[b].corrupt <=> Bytes[disk[p]] \notin Openable

\* A file that moved keeps its book, and with it progress, lists and metadata: an
\* undisturbed scan never makes a new book of a content whose book has lost its file
\* (scanner.go:142-149).
MovedFilesKeepTheirBook ==
  [][\A s \in quiet, b \in Books :
       at[s] = "store" /\ at'[s] # "store" /\ row[b] = None /\ row'[b] # None =>
         ~\E c \in Books : row[c] # None /\ row[c].hash = row'[b].hash
                           /\ disk[row[c].path] = None]_vars

\* What a user typed is only overwritten by a scan or a match that had read the book
\* before the edit, or by a scan that could not read the file (scanner.go:323-340).
OnlyUnseenEditsLost ==
  [][\A b \in Books :
       row[b] # None /\ row[b].marks.user /\ row'[b] # None /\ ~row'[b].marks.user =>
         \/ \E s \in Scans : /\ at[s] = "store" /\ file[s].book = b
                             /\ file[s].bad \/ ~file[s].old.user
         \/ ~row[b].marks.locks]_vars

\* A reading-list placeholder is resolved only while the catalog holds a book of the
\* content it waits for (scanner.go:177-183).
PlaceholdersFindTheirBook ==
  [][\A c \in stale \ stale' : \E b \in Books : row[b] # None /\ row[b].hash = c]_vars

\* "User edits - never overwritten" (docs/04-server.md:137).
EditsAreNeverOverwritten ==
  [][\A b \in Books : row[b] # None /\ row[b].marks.user /\ row'[b] # None => row'[b].marks.user]_vars
=============================================================================
