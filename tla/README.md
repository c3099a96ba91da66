# Verification of Comic Hub

TLA+ models of the parts of Comic Hub where order, concurrency or failure decide
whether the program is correct. On the server: the background jobs, the scans that
are submitted to them, the catalog a scan writes while files and metadata change,
matching a series, reading progress, reading lists and accounts. In the desktop
client: its token pair, its caches and event stream, and the screens that work on
what they last fetched. In the reader: its session, its page cache and its offline
queue. TLC checks the models on small instances, TLAPS proves the most important
results for every value of the constants.

1. [The system](#1-the-system)
2. [The modules](#2-the-modules)
3. [What the runs check](#3-what-the-runs-check)
4. [What is proved](#4-what-is-proved)
5. [What the models found](#5-what-the-models-found)
6. [What is not modelled](#6-what-is-not-modelled)
7. [The plan](#7-the-plan)

Paths below are relative to `server/internal/` unless they begin with `apps/`,
`packages/`, `server/` or `docs/`. Checking a module: `tlc -config X.cfg MCM.tla`;
checking its proofs: `tlapm MProofs.tla`.

## 1. The system

A server in Go (`server/`) keeps a catalog of comic files in SQLite; a desktop
client and a reader (`apps/`, TypeScript in Tauri shells) talk to it over HTTP and
one WebSocket. It runs embedded, one user on one machine, or on a network for a
household with several users and devices.

Every HTTP request has a goroutine and takes connections from a pool of eight
(WAL, foreign keys on). Few operations use a transaction, so in most of them
another request can fall between two statements. A long task is a *job*, a
goroutine of its own behind a semaphore of four. Nothing else is shared in memory
except the runner's maps, the presence table, the hub's clients and the watcher's
timers.

| Component | State | Operations | What is hard | Correct when |
|---|---|---|---|---|
| Job runner (`jobs/runner.go`) | job rows; cancel map, semaphore, wait group | Submit, run, Cancel, Shutdown | jobs cancelled while they wait, shutdown between two statements of Submit, death with rows in the table | pool never exceeded; rows agree with goroutines; finished is final; shutdown waits |
| Scan requests (`transport/http/scan.go`, `server/cmd/comichub-server/main.go`) | none of its own: queries the job table | scan, rescan series, cancel, watcher callback, chained match | two queries and a submit with nothing joining them; rows of a dead process | a library has one scan; a cancel reaches what runs; a coalesced request is served |
| Scanner (`scanner/scanner.go`, `store/sqlstore/book.go`) | book, page and series rows | walk, stat, compare, hash, reconcile, open, upsert, link, pages, prune | files change between two steps; the whole row is upserted from a snapshot; interruption | unchanged means up to date; moved files keep their book; edits survive |
| Metadata (`service/metadata/service.go`) | book and series metadata, locks, story arcs | EditBook, apply an issue, MatchSeries, AutoMatch | long runs over a remote provider, resumed after a cancel; locks read and written back | locked fields stay; a resumed match loses nothing |
| Series screen (`apps/client/src/routes/Series.tsx` and its dialogs) | cached detail and files, forms | resolve duplicates, manage files, match, rescan | calls that outlive their dialog, refetches under an open form, jobs that end meanwhile | the screen follows what is stored; a form sends what was touched |
| Reading progress (`service/reading`, `transport/http/progress.go`) | read_progress rows | PUT, batch, mark book, mark series, broadcast | read, compare and store are separate; clocks of devices differ | the newest write stays; times make sense; what is announced is what is stored |
| Offline queue (`packages/reader-core/src/server-provider.ts`, `apps/reader/src/reader/store.ts`) | localStorage queue, flushing flag | saveProgress, flush, restore, debounced save | answers that are lost or late; a page turned during a flush; the app closed | no place is lost; the queue drains |
| Reader session (`apps/reader/src/reader/store.ts`) | the open book, page, layout, two timers, the offer | open, teardown, turn, layout, save, next issue | an open awaits three times while another lands or a book is left | no place and no choice is lost; caches of a left book are disposed |
| Page cache (`apps/reader/src/reader/PageCache.ts`, `ThumbCache.ts`) | entries, recency list, object URLs | ensure, load, evict, subscribe, dispose | a load outlives the eviction of its entry and the cache itself | what is painted is alive; URLs are revoked; no spinner stays |
| Reading lists (`service/organize`, `store/sqlstore/reading_list.go`, `apps/client/src/routes/ReadingListDetail.tsx`) | entries with positions, placeholders; drag, dialogs | add, move, remove, relink | reorder against reorder by index into what was fetched; positions that meet; books that leave and return | no issue twice; only moves reorder; a drop lands where it is shown |
| Tracker (`service/organize/tracker.go`, `apps/client/src/routes/Tracker.tsx`) | added issues, standalone tracks; filters, anchor, popover | project, lay out, mark a cell or a run, add, delete | rows change under an anchor and a popover; half numbers; annuals | every issue has a cell; a run marks its stretch; the popover closes |
| Accounts (`service/auth`, `transport/http/users.go`) | users, sessions | Login, Refresh, Logout, SetUserPassword, UpdateUser, DeleteUser | rotation and revocation in several queries, without a transaction | a revocation holds; a role change signs out |
| Client sign-in (`packages/api-client/src/client.ts`, `apps/client/src/lib/auth.ts`, `App.tsx`, `routes/Auth.tsx`) | token pair, remembered server, client object | request with one refresh, sign in, sign out, connect, reload | requests that refresh the same pair; answers that arrive after the account changed | the app acts as the account it shows; no session without a holder |
| Users card (`apps/client/src/components/UsersCard.tsx`) | list, dialog, form | create, edit, delete | others edit the same account; answers lost after the write | a restriction is not undone by a save that did not mean it; the list settles |
| Presence, hub, event stream (`service/presence`, `transport/http/ws.go`, `apps/client/src/lib/events.ts`, `queries.ts`) | who reads what; clients, buffers; query caches | Touch, Clear, Broadcast, reconnect, invalidate, optimistic mark | announcements out of order, full buffers, marks rolled back over one another | at rest a view is the server's |
| Watcher (`watch/watcher.go`) | directories, timers | Add, Remove, handle, schedule, Close | timers that fire while they are replaced; a change during a scan | every change is scanned in the end |

How they interact: the watcher, three handlers and the scan itself submit to the
job runner; the scan runs in a job, writes the catalog and submits a match job;
the metadata service writes the same book rows; a deleted book leaves
placeholders in reading lists that the scanner resolves by content hash; the
reader's queue writes through the progress handlers; progress and jobs are
announced through the hub, and progress also drives presence. Every screen of the
client reads through one cache of queries, which its own mutations and the frames
of the hub invalidate, and sends through one request wrapper, which refreshes the
token pair. The reader's session owns a page cache per open book.

`PROJECT.json` lists every component, the ones left out included, and the hazards
at their lines.

## 2. The modules

| Module | Models | Composes |
|---|---|---|
| `JobRunner` | the runner, its table, process death and restart | |
| `ScanJobs` | who submits and cancels scans, and the chained match | extends `JobRunner` |
| `LastWriterWins` | abstract: what ADR-008 promises of progress | |
| `ReadingProgress` | the progress handlers, service and table | implements `LastWriterWins` |
| `OfflineSync` | the reader's queue over an unreliable link | extends `LastWriterWins`, as its server |
| `Catalog` | the scanner, the files under it and the others who write book rows | |
| `SeriesMatch` | the two writers of a series' metadata, query by query | |
| `SeriesDesk` | the series screen, its dialogs, its caches | extends `SeriesMatch`, as its server |
| `ReadingOrder` | abstract: what a reading list promises | |
| `ReadingQueue` | a reading list on screen and on the server | implements `ReadingOrder` |
| `TrackerBoard` | the tracker's projection, layout, marking and popover | |
| `ClientSession` | the client's sign-in and the server's sessions | |
| `UserAdmin` | the users card and the server's accounts | |
| `ClientCache` | the client's queries, the hub and the socket between them | |
| `PageCache` | the reader's page and thumbnail caches | |
| `ReaderSession` | the reader's session store | |
| `MC*` | values of the constants, symmetry, request sets | one per checked module |
| `CatalogProofs`, `OfflineSyncProofs`, `ReadingQueueProofs`, `UserAdminProofs` | theorems | one module each |
| `JobProofs` | theorems | of `JobRunner`, `ScanJobs`, and the match over them: `SeriesMatch`, `SeriesDesk` |
| `ProgressProofs` | theorems | of `ReadingProgress` and the `TrackerBoard` that shows it |
| `ClientProofs` | theorems | of `ClientSession` and `ClientCache` |
| `ReaderProofs` | theorems | of `PageCache` and `ReaderSession` |

### JobRunner

`row` and `payload` are the job table and survive a crash; everything else is
memory. `pc[j]` is the line a job's `Submit` or goroutine has reached: `Create`,
`Register` and `Spawn` are the three statements of Submit another goroutine can
tell apart, `Acquire`, `Start` or `SkipCanceled`, `Finish`, `Release`,
`Unregister` and `Exit` those of the goroutine, the last three being its deferred
calls in reverse order. A save of the row may fail (`"dberror"`): the code logs it
and goes on, and `unsaved` remembers that it did. `ShutdownBegin` is the cancel
loop (one critical section), `ShutdownReturn` the return of `wg.Wait`, `Crash` the
death of the process at any point, `Restart` the next start, which does nothing to
the table: that is what the code does. Progress reports are stuttering steps, as
they rewrite the state the row already has.

### ScanJobs

Extends JobRunner with the callers. `at[q]` is how far a handler is; the two
queries of `ActiveScanJobID` (queued, then running) are two steps, the `Submit` is
JobRunner's. `seen` remembers which scans existed when the caller began, for the
properties. The match job a scan submits from inside its handler is part of the
scan's own finishing. `ImplementsRunner` states that the composition does nothing
to the runner the runner does not allow, so JobRunner's theorems hold of it.

### LastWriterWins and ReadingProgress

LastWriterWins is the promise: one register per book, and a write older than the
register changes nothing. ReadingProgress is the code: a call takes its writes one
by one (`todo`), reads the stored row (`old`), takes the time and builds the new
row (`new`), stores it unconditionally and broadcasts it, each a step. Building
the row keeps the rules of `Upsert` and `Mark`: a missing or future `updatedAt`
becomes the server's time, started and finished are carried over or set, pages are
clamped, a stale write is dropped. A failing read is ignored, as in the code; a
failing store ends its item. The sets of requests in `MCReadingProgress` are what
a reader, a batch and the mark handlers really send.

### OfflineSync

For several devices of one user: `queue` is localStorage (durable), `puts` the PUTs
under way with whether the server has already ruled on them, `late` the writes that
may still be applied though their sender has given up, `flush` the batch under way
and `restore` the book being opened. A place is represented by the time it was read
at. `owed` is history: the latest place the reader was told to keep. `Close` is the
death of the app at any point: memory goes, the queue stays.

### Catalog

`disk` gives the version of the file at a path; a version is what change detection
compares (size and mtime) and `Bytes` its content, so a hash is the content it is
computed from. A row has the path, version, hash, corrupt flag and `marks`, which
say whose the metadata is. A scan keeps the collected paths and, for the file in
its hands, what `processFile` has in local variables: the version it saw, the hash,
what it found inside, the book and the snapshot of its metadata. `Look` to
`ReplacePages` are the steps of `processFile`, each with its failure; a new row gets
an id that nothing refers to. `Edit`, `Match` and `DeleteSeries` are the other
writers of book rows. `torn` (history) collects books whose pages a scan did not
come to write, `quiet` and `fresh` whether a scan has run undisturbed.

A file that appears at a path always has a version of its own there. This is the
assumption that no two different files at one path share size and mtime; without
it no scanner that trusts them can be right.

### SeriesMatch and SeriesDesk

`meta` and `locks` are the books of one series, `arcs` the books its story arcs hold,
`run[r]` a match job and `edit[c]` a call of EditBook, each at one of its queries: both
read a row, then its locks, then write the whole row back. A number is written in
several ways (`Norm` says which are the same) and derives a kind; the provider has
volumes whose issues carry normalised numbers. A run links the series, applies the
issues book by book, gathers the books of the arcs and rewrites them at its end; it
fails, is cancelled at the head of its loop, is run again, or overlaps another.
SeriesDesk puts the screen over it: `cache` and `ask` are its two queries, `dialog`
the open dialog with what is typed, `call` the calls under way with who made them,
`frames` the job events on their way. A mutation's hook callbacks run whatever is
mounted, those given with the call only while its dialog is; Apply sends the edits
one after another and stops at the first that fails. `unheard` and `spoiled` are
history, for the exceptions in the properties.

Titles, credits and other fields that derive nothing are left out. The POST that
starts a match is one step with its answer; a request's answer is one snapshot. Not
modelled: tabs, the menu, the resume button, leaving the screen otherwise than by a
rescan, a book without a number. What is lost on the socket is ClientCache's.

### ReadingOrder and ReadingQueue

ReadingOrder is the promise: entries in an order, each standing for an issue, a
collection or a gone issue; only a move reorders, and only its entry; what is added
comes last; an issue leaves and returns in its place. ReadingQueue is the code.
`rows` is the table, ordered by `pos`; a move reads the list, finds the two
neighbours of the slot, and writes a position between them, in steps of its own. As
the table's, two entries may get one position, and equal ones come in any order.
`shown` is what was last fetched, `drag` the row held and the slot it hovers over, by
index, `dialog` one of three, `calls` the requests under way with what they read.
`BookLeaves` and `BookArrives` are the deletion of a book and the scan that makes a
new one of the same file, which relinks placeholders by hash. Positions are integers
`Gap` apart instead of floats 1024 apart, so that the room between two runs out
within the model. Not modelled: which list is active, renaming and deleting a list,
reordering inside a collection, content ceilings.

### TrackerBoard

`Tracker` is the server's projection: a row for the series, one for its annuals, one
per standalone track; an added issue is shown unless a book has its number. The
screen filters rows (`filter`, `scoped`), lays issues under a common ruler (`TrackRow`,
`Stack`: a half number shares the cell of the number before it), and marks the cell
clicked or, from `anchor`, the run up to it. `pointer`, `hover` and `timer` are the
popover: enter, leave, the hide timer and what takes its cell away under it. Numbers
are counted in halves. Parsing "1-12, 14" and the grouping of rows are left out, as
are failed marks, which are ClientCache's.

### ClientSession

A pair is an access token, which expires and is never revoked, and a refresh token,
which is a row of `sess` until it is spent. `req[r]` is a request of the wrapper: sent,
answered 401, then refreshing in the server's three queries (find, delete, issue),
answered, retried once. The pair all requests share is `stored`; the client object
that sends an access token is `cur` with `token`, and a request keeps the object that
made it. `login` and `leaving` are signing in and out, `attempt` the connect card,
`Reload` the page load with its handshake. `SetUserPassword` and `DeleteForUser` are
the two halves of a change of password. Servers are separate: a pair of one is unknown
to another. The history variables name what the properties excuse: `adrift` (an answer
that was lost or overwritten, a failed sign-out), `early` (a sign-in or refresh a
revocation overtook), `crossed` (a refresh of an earlier client object came in), and
`away` (signed out with no refresh under way). One sign-in and one connection attempt are
under way at a time; the handshake after connecting is one step with it; the list of
servers found on the network is not modelled.

### UserAdmin

`acct` and `sess` are the two tables, `call[c]` a request at one of its queries (read,
write, password, revoke), `list` and `ask` the card's query, `modal` its dialog with
what is typed. A PATCH reads the account, fills in what was not sent, writes it and then
revokes the sessions if the role changed; each query may fail and each answer be lost.
Other administrators send requests without the card hearing of it. `behind` and
`unswept` are history. Changing a password is one step here: its queries are
ClientSession's. The owner and the acting administrators do not sign in.

### ClientCache

Three views stand for the queries: the tracker's cells, the pages that show read state
and catalog rows, and presence. `held` is what each shows, `fetch` and `answer` its
request, `frames` the socket's buffer, `conn` its life, `changes` the mutations of this
client from the optimistic flip to the refetch at their end, with what they restore when
they fail. `Sit` and `Announce` are Touch or Clear and the notification it sends after
unlocking, so two of one member can be announced in the other order; the server stamps
them and the client keeps the newest. A full buffer drops a frame; a reconnect
invalidates. React Query itself is external and modelled from its use. `missed` is
history: views with a change nothing will tell them of.

### PageCache

A load is named by its page and its number, and so is the object URL it creates; an
entry is the load it was made for. `SetWindow` ensures the pages of a window and evicts
the least recent others; `PageFetched`, `PageFails` and `PageDecoded` are the ends of a
load's awaits, whether or not its entry is still there; `Dispose` is the end of both
caches. `snap` is what the views were last told, `live` the URLs created and not revoked.

### ReaderSession

`open[o]` is a call of `open()` in the steps its awaits divide it into; several overlap,
and the last to land is shown. `SaveFires` and `PrefsFire` are the debounce timers,
`Hide` the flush when the window is hidden, `dispose` the teardown, `EndCard` and
`NextAnswered` the offer of the next issue. `buildSpreads` is the pure pairing of pages,
checked by `SpreadsCover` against every set of landscape pages of up to six. A save that
is sent is stored: what happens to it on the way is OfflineSync's. Per-book settings are
remembered and the book advances by itself at its end. Zoom, fit, rotation, colour and
bookmarks are left out.

## 3. What the runs check

| Run | Instance | Shows |
|---|---|---|
| `ScanJobs` | 2 jobs, 1 worker, 2 requests in sequence, 1 cancel, chained match; shutdown, crash, restart | a request never joins a scan that was running when it came, a cancel reaches what runs, chained jobs are waited for, shutdown completes, jobs settle while the process is up, every step is one of JobRunner |
| `ReadingProgress_safety` | 2 requests at a time over 3 books; calls take turns on two and overlap on the third, whose reads may fail too | an older row only replaces one its writer had not seen; where calls take turns, rows are the registers of LastWriterWins and the last event tells what is stored |
| `OfflineSync_safety` | 2 devices, 1 book; failed items, closed apps | no place is lost, the queue drains |
| `Catalog_safety` | 2 paths, 3 versions of 2 contents (one no archive), 2 books, 2 scans in sequence; every event | what is skipped is current, an undisturbed scan makes the catalog match the disk, moved files keep their book, only unseen edits are lost |
| `SeriesDesk_safety` | 2 files read as one number, 2 volumes, 2 match jobs, 2 edit calls, 5 acts of the user | corrections outlast matches, a resumed match loses no arc, the screen follows what is stored, a form sends what was touched |
| `ReadingQueue_safety` | 2 issues and a collection, 3 entries, 2 calls, 3 events; a file that leaves and returns | no issue gets two entries, the list refines ReadingOrder, a drop lands where it was shown |
| `TrackerBoard_safety` | 2 files, of which one may be refiled, and one to come; added issues, 2 tracks; 2 clicks, 1 event, any pointer | every issue has one cell, a run marks its stretch, the popover closes |
| `ClientSession_safety` | 2 accounts, on one server or two, 2 requests, 3 pairs, 1 change of password, 2 client objects | no session nobody holds, a revocation and a sign-out hold, the app acts as the account it shows |
| `UserAdmin_safety` | the owner, a restricted account, one to be created; 2 requests, 3 acts | a change of role leaves no session, no restriction is undone unseen, the list settles |
| `ClientCache_safety` | 2 cells, 2 members with 2 calls each, 2 mutations, 3 events, room for 1 frame | at rest each of the three views shows what the server holds |
| `PageCache_safety` | 3 pages, room for 2, two loads of a page, 4 in all; two window sizes | what is painted is alive, only evicted loads leak, the window settles |
| `ReaderSession_safety` | 2 books of 2 pages, one with landscape pages, 2 opens, 2 layouts | no place and no choice is lost but by an overlapping open, caches of a left book are disposed |

**Why the bounds are enough for what is asked.** Races here are between two actors over
one piece of state, and every run has both and something that disturbs them. Two jobs on
one worker are the least where one runs and one is cancelled while waiting; two requests
and one cancel cover every pair of callers, and the match job is a third party. Two
calls on one book are a race; a third adds no new pair. Two devices with one book are a
flush against a foreign write; the clock's bound leaves a write before, during and
after. Two paths are a move, two contents of which one cannot be opened a replacement
that breaks or mends a file, three versions a write during a scan after a write before
it. Two files of one number are a duplicate, two volumes a wrong first choice, and five
acts an edit, a match, its failure, its resumption and another edit. Three entries let a
move go before, after or between others, and `Gap = 2` uses up the room after one
bisection. Three pairs are one that is stored, one a refresh issues and one a second
sign-in or the other request issues; two client objects are a page before and after it
is left. Room for one frame makes every second one a dropped frame. Three pages with
room for two evict under way, and the second load of a page meets the first one's end.
Two opens overlap in each of their awaits. Larger data adds no step to any handler.

**Symmetry** is used in safety runs only, over ids the modules never order: jobs and
callers of `ScanJobs` are not permuted, as it has temporal properties; books, scans and
versions of one content in `Catalog`; entries and calls in `ReadingQueue`; cells, members
and mutations in `ClientCache`; accounts, servers and requests in `ClientSession`; match jobs and
edit calls in `SeriesDesk`; names and requests in `UserAdmin`. Paths, pages and numbers are ordered and
not permuted.

**Deadlock** is checked where something can always happen (`OfflineSync`,
`ReadingProgress`, `TrackerBoard`). Elsewhere the bounds end every behaviour, or everything submitted may be
finished and nothing is left to happen; those configurations say `CHECK_DEADLOCK FALSE`.

**Fairness** is weak and on what the Go or JavaScript scheduler and the operating
system run without help. `ScanJobs`: each goroutine, each caller's own steps, the return
of a `Wait` whose counter is zero, the exit after Shutdown, a supervisor's restart. A
goroutine's fairness includes the end of a handler: handlers poll their context and
work over finite file lists. Slots need no strong fairness: a freed slot is taken by
some waiter, and with finitely many jobs each gets its turn; TLC confirms it.
`OfflineSync`: the clock, answers to requests under way (a `fetch` ends, one way or the
other), the flush's own loop, and that the reader opens some book again, which is what
triggers a flush; `QueueDrains` claims nothing unless the server stays reachable and
the queue fits one batch. `PageCache`: a load under way ends, in a page, an error or a
drop; nobody has to turn pages. `TrackerBoard`: a timer that has been set fires. Crashes,
cancels, requests, clicks and failures are never fair: they need not happen.

Every property has a mutant in `PROJECT.json`: a change of one mapped definition, of
the kind a careless edit of the code would make, under which the same run finds the
property violated. The mutated operators stand before the originals, marked as such.

## 4. What is proved

For every value of the constants, under the assumptions named in the modules:

| Theorem | Statement | Rests on |
|---|---|---|
| `JobProofs!TypeCorrect`, `PoolNeverExceeded`, `RowsAgree` | the invariants of the runner | slots are exactly the jobs between admission and release; `pc`, `cancels` and `wg` move together |
| `JobProofs!FinishedForGood`, `CancelBeforeStart`, `ShutdownWaits` | its action properties | the same invariant |
| `JobProofs!ScansImplementRunner`, `ChainsAreWaitedFor` | the composition refines the runner; chained jobs are waited for | a scan's match job exists only while the scan holds the wait group |
| `JobProofs!NoScanJoined`, `CancelsReachScans` | a request submits a scan of its own only when every scan of the library that ran when it came in is over; once a cancel call is answered, no scan that ran when it began runs on uncancelled | rows only move forward from what a caller saw of them (`CallersInv`); a handler still ahead is in the cancel map (`MapInv`) |
| `JobProofs!CorrectionsLast`, `NoArcLost` | a locked field changes only by who sets it, or by a write that read the locks before; a match that ends, resumed or not, has every book the volume has an issue for in its arcs, unless `spoiled` | `DeskShape`, `ArcsInv`, below |
| `JobProofs!ScreenFollows`, `FormsSendTouched` | with nothing under way the series' detail is the stored one, unless `unheard`; saving a file's form sends only what was touched | `ScreenInv`, `FormInv`, below |
| `ProgressProofs!RowsWellTimed` | times are ordered, under any interleaving and clocks | the row a call read and the row it is about to store are well timed |
| `ProgressProofs!LossNeedsOverlap` | an older row only replaces an unseen one | a stored row is never older than the one its call read |
| `ProgressProofs!NewestWins`, `LastEventIsStored`, `RowsAreRegisters` | of the books outside `Loose`: rows are last-writer-wins registers and the last event tells them | while a call is at work on such a book nobody else changes it |
| `ProgressProofs!IssuesHaveCells` | every book and every added issue no book stands for is in one row, once, and has a cell while the rows shown ascend | `ServerInv`, `BoardInv`, below |
| `ProgressProofs!RunsMarkStretches` | a run marks the issue clicked and what the row shows between its number and the anchor's | `PointerInv` too |
| `OfflineSyncProofs!PlacesAreKept`, `RegistersRise`, `ServerIsRegister` | no place is lost; the server never goes back, and implements `LWWSpec` | what a flush sent is queued, superseded or ruled on |
| `CatalogProofs!TypeCorrect` | types, and exactly the processing scans hold a file | |
| `CatalogProofs!SkipsAreSafe` | one scan at a time: a skipped row is current | `IInv`, below |
| `CatalogProofs!PlaceholdersFound` | one scan at a time: a placeholder is resolved by a book of its content | `IInv` |
| `CatalogProofs!CatalogIsCurrent` | after an undisturbed scan the rows are those of the disk, whatever went before | `Base`, below |
| `CatalogProofs!MovesKeepBooks` | a moved file keeps its book | the same |
| `CatalogProofs!RowsAreTrue` | however scans overlap: no path has two rows, and a row whose version is at its path has that file's hash | `Base` |
| `CatalogProofs!EditsLostUnseenOnly` | any number of overlapping scans: an edit is only lost to a writer that had not seen it, or to an unreadable file | `MarksKept`: user values are always marked kept, in rows and in snapshots |
| `ReadingQueueProofs!NoIssueTwice` | no issue and no collection has two entries | `EntriesOf`, below |
| `ReadingQueueProofs!ListKeepsOrder` | the list implements `ReadingOrder` | `OrderInv`, below |
| `ReadingQueueProofs!DropsLand` | a drop lands between the neighbours it was shown between, unless another write came first | `MovesInv`, below |
| `UserAdminProofs!TypeCorrect`, `RolesAreSigned`, `CardListsAccounts`, `RestrictionsSeen` | the types and the three properties of the run | `RolesHold`, `ListHolds`, `PatchesKeep`, below |
| `ReaderProofs!PaintedPagesLive`, `NothingElseLeaks` | what is painted is alive and its entry's; only evicted loads leak | `Inv`, below |
| `ReaderProofs!NothingIsLeftBehind`, `ChoicesAreKept` | leaving a book sends its place and disposes its cache, and a layout that was chosen comes back with the book, but for overlapping opens | `SessionInv`, below |
| `ClientProofs!SessionsHaveHolders`, `OldPasswordsRevoked`, `SignedOutStays`, `AppActsAsShown` | the four properties of the run | `Inv`, below |
| `ClientProofs!TrackerAtRest`, `PagesAtRest`, `StripAtRest` | with nothing under way, each view shows what the server holds, but for what nobody will tell it of | `QueriesInv`, below |

**Why `SkippedIsCurrent` needs strengthening.** It speaks of rows; whether a row is
right depends on what the scan had in hand when it wrote it. `IInv` adds that
versions on disk are no longer unused (so a version seen before a change cannot
come back), that what a scan has read of a file whose version is still the seen one
is that version's content (`Reads`; if the file changed in between, the row's
version is no longer on disk and the next scan looks again), that a scan about to
write pages still means the row it stored, and that one scan runs at a time. The
proof has one lemma per kind of step: the disk changes, one scan moves on, rows are
deleted or re-marked, a scan begins, stores, writes pages.

**Why the catalog matches the disk.** `CatalogIsCurrent` and `MovesKeepBooks` reason over
a whole scan. `Base` is what holds whatever happens, overlapping scans included: a version
on disk is not unused, what a scan has read of a file that is still the one it saw is
that file's (`Learned`), a row whose version is still at its path is right about it
(`Recorded`), and no path has two rows, as the unique index makes it. `Undisturbed` is
about a scan in `quiet`: it is alone, what it knows of its file is what the file is
(`Faithful`), every file on disk is still to do, covered by a row, or in its hands
(`Remaining`), and the row it is about to write is the one of that path, or of a file that
has gone from its own (`Target`). Each disturbance takes scans out of `quiet` and ends
`fresh`, so only the steps of a scan that is alone are left to prove, and of these only a
store writes a row: that of its own path.

**ClientSession.** A refresh reads its session, deletes it and issues another pair in
three steps, so each of the four properties depends on what a request still remembers.
`Refreshes` says that a pair it found is of its server, and gone once it was deleted;
`Outdated` that a sign-in or refresh whose pair descends from an old password has been
told, or is about to be (its user is in `changing`): without it `RevocationHolds` breaks
at the step that issues. `SignedOff` adds to `SignOutHolds` that no refresh is under way,
`Answers` that a sign-in's pair is of the user who signs in, and `Boots` that the
handshake of a page load is alone and sends what its client object does: that is why
the account shown at its end is the one `ActsAsShown` asks for. The proof has one lemma
per action.

**PageCache.** `InOrder` numbers the loads of a page as they begin, so that the load
begun for it is new; `Entries` says that a load under way has its entry unless that was
evicted or the cache disposed, `Urls` when exactly a URL is alive, `Snapshots` that a
ready snapshot has the URL of a load that is ready, and `Faithful` that it is its
entry's unless an evicted load wrote it. Of the recency list the proof uses only that
no victim is in the window; its order, and the capacity, are left to reading.

**ReaderSession.** A book that is left keeps its place because the store's page is the
reader's while a provider is set (`HereInv`), and a provider is the manifest's (`ShownInv`).
A choice of layout comes back because an open that has read the settings carries the choice,
unless the save that will settle it is still pending for that very book (`LayoutInv`); opens
to come are blank and those under way have a book (`OpensInv`).

**ClientCache.** Convergence is an invariant once what may still come is named: a view is
right, or something *due* will refresh it. `RowsInv` has this of the two views of rows,
where a reconnect, a frame under way or the end of a mutation is due; `PresenceInv` has it
member by member, where the last call's notification or its frame is due, and an answer
older than what is held loses to it. `SeatsInv` bounds every entry by the server's count, `VisitsInv` says that only a
view that was opened asks, `LinkInv` that a socket that is down carries nothing, `ChangesInv`
what the kinds of mutations have under way.

**UserAdmin.** `RolesHold` says that a session has its account's role, or was issued early,
or is of an account with a revocation to come or in `unswept`; `ListHolds` that the list
shown, or on its way, is the table, unless `behind` or a request of the card has yet to
fetch it again; `PatchesKeep` that a PATCH on its way writes, of a field its author did not
set, what its author or its own read had. Each is inductive beside the types.

**ReadingQueue.** For `NoIssueTwice` nothing is needed of the order: `EntriesOf` says that every entry
stands for a book of the catalogue, for a collection or for nothing, under an id that was given
out, and the steps that insert, relink, drop or bring back a book keep them distinct.
`RelinkStaleByHash` keeps them so because it fails, as the unique index makes it, where
two placeholders wait for one file. For `ListKeepsOrder`, `OrderInv` adds that positions
are integers up to the bound, a move's on its way too, and that what a request picked is
finite: then the last position exists, no entry is behind it, and what is inserted gets
one beyond. `RowsStep` sorts every step by what it does to the rows (nothing, `Behind`,
`Leaves`, `MovesOne`, `Repoints`), and each of these is a step of ReadingOrder, whose
uniqueness is `NoBookTwice` of the next state. It assumes that the positions the list
starts with are within the bound. `DropsLand` speaks of orders: `MovesInv` says that a move
under way asks for a slot of the order it was made from, and that a position it has computed
came from the list as it is, or a write has outrun it. The lemmas below it are about
sequences sorted by position: where there is only one such order positions rise along it, the
computed one is strictly between the neighbours, and so the list with the entry moved is
sorted by the positions with the new one; as that order is one, it is the list that follows.

**SeriesDesk.** `ArcsInv` is the heart: unless `spoiled`, runs take turns, a book linked to
the issue its number names is in the arcs or among those the run at work will write
(`RunKeeps`), and every link is to an issue of the series' volume; so what a later run
skips has been filed. It needs that volumes are the provider's (`LinksInv`) and the records
of rows, runs and edits as the handlers build them (`DeskShape`). `ScreenInv` says that with
nothing *stirring* (an edit, a run at work, a frame on its way) the detail shown, or on
its way, is the stored one; `CallsInv` that an edit under way is a call of the screen; `FormInv`
that a field that was not touched is as the form was opened. `CorrectionsLast` needs
no more than the shapes: a step that writes a locked field has read the lock and leaves the
field alone, or is stale.

**TrackerBoard.** `ServerInv` says that an added issue is of the series or of a track there
is, so `IdsOf` gives every issue one row, and `IssueOf` its one cell there. `BoardInv` carries
that over to what is shown: no id twice (`Once`), and every issue at a place of its own
(`Placed`: keys are hundreds plus the id, which is why ids are within 1 to 99), which a mark
that shows at once does not change and a refetch brings back. Then the last issue of an
ascending row has its highest number, and no cell is beyond it. `PointerInv` says that a cell
under the pointer is drawn, so a click has an issue to mark.

Assumptions: those named `...Assumption` in the modules, which TLC evaluates in the
runs, and `NoneIsApart` and `NothingIsApart`, that the absent row, file and snapshot of
Catalog and the absent account of UserAdmin are none of the records. `SkipsAreSafe` and
`PlaceholdersFound` assume that scans do not overlap, which `ActiveScanJobID` is there to
ensure and, as `ScanJobs` shows, does ensure except for a scan that was still queued between
its two queries; `CatalogIsCurrent`, `MovesKeepBooks` and `EditsLostUnseenOnly` assume
nothing of the kind.

**Model-checked only.** Liveness and everything with fairness (`ShutdownCompletes`,
`JobsSettleWhileUp`, `QueueDrains`, `WindowSettles`, `PopoverCloses`) is out of the
prover's reach, as is `ENABLED`. Every other property the runs check is a theorem. No module
that is proved about uses RECURSIVE operators; what a recursive function computes for
every input (`buildSpreads`) is checked for small inputs only, as an induction over data
cannot be carried out by the prover.

Some theorems state properties that no run repeats, because the same invariant already
shows them (`RowsAgree`, `FinishedForGood`, `CancelBeforeStart`, `ShutdownWaits`,
`RegistersRise`, `PlaceholdersFound`, the type theorems).

## 5. What the models found

Where the code does less than one of its comments or documents says, the property that
holds names the exception, and the runs check that property. The definitions in
parentheses state the stronger promise; those the modules keep can be checked in place
of the run's properties to see a counterexample.

Server:

1. **A job submitted during shutdown.** Submit writes the row, files the cancel function
   and counts the job in three statements; Shutdown between them misses it, so "cancels
   all in-flight jobs and waits for them to finish" (`jobs/runner.go:171`) does not hold
   of it. `ShutdownSettlesStartedJobs` does.
2. **A scan coalesced into a dead one** (`CoalescedScanSettles` in ScanJobs). After a
   crash the row of the running scan stays `running` for good, and every later request
   for that library is answered with its id (`transport/http/scan.go:39`). The steps: a
   request submits a scan; it runs; the process dies and restarts; a second request finds
   the row and is answered with the dead job. Nothing at the start of the server settles
   such rows.
3. **Two devices replaying at once.** Both read the stored row before either stores, and
   the older may store last, although "no device can clobber newer progress"
   (`service/reading/service.go:50`); `OlderOnlyOverUnseen` holds.
4. **User edits overwritten by a rescan** (`EditsAreNeverOverwritten` in Catalog). A
   locked book whose file cannot be read is stored with the values of its file name
   (`scanner/scanner.go:401`); and an edit made while the scan holds a snapshot of the
   row is written over. `docs/04-server.md:137` says "never overwritten".
5. **An old token that outlives a change of password** (`NoOldSession` in ClientSession).
   A refresh that had found its session, or a sign-in that had verified the old
   password, stores its pair after the revocation (`service/auth/auth.go:241`).
6. **Arcs that a resumed match does not bring back** (`spoiled` in SeriesMatch). A match
   cancelled at the head of its loop (`service/metadata/service.go:307`), or failing
   between a book and its credits, has linked books whose arcs it never writes; two
   overlapping runs, and a link to another volume and back, lose them likewise. So does an
edit that had read a book before a match changed its link: it writes the old link back
with the row (`service/metadata/service.go:384`), a case the proof of `NoArcLost` brought up.

Client and reader:

7. **A restore that shows an older place** (`RestoreReflectsOffline` in OfflineSync). The
   flush that precedes it (`packages/reader-core/src/server-provider.ts:84`) may be
   skipped, because another is under way, or fail, and the server's older place is used
   although a newer one is queued.
8. **Two requests that refresh one pair.** Both are answered 401 and send the same token;
   the second is refused and signs the user out although the first succeeded. A refresh
   that ends after a sign-in stores the earlier account's pair (`crossed`).
9. **A server remembered without its pair** (`RememberedTogether` in ClientSession).
   Choosing another server remembers it and leaves the pair of the old one stored
   (`apps/client/src/App.tsx:40`).
10. **Fields left alone that are sent** (`UntouchedNumbersStay` in SeriesDesk). A refetch
    that changes a book's number under the open resolver makes its untouched field an
    edit (`apps/client/src/components/ResolveDuplicatesDialog.tsx:317`).
11. **Another entry than the one grabbed** (`GrabbedIsMoved` in ReadingQueue). A drag
    holds an index; a refetch under it makes the drop move what is there now
    (`apps/client/src/routes/ReadingListDetail.tsx:185`).
12. **The wrong next issue, the wrong book** (`OfferIsOfThisBook` in ReaderSession,
    `apps/reader/src/reader/store.ts:69`). An offer answered late stands at the end of the
    next book; and of two overlapping opens the first may land last
    (`apps/reader/src/App.tsx:28`).
13. **Annuals without a cell** (`AnnualsHaveCells` in TrackerBoard). Where the figures in annuals' labels do not grow with
    their sort keys, the layout has no place for some (`apps/client/src/routes/Tracker.tsx:24`).

Smaller gaps the exceptions name: `b \in torn` (`SkippedIsCurrent`) is a scan interrupted
between a row and its pages, after which the row reads as unchanged and its pages are
never written again; `failed` (`NoPlaceLost`) is a batch item the server could not store,
whose queue entry the reader drops all the same; `unheard` (`DetailFollows`) is a match
that failed or was cancelled, of whose changes the series' detail is not told; `missed`
(`ClientCache`) are frames dropped or sent between `onopen` and the subscription, and a
presence strip opened only after frames had filled its cache, which never fetches a
snapshot; `evicted` (`PageCache`) are loads whose entry goes while they are under way,
whose URL is never revoked; `over` (`ReaderSession`) are opens that land over a book
without tearing it down; where two files have one number, a run that ends on it marks one of them
(`RunMarksTheStretch` speaks of the issue clicked: a cell's click is on its first);
`behind` and `unswept` (`UserAdmin`) are changes by others,
PATCHes whose answer is lost between account and sessions, and role changes that cross.

## 6. What is not modelled

The library watcher, bookmarks and sidecar writing are left for later (section 7).
Archive formats, image processing, file name and ComicInfo parsing, provider clients,
queries that only read (browse, search, health, statistics), migrations, routing,
configuration, the desktop shells and the screens that only show what queries answer:
pure functions, pure I/O or layout, where tests and reviews reach everything. Content
ceilings are one comparison. Collections, tags and smart lists are sets with
single-statement operations. Percentages of progress, log lines and wording are
abstracted everywhere. The database is taken to be what SQLite in WAL mode is: one
statement or one transaction is one step, rows survive a crash. The scanner's walk is one
instant: a file that appears behind the walk is missed as if it had come later, one that
disappears before its turn fails at its stat. Times are logical clocks. React Query is
modelled from its use: what invalidation, cancellation and setting data do to a query
that is open.

## 7. The plan

Done, in this order: JobRunner, ScanJobs, LastWriterWins and ReadingProgress,
OfflineSync, Catalog; then the server's metadata, lists and accounts together with the
screens that work on them, the client's caches and session, the reader's session and
caches. Left, by weight:

| Module | Behaviour | Properties and theorems |
|---|---|---|
| `LibraryWatch` | timers, directories, the callback, over ScanJobs' requests and Catalog's notion of a change | every change is followed by a scan that begins after it; what Remove and Close stop stays stopped |
| `Catalog`, extended | sidecar writing as a further writer of whole rows; overlapping scans | what overlapping scans can and cannot damage |
| `ReaderSession`, extended | bookmarks toggled before they are loaded; zoom and rotation carried over | a bookmark's note is not lost |
| `ClientCache`, extended | the job list of the top bar, which nothing resynchronises | at rest it shows the jobs there are |

Of what the runs check, no safety property is left without a theorem. To prove next:
what of `SkippedIsCurrent` survives overlapping scans beyond `RowsAreTrue`, and the steps that
`QueueDrains` and `WindowSettles` rest on (a flush that is answered empties what it sent, a
load that ends settles its page) as action properties.
