----------------------------- MODULE SeriesDesk -----------------------------
(***************************************************************************)
(* The series screen (apps/client/src/routes/Series.tsx) and the dialogs   *)
(* that correct and match its issues (components: ResolveDuplicatesDialog, *)
(* ManageFilesDialog with EditBookDialog, MatchDialog), over the server's  *)
(* SeriesMatch.                                                            *)
(*                                                                         *)
(* A mutation outlives the dialog that began it: its hook's callbacks run  *)
(* whatever is mounted, those given with the call only while the dialog    *)
(* is.  The event stream delivers the end of each job; its losses are the  *)
(* subject of ClientCache.                                                 *)
(***************************************************************************)
EXTENDS SeriesMatch, Sequences

CONSTANTS
    Suggested,  \* book -> number its file name suggests, or None
    Blank,      \* a cache without data
    MaxActs     \* bound on what the user does

ASSUME DeskAssumption ==
    /\ Suggested \in [Books -> Numbers \cup {None}]
    /\ MaxActs \in Nat

VARIABLES
    screen,     \* the series or the home screen
    cache,      \* the series' detail and its list of files, as last fetched
    ask,        \* each one's request: none, sent, or answered with what it read
    stale,      \* caches that were invalidated while nothing showed them
    failed,     \* caches whose last request failed: an error is shown in their place
    dialog,     \* the open dialog with what is typed into it
    call,       \* edit call -> who made it and what it has still to send
    rescan,     \* the rescan request
    frames,     \* job events on their way
    unheard,    \* history: something changed books and announced nothing since
    acts

deskVars == <<screen, cache, ask, stale, failed, dialog, call, rescan, frames, unheard, acts>>
seriesVars == <<matchVars, deskVars>>

Caches == {"detail", "files"}
NoAsk == [at |-> "none"]
Sent == [at |-> "sent"]
NoCall == [by |-> "nobody"]
Closed == [kind |-> "none"]

-----------------------------------------------------------------------------
(***************************************************************************)
(* What the server answers and what the screen shows of it.                *)
(***************************************************************************)
\* Hidden files and extra art are no issues of the series.
Detail == [books |-> [b \in {x \in Books : ~meta[x].ignored /\ meta[x].kind # "cover"} |->
                        [number |-> meta[b].number, kind |-> meta[b].kind]],
           state |-> series.state, link |-> series.link]
Files == [b \in Books |-> [number |-> meta[b].number, kind |-> meta[b].kind,
                           ignored |-> meta[b].ignored]]
Answer(k) == IF k = "detail" THEN Detail ELSE Files

Shown == cache["detail"].books
Issue(b) == b \in DOMAIN Shown /\ Shown[b].kind # "special"

\* The books of the groups findDuplicateNumbers finds.
Colliding(shown) ==
    LET issues == {b \in DOMAIN shown : shown[b].kind # "special"}
    IN  {b \in issues : \E c \in issues \ {b} : Norm[shown[b].number] = Norm[shown[c].number]}
Duplicates == Colliding(Shown)

DeskInit ==
    /\ MatchInit
    /\ screen = "series"
    /\ cache = [k \in Caches |-> IF k = "detail" THEN Detail ELSE Blank]
    /\ ask = [k \in Caches |-> NoAsk] /\ stale = {} /\ failed = {}
    /\ dialog = Closed
    /\ call = [c \in Edits |-> NoCall]
    /\ rescan = "none" /\ frames = <<>> /\ unheard = FALSE /\ acts = 0

Mounted == screen = "series" /\ "detail" \notin failed
Acts == Mounted /\ acts < MaxActs /\ acts' = acts + 1

-----------------------------------------------------------------------------
(***************************************************************************)
(* The two queries.                                                        *)
(***************************************************************************)
\* The detail was fetched when the screen opened.
Loaded(k) == k = "detail" \/ cache[k] # Blank
Observed(k) == IF k = "detail" THEN screen # "home" ELSE Mounted /\ dialog.kind = "files"

\* An active query is sent again, in place of the request under way; a first
\* request is not interrupted.  An inactive one is marked.
InvalidateLater(K) ==  \* mutation: a request under way is left to answer
    /\ ask' = [k \in Caches |-> IF k \in K /\ Observed(k) /\ ask[k] = NoAsk THEN Sent ELSE ask[k]]
    /\ stale' = stale \cup {k \in K : ~Observed(k)} /\ UNCHANGED failed

Invalidate(K) ==
    /\ ask' = [k \in Caches |->
                 IF k \in K /\ Observed(k) /\ (ask[k] = NoAsk \/ Loaded(k))
                 THEN Sent ELSE ask[k]]
    /\ stale' = stale \cup {k \in K : ~Observed(k)} /\ UNCHANGED failed

Serve(k) ==
    /\ series.there
    /\ ask[k] = Sent
    /\ ask' = [ask EXCEPT ![k] = [at |-> "back", data |-> Answer(k)]]
    /\ UNCHANGED <<matchVars, screen, cache, stale, failed, dialog, call, rescan, frames, unheard, acts>>

\* The calls of a dialog that goes away run on without it.
Orphan(from, to) ==
    call' = [c \in Edits |-> IF call[c].by # "nobody" /\ call[c].home = from
                             THEN [call[c] EXCEPT !.home = to] ELSE call[c]]
Leave == dialog' = Closed /\ Orphan("dialog", "view")

\* The answer arrives.  When it leaves no duplicates the resolver closes itself.
Arrive(k) ==
    /\ ask[k].at = "back"
    /\ cache' = [cache EXCEPT ![k] = ask[k].data]
    /\ ask' = [ask EXCEPT ![k] = NoAsk]
    /\ stale' = stale \ {k}
    /\ failed' = failed \ {k}
    /\ IF k = "detail" /\ dialog.kind = "resolve" /\ Colliding(ask[k].data.books) = {}
       THEN Leave ELSE UNCHANGED <<dialog, call>>
    /\ UNCHANGED <<matchVars, screen, rescan, frames, unheard, acts>>

\* It fails, or the series is gone: the error takes the place of what was shown,
\* and the dialogs of the series go with it.
Refuse(k) ==
    /\ ask[k] = Sent
    /\ ask' = [ask EXCEPT ![k] = NoAsk]
    /\ failed' = failed \cup {k}
    /\ IF k = "detail" /\ Mounted
       THEN /\ dialog' = Closed
            /\ call' = [c \in Edits |-> IF call[c].by = "nobody" THEN NoCall
                                        ELSE [call[c] EXCEPT !.home = "gone"]]
       ELSE UNCHANGED <<dialog, call>>
    /\ UNCHANGED <<matchVars, screen, cache, stale, rescan, frames, unheard, acts>>

Retry ==
    /\ acts < MaxActs /\ acts' = acts + 1
    /\ \E k \in failed : Observed(k) /\ ask[k] = NoAsk /\ ask' = [ask EXCEPT ![k] = Sent]
    /\ UNCHANGED <<matchVars, screen, cache, stale, failed, dialog, call, rescan, frames, unheard>>

-----------------------------------------------------------------------------
(***************************************************************************)
(* Calls that edit a book.                                                 *)
(***************************************************************************)
Pending(by) == \E c \in Edits : call[c].by = by /\ call[c].home = "dialog"
Send(c, b, patch, who) ==
    /\ call[c].by = "nobody"
    /\ call' = [call EXCEPT ![c] = who]
    /\ Ask(c, b, patch)
    /\ UNCHANGED <<meta, locks, series, arcs, run, started, spoiled>>

Hangup(c) == edit' = [edit EXCEPT ![c] = Idle]

\* useEditBook's answer: both caches follow, and the form closes if it is still open.
EditAnswered(c) ==
    /\ edit[c].at = "ok" /\ call[c].by \in {"quick", "form"}
    /\ Hangup(c)
    /\ call' = [call EXCEPT ![c] = NoCall]
    /\ Invalidate({"detail", "files"})
    /\ dialog' = IF call[c].by = "form" /\ call[c].home = "dialog"
                 THEN [kind |-> "files"] ELSE dialog
    /\ unheard' = FALSE
    /\ UNCHANGED <<meta, locks, series, arcs, run, started, spoiled,
                   screen, cache, rescan, frames, acts>>

\* The loop of the resolver goes on to the next book.
ApplyNext(c) ==
    LET left == call[c].todo IN
    /\ edit[c].at = "ok" /\ call[c].by = "apply" /\ left # {}
    /\ LET b == CHOOSE x \in left : \A y \in left : x <= y
       IN  /\ Ask(c, b, [number |-> call[c].values[b]])
           /\ call' = [call EXCEPT ![c].todo = left \ {b}]
    /\ UNCHANGED <<meta, locks, series, arcs, run, started, spoiled,
                   screen, cache, ask, stale, failed, dialog, rescan, frames, unheard, acts>>

ApplyEnds(c) ==
    /\ call' = [call EXCEPT ![c] = NoCall]
    /\ dialog' = IF call[c].home # "gone" /\ dialog.kind = "resolve" THEN Closed ELSE dialog

\* Its end refreshes the detail and closes the resolver, be it another than its own.
ApplyAnswered(c) ==
    /\ edit[c].at = "ok" /\ call[c].by = "apply" /\ call[c].todo = {}
    /\ Hangup(c) /\ ApplyEnds(c)
    /\ Invalidate({"detail"})
    /\ unheard' = FALSE
    /\ UNCHANGED <<meta, locks, series, arcs, run, started, spoiled,
                   screen, cache, rescan, frames, acts>>

\* An error is shown; nothing is refreshed, whatever was written by then.
CallFails(c) ==
    /\ edit[c].at = "error"
    /\ Hangup(c)
    /\ call' = [call EXCEPT ![c] = NoCall]
    /\ unheard' = TRUE
    /\ UNCHANGED <<meta, locks, series, arcs, run, started, spoiled,
                   screen, cache, ask, stale, failed, dialog, rescan, frames, acts>>

-----------------------------------------------------------------------------
(***************************************************************************)
(* Resolving duplicates.                                                   *)
(***************************************************************************)
Quiet == UNCHANGED <<screen, cache, ask, stale, failed, rescan, frames, unheard>>

\* Each field starts with what the file name suggests, else the book's number.
OpenResolve ==
    /\ Acts /\ dialog = Closed /\ Duplicates # {}
    /\ dialog' = [kind |-> "resolve",
                  values |-> [b \in Duplicates |->
                                IF Suggested[b] # None THEN Suggested[b] ELSE Shown[b].number]]
    /\ UNCHANGED <<matchVars, call>> /\ Quiet

TypeNumber ==
    /\ Acts /\ dialog.kind = "resolve"
    /\ \E b \in Duplicates, n \in Numbers :
         /\ b \in DOMAIN dialog.values => dialog.values[b] # n
         /\ dialog' = [dialog EXCEPT !.values =
                         [x \in DOMAIN dialog.values \cup {b} |->
                            IF x = b THEN n ELSE dialog.values[x]]]
    /\ UNCHANGED <<matchVars, call>> /\ Quiet

\* A field that differs from the number shown is a change, typed or not.
Changes == {b \in Duplicates \cap DOMAIN dialog.values : dialog.values[b] # Shown[b].number}

Apply ==
    /\ Acts /\ dialog.kind = "resolve"
    /\ Changes # {} /\ ~Pending("apply")
    /\ \E c \in Edits :
         LET b == CHOOSE x \in Changes : \A y \in Changes : x <= y
         IN  Send(c, b, [number |-> dialog.values[b]],
                  [by |-> "apply", home |-> "dialog", todo |-> Changes \ {b},
                   values |-> dialog.values])
    /\ UNCHANGED dialog /\ Quiet

\* "Mark as cover" and "Ignore" take a file out of the run.
RowAction == dialog.kind = "resolve" /\ ~Pending("quick")
QuickResolve ==
    /\ Acts /\ RowAction
    /\ \E c \in Edits, b \in Duplicates, patch \in {[kind |-> "cover"], [ignored |-> TRUE]} :
         Send(c, b, patch, [by |-> "quick", home |-> "dialog"])
    /\ UNCHANGED dialog /\ Quiet

-----------------------------------------------------------------------------
(***************************************************************************)
(* Managing files, and the form of one of them.                            *)
(***************************************************************************)
\* The list is fetched unless it is there, unmarked, and less than 30 seconds old.
OpenFiles ==
    /\ Acts /\ dialog = Closed
    /\ dialog' = [kind |-> "files"]
    /\ \/ ask' = [ask EXCEPT !["files"] = IF @ = NoAsk THEN Sent ELSE @]
       \/ cache["files"] # Blank /\ "files" \notin stale /\ UNCHANGED ask
    /\ UNCHANGED <<matchVars, call, screen, cache, stale, failed, rescan, frames, unheard>>

Listed == dialog.kind = "files" /\ cache["files"] # Blank /\ "files" \notin failed
Editing == dialog.kind = "files" /\ "book" \in DOMAIN dialog

ToggleIgnore ==
    /\ Acts /\ Listed /\ ~Editing /\ ~Pending("quick")
    /\ \E c \in Edits, b \in Books :
         Send(c, b, [ignored |-> ~cache["files"][b].ignored], [by |-> "quick", home |-> "dialog"])
    /\ UNCHANGED dialog /\ Quiet

\* The form keeps the row it was opened with, however the list is refetched.
EditFile ==
    /\ Acts /\ Listed /\ ~Editing
    /\ \E b \in Books :
         dialog' = [kind |-> "files", book |-> b, base |-> cache["files"][b],
                    form |-> cache["files"][b], touched |-> {}]
    /\ UNCHANGED <<matchVars, call>> /\ Quiet

Choices(f) ==
    IF f = "number" THEN Numbers ELSE IF f = "kind" THEN Kinds ELSE BOOLEAN

Touch ==
    /\ Acts /\ Editing
    /\ \E f \in Fields : \E x \in Choices(f) \ {dialog.form[f]} :
         dialog' = [dialog EXCEPT !.form[f] = x, !.touched = @ \cup {f}]
    /\ UNCHANGED <<matchVars, call>> /\ Quiet

PatchLive ==  \* mutation: the form is compared with the list as it is now
    LET live == cache["files"][dialog.book]
    IN  [f \in {g \in Fields : dialog.form[g] # live[g]} |-> dialog.form[f]]

Patch == [f \in {g \in Fields : dialog.form[g] # dialog.base[g]} |-> dialog.form[f]]

SaveEdit ==
    /\ Acts /\ Editing
    /\ DOMAIN Patch # {} /\ ~Pending("form")
    /\ \E c \in Edits : Send(c, dialog.book, Patch, [by |-> "form", home |-> "dialog"])
    /\ UNCHANGED dialog /\ Quiet

CancelEdit ==
    /\ Acts /\ Editing
    /\ dialog' = [kind |-> "files"]
    /\ call' = [c \in Edits |-> IF call[c].by = "form" /\ call[c].home = "dialog"
                                THEN [call[c] EXCEPT !.home = "view"] ELSE call[c]]
    /\ UNCHANGED matchVars /\ Quiet

-----------------------------------------------------------------------------
(***************************************************************************)
(* Matching and rescanning.                                                *)
(***************************************************************************)
OpenDialog(kind) ==
    /\ Acts /\ dialog = Closed
    /\ dialog' = [kind |-> kind]
    /\ UNCHANGED <<matchVars, call>> /\ Quiet

CloseDialog ==
    /\ Acts /\ dialog # Closed /\ ~Editing
    /\ Leave
    /\ UNCHANGED matchVars /\ Quiet

\* A candidate is used: the job is queued and the dialog closes, or an error is shown.
UseCandidate ==
    /\ Acts /\ dialog.kind = "match"
    /\ \E r \in Runs, v \in Volumes : Submit(r, v)
    /\ dialog' = Closed
    /\ UNCHANGED <<meta, locks, series, arcs, edit, spoiled, call>> /\ Quiet

\* An incomplete series that is linked is matched again to the same volume.
canContinueMatch == cache["detail"].state = "incomplete" /\ cache["detail"].link # None
ContinueMatch ==
    /\ Acts /\ dialog = Closed /\ canContinueMatch
    /\ \E r \in Runs : Submit(r, cache["detail"].link)
    /\ UNCHANGED <<meta, locks, series, arcs, edit, spoiled, dialog, call>> /\ Quiet

ConfirmRescan ==
    /\ Acts /\ dialog.kind = "rescan" /\ rescan = "none"
    /\ dialog' = Closed /\ rescan' = "sent"
    /\ UNCHANGED <<matchVars, call, screen, cache, ask, stale, failed, frames, unheard>>

\* The server deletes the series and starts a scan, or refuses.
RescanServed ==
    /\ rescan = "sent"
    /\ \/ rescan' = "done" /\ series' = [series EXCEPT !.there = FALSE]
       \/ rescan' = "none" /\ UNCHANGED series
    /\ UNCHANGED <<meta, locks, arcs, run, edit, started, spoiled,
                   screen, cache, ask, stale, failed, dialog, call, frames, unheard, acts>>

\* Every query is refreshed, and wherever the user is by now the home screen opens.
RescanAnswered ==
    /\ rescan = "done"
    /\ rescan' = "over" /\ screen' = "home" /\ dialog' = Closed
    /\ call' = [c \in Edits |-> IF call[c].by = "nobody" THEN NoCall
                                ELSE [call[c] EXCEPT !.home = "gone"]]
    /\ Invalidate(Caches)
    /\ UNCHANGED <<matchVars, cache, frames, unheard, acts>>

-----------------------------------------------------------------------------
(***************************************************************************)
(* Jobs and their events.                                                  *)
(***************************************************************************)
RunMoves(r) ==
    /\ RunRuns(r)
    /\ frames' = IF run'[r].at \in Ended /\ run[r].at # run'[r].at
                 THEN Append(frames, run'[r].at) ELSE frames
    /\ UNCHANGED <<screen, cache, ask, stale, failed, dialog, call, rescan, unheard, acts>>

\* A job that is over leaves the runner.
RunForgotten(r) ==
    /\ run[r].at \in Ended
    /\ run' = [run EXCEPT ![r] = Idle]
    /\ UNCHANGED <<meta, locks, series, arcs, edit, started, spoiled, deskVars>>

EditMoves(c) == EditRuns(c) /\ UNCHANGED deskVars

\* Only a job that is done refreshes the series: one that failed, or was
\* cancelled, has written books as well.
OnJob ==
    /\ frames # <<>>
    /\ frames' = Tail(frames)
    /\ IF Head(frames) = "done"
       THEN Invalidate({"detail"}) /\ unheard' = FALSE
       ELSE unheard' = TRUE /\ UNCHANGED <<ask, stale, failed>>
    /\ UNCHANGED <<matchVars, screen, cache, dialog, call, rescan, acts>>

-----------------------------------------------------------------------------
DeskNext ==
    \/ \E k \in Caches : Serve(k) \/ Arrive(k) \/ Refuse(k)
    \/ Retry
    \/ \E c \in Edits : EditAnswered(c) \/ ApplyNext(c) \/ ApplyAnswered(c) \/ CallFails(c) \/ EditMoves(c)
    \/ OpenResolve \/ TypeNumber \/ Apply \/ QuickResolve
    \/ OpenFiles \/ ToggleIgnore \/ EditFile \/ Touch \/ SaveEdit \/ CancelEdit
    \/ OpenDialog("match") \/ OpenDialog("rescan") \/ CloseDialog
    \/ UseCandidate \/ ContinueMatch
    \/ ConfirmRescan \/ RescanServed \/ RescanAnswered
    \/ \E r \in Runs : RunMoves(r) \/ RunForgotten(r)
    \/ OnJob

DeskSpec == DeskInit /\ [][DeskNext]_seriesVars

-----------------------------------------------------------------------------
(***************************************************************************)
(* Properties.                                                             *)
(***************************************************************************)
Settled ==
    /\ \A c \in Edits : call[c].by = "nobody"
    /\ \A r \in Runs : run[r].at \in {"idle", "queued"}
    /\ frames = <<>> /\ ask["detail"] = NoAsk /\ rescan = "none"

\* Once every call is answered, every job over and its event heard, the screen
\* shows the series as it is stored, whatever was fetched in between
\* (queries.ts:128-137, events.ts:53-57).  Not heard are a failed or cancelled
\* match and a call that was answered with an error although it had written.
DetailFollows ==
    Settled /\ Mounted /\ ~unheard => cache["detail"] = Detail

\* A save from Manage files sends no field the user did not touch, however the
\* list changed while the form was open (EditBookDialog.tsx:52-62).
SaveSendsWhatWasTouched ==
    [][\A c \in Edits :
          call[c].by = "nobody" /\ call'[c].by = "form" =>
              DOMAIN edit'[c].patch \subseteq dialog.touched]_seriesVars

\* "that file keeps its current number" (ResolveDuplicatesDialog.tsx:317-318): a number the
\* user left alone in the resolver is never written.  The code violates it: a
\* refetch that changes the number makes the untouched field a change.
UntouchedNumbersStay ==
    [][\A c \in Edits :
          edit[c].at # "get" /\ edit'[c].at = "get" /\ call'[c].by = "apply" =>
              edit'[c].patch.number # Scanned[edit'[c].book]]_seriesVars
=============================================================================
