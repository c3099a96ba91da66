---------------------------- MODULE ReaderSession ----------------------------
(***************************************************************************)
(* The reader's session store (apps/reader/src/reader/store.ts): opening a *)
(* book in the steps its awaits divide it into, while another is shown or  *)
(* being opened; turning pages and changing the layout; the debounced      *)
(* saves of the place and of the settings; the offer of the next issue.    *)
(*                                                                         *)
(* A save that is sent is stored: what happens to it on the way is         *)
(* OfflineSync's.  Of the settings only the layout is kept, and per-book   *)
(* settings are remembered.  The page cache of an open is PageCache.       *)
(***************************************************************************)
EXTENDS Integers, Sequences, SequencesExt, FiniteSets

CONSTANTS
  Books,
  LastPage,      \* the last page of every book; pages are numbered from 0
  Wide,      \* book -> its landscape pages
  Layouts,   \* "single", "double", "cover": double with the cover alone
  Starts,    \* start pages a link may carry
  MaxOpens   \* bound of the opens

Pages == 0 .. LastPage
NoPage == -1
NoBook == "none"
Opens == 1 .. MaxOpens

ASSUME ReaderAssumption ==
  /\ LastPage \in Nat /\ MaxOpens \in Nat
  /\ NoBook \notin Books
  /\ Wide \in [Books -> SUBSET Pages]
  /\ Layouts \subseteq {"single", "double", "cover"} /\ "single" \in Layouts
  /\ Starts \subseteq Pages

VARIABLES
  open,      \* open -> its book, its start page, how far it is, what it has loaded
  begun,     \* opens begun
  status,    \* the screen: "idle", "loading", "ready", "error"
  manifest,  \* the open whose manifest, spreads and page are in the store; 0 at first
  provider,  \* the open whose provider is in the store, 0 between books
  page, finished, layout,
  defaults,  \* the layout chosen last for any book
  saveTimer, prefsTimer,
  next,      \* the book whose next issue is offered
  asked,     \* books whose next issue is being asked for
  cache,     \* open -> "none", "live", "disposed": its page and thumbnail caches
  place,     \* the backend: book -> the place saved for it
  prefs,     \* the backend: book -> the layout saved for it
  last,      \* history: book -> the place the reader had in it, until another open lands over it
  chosen,    \* history: book -> the layout chosen for it, until it is left with the choice unsaved
  over       \* history: opens another open landed over, without a teardown

reader == <<status, manifest, provider, page, finished, layout, defaults>>
timers == <<saveTimer, prefsTimer>>
offer == <<next, asked>>
backend == <<place, prefs>>
history == <<last, chosen, over>>
vars == <<open, begun, reader, timers, offer, cache, backend, history>>

Unset == "unset"
Place == [page : Pages, finished : BOOLEAN]
NoPlace == [page |-> 0, finished |-> FALSE]
Stages == {"none", "open", "prefs", "restore", "landed", "failed"}
NoOpen == [book |-> NoBook, start |-> NoPage, stage |-> "none", layout |-> "single"]

TypeOK ==
  /\ open \in [Opens -> [book : Books \cup {NoBook}, start : Pages \cup {NoPage},
                         stage : Stages, layout : Layouts]]
  /\ begun \in 0 .. MaxOpens
  /\ status \in {"idle", "loading", "ready", "error"}
  /\ manifest \in 0 .. MaxOpens /\ provider \in 0 .. MaxOpens
  /\ page \in Pages /\ finished \in BOOLEAN /\ layout \in Layouts /\ defaults \in Layouts
  /\ saveTimer \in BOOLEAN /\ prefsTimer \in BOOLEAN
  /\ next \in Books \cup {NoBook} /\ asked \subseteq Books
  /\ cache \in [Opens -> {"none", "live", "disposed"}]
  /\ place \in [Books -> Place]
  /\ prefs \in [Books -> Layouts \cup {Unset}]
  /\ last \in [Books -> Place]
  /\ chosen \in [Books -> Layouts \cup {Unset}]
  /\ over \subseteq Opens

Init ==
  /\ open = [o \in Opens |-> NoOpen] /\ begun = 0
  /\ status = "idle" /\ manifest = 0 /\ provider = 0
  /\ page = 0 /\ finished = FALSE
  /\ layout = "single" /\ defaults = "single"
  /\ saveTimer = FALSE /\ prefsTimer = FALSE
  /\ next = NoBook /\ asked = {}
  /\ cache = [o \in Opens |-> "none"]
  /\ place = [b \in Books |-> NoPlace]
  /\ prefs = [b \in Books |-> Unset]
  /\ last = [b \in Books |-> NoPlace]
  /\ chosen = [b \in Books |-> Unset]
  /\ over = {}

-----------------------------------------------------------------------------
(* layout.ts: the spreads of a book.                                       *)

\* Of pages 0 .. n, those of wide being landscape.
buildSpreads(n, wide, lay) ==
  LET alone(i) == \/ lay = "single" \/ (i = 0 /\ lay = "cover")
                  \/ i \in wide \/ i = n \/ i + 1 \in wide
      from[i \in 0 .. n + 2] ==
        IF i > n THEN <<>>
        ELSE IF alone(i) THEN <<<<i>>>> \o from[i + 1]
        ELSE <<<<i, i + 1>>>> \o from[i + 2]
  IN from[0]

\* The index of the spread that holds page p, the first when there is none.
spreadIndexOf(spreads, p) ==
  IF \E i \in DOMAIN spreads : p \in ToSet(spreads[i])
  THEN CHOOSE i \in DOMAIN spreads : p \in ToSet(spreads[i]) ELSE 1

BookOf(o) == open[o].book
SpreadsOf(b, lay) == buildSpreads(LastPage, Wide[b], lay)
Spreads == SpreadsOf(BookOf(manifest), layout)

-----------------------------------------------------------------------------
(* navigateTo, and the saves.                                              *)

\* A place worth recording: persistsPlace.
Worth(pl) == pl.page > 0 \/ pl.finished
Here == [page |-> page, finished |-> finished]
Save(o) == place' = IF o # 0 /\ Worth(Here) THEN [place EXCEPT ![BookOf(o)] = Here] ELSE place

\* The store effects of finished (Reader.tsx): ask for the next issue, or forget it.
OfferFor(b, done) ==
  IF done THEN asked' = asked \cup {b} /\ UNCHANGED next
  ELSE next' = NoBook /\ UNCHANGED asked

\* Show page p of open o's book in layout lay: the start of p's spread.
ShowPage(o, p, lay) ==
  LET b == BookOf(o)
      spreads == SpreadsOf(b, lay)
      i == spreadIndexOf(spreads, p)
      done == i = Len(spreads)
  IN /\ page' = spreads[i][1] /\ finished' = done
     /\ saveTimer' = TRUE
     /\ last' = [x \in Books |-> IF x = b THEN [page |-> spreads[i][1], finished |-> done]
                                ELSE IF provider \in {0, o} \/ BookOf(provider) # x
                                THEN last[x] ELSE NoPlace]
     /\ IF done = finished /\ status = "ready" THEN UNCHANGED offer ELSE OfferFor(b, done)

Reading == status = "ready"

navigateTo(p) ==
  /\ Reading
  /\ ShowPage(manifest, p, layout)
  /\ UNCHANGED <<open, begun, status, manifest, provider, layout, defaults, prefsTimer, cache,
                 backend, chosen, over>>

\* next, at the last spread: the book is finished, and its place saved at once.
Finish ==
  /\ finished' = TRUE
  /\ last' = [last EXCEPT ![BookOf(manifest)].finished = TRUE]
  /\ place' = [place EXCEPT ![BookOf(manifest)] = [page |-> page, finished |-> TRUE]]
  /\ IF finished THEN UNCHANGED offer ELSE OfferFor(BookOf(manifest), TRUE)
  /\ UNCHANGED <<open, begun, status, manifest, provider, page, layout, defaults, timers, cache,
                 prefs, chosen, over>>

Forward ==
  LET i == spreadIndexOf(Spreads, page) IN
  /\ Reading
  /\ IF i = Len(Spreads) THEN Finish ELSE navigateTo(Spreads[i + 1][1])

Back ==
  LET i == spreadIndexOf(Spreads, page) IN
  /\ Reading /\ i > 1
  /\ navigateTo(Spreads[i - 1][1])

Jump(p) == navigateTo(p)

setLayout(lay) ==
  /\ Reading
  /\ layout' = lay /\ defaults' = lay
  /\ ShowPage(manifest, page, lay)
  /\ prefsTimer' = TRUE
  /\ chosen' = [chosen EXCEPT ![BookOf(manifest)] = lay]
  /\ UNCHANGED <<open, begun, status, manifest, provider, cache, backend, over>>

dismissFinished ==
  /\ Reading /\ finished
  /\ finished' = FALSE /\ next' = NoBook
  /\ last' = [last EXCEPT ![BookOf(manifest)].finished = FALSE]
  /\ UNCHANGED <<open, begun, status, manifest, provider, page, layout, defaults, timers, asked,
                 cache, backend, chosen, over>>

\* The timer of a save, or the window is hidden.
flushProgress ==
  /\ saveTimer' = FALSE
  /\ Save(provider)
  /\ UNCHANGED <<open, begun, reader, prefsTimer, offer, cache, prefs, history>>

SaveFires == saveTimer /\ flushProgress

\* The window is hidden, which leaves the timer armed.
Hide ==
  /\ Reading
  /\ Save(provider)
  /\ UNCHANGED <<open, begun, reader, timers, offer, cache, prefs, history>>

\* History: an open that has read the settings of book b will bring the old ones back.
ReadBefore(b) == \E o \in Opens : open[o].stage = "restore" /\ BookOf(o) = b

SaveForLatestOpen ==  \* mutation: the settings go to the book opened last
  /\ prefsTimer
  /\ prefsTimer' = FALSE
  /\ prefs' = IF manifest = 0 THEN prefs ELSE [prefs EXCEPT ![BookOf(begun)] = layout]
  /\ UNCHANGED <<open, begun, reader, saveTimer, offer, cache, place, history>>

\* The settings that are in the store when the timer fires go to the book that is.
PrefsFire ==
  LET b == BookOf(manifest) IN
  /\ prefsTimer
  /\ prefsTimer' = FALSE
  /\ IF manifest = 0 THEN UNCHANGED <<prefs, chosen>>
     ELSE /\ prefs' = [prefs EXCEPT ![b] = layout]
          /\ chosen' = IF ReadBefore(b) THEN [chosen EXCEPT ![b] = Unset] ELSE chosen
  /\ UNCHANGED <<open, begun, reader, saveTimer, offer, cache, place, last, over>>

-----------------------------------------------------------------------------
(* Opening a book.                                                         *)

\* History: the choice a pending save was for may now be lost.
LeaveChoice == chosen' = IF prefsTimer /\ manifest # 0
                         THEN [chosen EXCEPT ![BookOf(manifest)] = Unset] ELSE chosen

KeepCaches ==  \* mutation: the caches are not disposed on the way out
  /\ Save(provider)
  /\ saveTimer' = FALSE
  /\ provider' = 0 /\ finished' = FALSE /\ next' = NoBook
  /\ LeaveChoice
  /\ UNCHANGED <<cache, manifest, page, layout, defaults, prefsTimer, asked, prefs, last,
                 over>>

teardownCurrent ==
  /\ Save(provider)
  /\ saveTimer' = FALSE
  /\ cache' = IF provider = 0 THEN cache ELSE [cache EXCEPT ![provider] = "disposed"]
  /\ provider' = 0 /\ finished' = FALSE /\ next' = NoBook
  /\ LeaveChoice
  /\ UNCHANGED <<manifest, page, layout, defaults, prefsTimer, asked, prefs, last,
                 over>>

Begin(b, start) ==
  /\ begun < MaxOpens
  /\ begun' = begun + 1
  /\ open' = [open EXCEPT ![begun + 1] =
                [book |-> b, start |-> start, stage |-> "open", layout |-> "single"]]
  /\ status' = "loading"

\* init at the start, and again on "Try again": nothing is torn down.
init(b, start) ==
  /\ status \in {"idle", "error"}
  /\ Begin(b, start)
  /\ UNCHANGED <<manifest, provider, page, finished, layout, defaults, timers, offer, cache,
                 backend, history>>

\* A link from the client, or a file from the picker, which other opens may overtake.
openUrl(b, start) ==
  /\ begun > 0
  /\ teardownCurrent
  /\ Begin(b, start)

\* The next issue, from the end card or by a forward key.
loadNext(b) ==
  /\ Reading /\ finished /\ next \notin {b, NoBook}
  /\ teardownCurrent
  /\ Begin(b, NoPage)

\* The book cannot be opened, or the launch names none.
OpenFails(o) ==
  /\ open[o].stage = "open"
  /\ open' = [open EXCEPT ![o] = [NoOpen EXCEPT !.stage = "failed"]]
  /\ status' \in {"error", "idle"}
  /\ UNCHANGED <<begun, manifest, provider, page, finished, layout, defaults, timers, offer,
                 cache, backend, history>>

\* The manifest is here: the caches are built, and an offer of the next issue forgotten.
ManifestLoaded(o) ==
  /\ open[o].stage = "open"
  /\ open' = [open EXCEPT ![o].stage = "prefs", ![o].layout = defaults]
  /\ next' = NoBook
  /\ cache' = [cache EXCEPT ![o] = "live"]
  /\ UNCHANGED <<begun, reader, timers, asked, backend, history>>

PrefsLoaded(o) ==
  /\ open[o].stage = "prefs"
  /\ open' = [open EXCEPT ![o].stage = "restore",
                          ![o].layout = IF prefs[BookOf(o)] = Unset THEN @ ELSE prefs[BookOf(o)]]
  /\ UNCHANGED <<begun, reader, timers, offer, cache, backend, history>>

\* The page a book opens at: the link's, else the restored one.
EntryPage(o) ==
  IF open[o].start # NoPage THEN open[o].start ELSE place[BookOf(o)].page

\* The place is restored and the book shown, over whatever is shown by then.
Land(o) ==
  /\ open[o].stage = "restore"
  /\ open' = [open EXCEPT ![o] = [NoOpen EXCEPT !.book = BookOf(o), !.stage = "landed"]]
  /\ status' = "ready" /\ manifest' = o /\ provider' = o
  /\ layout' = open[o].layout
  /\ ShowPage(o, EntryPage(o), open[o].layout)
  /\ over' = over \cup ({provider} \ {0})
  /\ LeaveChoice
  /\ UNCHANGED <<begun, defaults, prefsTimer, cache, backend>>

\* The answer of fetchNext, whichever book is shown by then; it may be that there is none.
NextAnswered(b) ==
  /\ b \in asked
  /\ asked' = asked \ {b}
  /\ next' \in {b, NoBook}
  /\ UNCHANGED <<open, begun, reader, timers, cache, backend, history>>

\* The app is unmounted: the place is saved, unsaved settings are not.
dispose ==
  /\ status # "idle"
  /\ Save(provider)
  /\ saveTimer' = FALSE /\ prefsTimer' = FALSE
  /\ cache' = IF provider = 0 THEN cache ELSE [cache EXCEPT ![provider] = "disposed"]
  /\ provider' = 0 /\ status' = "idle"
  /\ LeaveChoice
  /\ UNCHANGED <<open, begun, manifest, page, finished, layout, defaults, offer, prefs, last,
                 over>>

\* A forward key at the end of a book whose next issue is offered opens that issue; a
\* backward one is a turn.
KeyForward == IF Reading /\ finished /\ next # NoBook THEN \E b \in Books : loadNext(b) ELSE Forward

toggleLayout == IF layout = "single" THEN setLayout("double") ELSE setLayout("single")

Keyboard == KeyForward \/ Back \/ Jump(0) \/ Jump(LastPage) \/ toggleLayout

\* The click zones of the page, a layout from the settings panel.
Pointer == Forward \/ Back \/ \E lay \in Layouts : setLayout(lay)

\* The card at the end of a book; its countdown or its button opens the next issue.
EndCard == dismissFinished \/ \E b \in Books : loadNext(b)

\* The scrubber, a bookmark, the continuous view as it is scrolled, "Start over".
GoTo == \E p \in Pages : Jump(p)

Launch == \E b \in Books, s \in Starts \cup {NoPage} : init(b, s) \/ openUrl(b, s)

OpenStep(o) == OpenFails(o) \/ ManifestLoaded(o) \/ PrefsLoaded(o) \/ Land(o)

Next ==
  \/ Keyboard \/ Pointer \/ EndCard \/ GoTo \/ Launch
  \/ SaveFires \/ Hide \/ PrefsFire \/ dispose
  \/ \E b \in Books : NextAnswered(b)
  \/ \E o \in Opens : OpenStep(o)

Spec == Init /\ [][Next]_vars
-----------------------------------------------------------------------------
\* The place of a book is saved, or about to be, or not worth saving.
NoTurnLost ==
  \A b \in Books : Worth(last[b]) =>
    \/ (place[b].page = last[b].page /\ (last[b].finished => place[b].finished))
    \/ (saveTimer /\ provider # 0 /\ BookOf(provider) = b)

\* The caches of an open are disposed once it is left.
CachesAccounted ==
  \A o \in Opens : cache[o] = "live" =>
    o = provider \/ open[o].stage \in {"prefs", "restore"} \/ o \in over

\* Leaving a book, by any way out, loses neither its place nor its caches: they are lost
\* only when another open lands over the book, which tears nothing down.
NothingLeftBehind == NoTurnLost /\ CachesAccounted

\* A layout chosen for a book is saved for that book, or about to be, and stays saved,
\* unless the book was left before the timer fired, or an open that had read its settings
\* before brings them back.
ChoiceKept ==
  \A b \in Books : chosen[b] # Unset =>
    \/ prefs[b] = chosen[b]
    \/ (prefsTimer /\ manifest # 0 /\ BookOf(manifest) = b /\ layout = chosen[b])

\* The spreads of a book of up to most + 1 pages show every page once and in order, a landscape page alone, and leave no
\* two pages unpaired in a row that could have been a pair.
SpreadsCover(most) ==
  \A n \in 0 .. most, lay \in {"single", "double", "cover"} : \A wide \in SUBSET (0 .. n) :
    LET s == buildSpreads(n, wide, lay)
        unpaired(i) == Len(s[i]) = 1 /\ s[i][1] \notin wide /\ (lay = "cover" => i > 1)
    IN /\ FlattenSeq(s) = [i \in 1 .. n + 1 |-> i - 1]
       /\ \A i \in DOMAIN s : Len(s[i]) = 1 \/ (Len(s[i]) = 2 /\ ToSet(s[i]) \cap wide = {})
       /\ lay = "single" => \A i \in DOMAIN s : Len(s[i]) = 1
       /\ lay # "single" => \A i \in 1 .. Len(s) - 1 : ~(unpaired(i) /\ unpaired(i + 1))

\* "The next issue offered at the end of this one" (store.ts:69).
OfferIsOfThisBook == Reading /\ finished /\ next # NoBook => next = BookOf(manifest)

\* "re-open that book in place" (App.tsx:28): once every open has ended well, the book
\* shown is the one opened last.
LastOpenedIsShown ==
  (\A o \in 1 .. begun : open[o].stage = "landed") /\ provider # 0 => provider = begun
=============================================================================
