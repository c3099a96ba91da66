---------------------------- MODULE ClientCache ----------------------------
(***************************************************************************)
(* What the web client shows against what the server holds.  The client    *)
(* reads the server through React Query (lib/queries.ts), refreshes what   *)
(* it has read when a frame arrives on the WebSocket (lib/events.ts), and  *)
(* flips tracker cells before their writes are answered.  The server's     *)
(* hub (transport/http/ws.go) drops the frames a slow socket has no room   *)
(* for; what is published while the socket is down is lost.                *)
(*                                                                         *)
(* Three views stand for the queries: "tracker", the cells of the tracker; *)
(* "detail", the series, home and book pages, which show read state and    *)
(* catalog rows; "presence", who is reading now.  A screen once visited     *)
(* stays open.  React Query itself is external: an open query that has     *)
(* data is refetched from the start when it is invalidated, one that has   *)
(* none keeps the request it has; cancelling a refetch restores what was   *)
(* shown when it began; data that is set stops being invalid.              *)
(***************************************************************************)
EXTENDS Naturals, Sequences, FiniteSets

CONSTANTS Issues,      \* the cells of the tracker
          Members,     \* who else may be reading
          Screens,     \* the sets of views a session may visit
          Blank,       \* no answer, no snapshot
          Room,        \* wsSendBuffer: frames a socket may have waiting
          Ids,         \* the mutations this client may make
          MaxBeats,    \* presence calls of each member
          MaxEvents    \* mutations, writes of the user's other devices, scans,
                       \* requests that fail, and times the socket breaks, together

VARIABLES
  read,      \* the server: read state of every issue
  version,   \* the server: how often what "detail" shows has changed
  seat,      \* the server: each member's presence, as the number of its last call
  notes,     \* presence calls that have unlocked and not yet notified
  conn,      \* "down"; "open", not yet subscribed; "up"
  had,       \* hadConnection
  frames,    \* the socket's frames on their way
  held,      \* what each query holds
  session,   \* the views this session visits
  open,      \* those it has visited
  loaded,    \* it holds anything
  stale,     \* the presence query was invalidated before it was visited
  fetch,     \* its request: "idle", "sent", "answered"
  answer,    \* the answer, read by the server and not yet shown
  base,      \* what the tracker held when its request was sent
  changes,   \* this client's mutations
  missed,    \* history: views with a change nothing will tell them of
  events     \* how many of these there have been

queryVars == <<read, version, seat, notes, conn, had, frames, session, open, held,
               loaded, stale, fetch, answer, base, changes, missed, events>>
serverState == <<read, version, seat, notes>>
link == <<conn, had, frames>>
visits == <<session, open, stale>>
cache == <<visits, held, loaded, fetch, answer, base>>

Views == {"tracker", "detail", "presence"}
Cells == [Issues -> BOOLEAN]
Nobody == [w \in Members |-> 0]

Idle == [kind |-> "none", to |-> FALSE, left |-> {}, prev |-> Blank, over |-> FALSE]

QueriesInit ==
  /\ read = [i \in Issues |-> FALSE]
  /\ version = 0
  /\ seat = Nobody
  /\ notes = {}
  /\ conn = "down"
  /\ had = FALSE
  /\ frames = <<>>
  /\ held = [tracker |-> read, detail |-> 0, presence |-> Nobody]
  /\ session \in Screens /\ open = {}
  /\ loaded = [v \in Views |-> FALSE] /\ stale = FALSE
  /\ fetch = [v \in Views |-> "idle"]
  /\ answer = [v \in Views |-> Blank]
  /\ base = Blank
  /\ changes = [m \in Ids |-> Idle]
  /\ missed = [v \in Views |-> FALSE]
  /\ events = 0

Busy(m) == changes[m].kind # "none" /\ ~changes[m].over

(***************************************************************************)
(* React Query.                                                            *)
(***************************************************************************)
Shown == [tracker |-> read, detail |-> version, presence |-> seat]

\* A query without data keeps the request it has.
Restarts(v) == loaded[v] \/ fetch[v] = "idle"

\* The requests of vs are made, when the tracker holds `cells`.
Refetch(vs, cells) ==
  /\ fetch' = [v \in Views |-> IF v \in vs /\ Restarts(v) THEN "sent" ELSE fetch[v]]
  /\ answer' = [v \in Views |-> IF v \in vs /\ Restarts(v) THEN Blank ELSE answer[v]]
  /\ base' = IF "tracker" \in vs /\ Restarts("tracker") THEN cells ELSE base

\* The views among vs whose running first request was answered before this.
TooLate(vs) == {v \in vs : ~Restarts(v) /\ fetch[v] = "answered"}

Invalidate(vs, cells) == Refetch(vs \cap open, cells)

\* A screen is opened, or tried again after its request has failed.  Presence
\* never goes stale: what frames have put there is enough.
Visit(v) ==
  /\ v \in session /\ fetch[v] = "idle" /\ (v \notin open \/ ~loaded[v])
  /\ open' = open \cup {v}
  /\ IF ~loaded[v] \/ (v = "presence" /\ stale) THEN Refetch({v}, held.tracker)
     ELSE UNCHANGED <<fetch, answer, base>>
  /\ stale' = (stale /\ v # "presence")
  /\ UNCHANGED <<serverState, link, session, held, loaded, changes, missed, events>>

FetchAnswers(v) ==
  /\ fetch[v] = "sent"
  /\ fetch' = [fetch EXCEPT ![v] = "answered"]
  /\ answer' = [answer EXCEPT ![v] = Shown[v]]
  /\ missed' = [missed EXCEPT ![v] = FALSE]
  /\ UNCHANGED <<serverState, link, visits, held, loaded, base, changes, events>>

\* A list with an older entry than another's.
Older(a, b) == \E w \in Members : a[w] < b[w]

\* The answer replaces what is held, a presence frame that came in between
\* included.
FetchApplies(v) ==
  /\ fetch[v] = "answered"
  /\ held' = [held EXCEPT ![v] = answer[v]]
  /\ loaded' = [loaded EXCEPT ![v] = TRUE]
  /\ fetch' = [fetch EXCEPT ![v] = "idle"]
  /\ answer' = [answer EXCEPT ![v] = Blank]
  /\ base' = IF v = "tracker" THEN Blank ELSE base
  /\ missed' = [missed EXCEPT ![v] = @ \/ (v = "presence" /\ loaded[v] /\ Older(answer[v], held[v]))]
  /\ UNCHANGED <<serverState, link, visits, changes, events>>

\* Both tries fail (retry: 1).
FetchFails(v) ==
  /\ fetch[v] = "sent" /\ events < MaxEvents
  /\ fetch' = [fetch EXCEPT ![v] = "idle"]
  /\ base' = IF v = "tracker" THEN Blank ELSE base
  /\ missed' = [missed EXCEPT ![v] = TRUE]
  /\ events' = events + 1
  /\ UNCHANGED <<serverState, link, visits, held, loaded, answer, changes>>

(***************************************************************************)
(* The hub.  A frame names its topic; presence frames carry the entry.     *)
(***************************************************************************)
ReadViews == {"tracker", "detail"}     \* refreshed by "progress"
CatalogViews == {"detail"}             \* by a finished scan, and "library"

Delivered == conn = "up" /\ Len(frames) < Room

\* A socket that comes back refreshes everything, one that comes up first does
\* not.
Resyncs == conn = "down" /\ had

Broadcast(topic, entry) ==
  frames' = IF Delivered THEN Append(frames, [topic |-> topic, entry |-> entry]) ELSE frames

Miss(vs) ==
  missed' = [v \in Views |-> missed[v] \/ (v \in vs /\ ~Delivered /\ ~Resyncs)]

\* Another device of the user marks an issue.
OtherMarks(i) ==
  /\ events < MaxEvents
  /\ events' = events + 1
  /\ read' = [read EXCEPT ![i] = ~@]
  /\ version' = version + 1
  /\ Broadcast("progress", Blank)
  /\ Miss(ReadViews)
  /\ UNCHANGED <<seat, notes, conn, had, cache, changes>>

\* A scan ends.
ScanEnds ==
  /\ events < MaxEvents
  /\ events' = events + 1
  /\ version' = version + 1
  /\ Broadcast("jobs", Blank)
  /\ Miss(CatalogViews)
  /\ UNCHANGED <<read, seat, notes, conn, had, cache, changes>>

\* Touch and Clear change the set under the lock and notify after it.  Sessions
\* that never show presence are checked without it.
Sit(w) ==
  /\ "presence" \in session /\ seat[w] < MaxBeats
  /\ seat' = [seat EXCEPT ![w] = @ + 1]
  /\ notes' = notes \cup {[who |-> w, nth |-> seat[w] + 1]}
  /\ UNCHANGED <<read, version, link, cache, changes, missed, events>>

\* A call's notification after a later call's tells of the past.
Overtaken(n) == n.nth # seat[n.who] /\ [n EXCEPT !.nth = seat[n.who]] \notin notes

Announce(n) ==
  /\ n \in notes
  /\ notes' = notes \ {n}
  /\ Broadcast("presence", n)
  /\ missed' = [missed EXCEPT !.presence = @ \/ (~Delivered /\ ~Resyncs) \/ Overtaken(n)]
  /\ UNCHANGED <<read, version, seat, conn, had, cache, changes, events>>

(***************************************************************************)
(* The socket.                                                             *)
(***************************************************************************)
onProgress == ReadViews
onLibrary == CatalogViews
onJob == CatalogViews

\* Mutated: the lists are refreshed, the presence snapshot is not.
ListsOnly == IF had THEN onProgress \cup onLibrary ELSE {}

\* Mutated: every connection is taken for a first one.
SeedOnly == {"presence"}

OpenRefreshes == {"presence"} \cup IF had THEN onProgress \cup onLibrary ELSE {}

OnOpen ==
  /\ conn = "down"
  /\ conn' = "open"
  /\ had' = TRUE
  /\ Invalidate(OpenRefreshes, held.tracker)
  /\ missed' = [v \in Views |-> missed[v] \/ v \in TooLate(OpenRefreshes)]
  /\ stale' = (stale \/ (loaded.presence /\ "presence" \notin open))
  /\ UNCHANGED <<serverState, frames, session, open, held, loaded, changes, events>>

\* The server reads the subscription.
Subscribe ==
  /\ conn = "open"
  /\ conn' = "up"
  /\ UNCHANGED <<serverState, had, frames, cache, changes, missed, events>>

OnClose ==
  /\ conn # "down" /\ events < MaxEvents
  /\ conn' = "down"
  /\ frames' = <<>>
  /\ events' = events + 1
  /\ UNCHANGED <<serverState, had, cache, changes, missed>>

\* A frame that only says that something has changed.
OnSignal ==
  /\ frames # <<>> /\ Head(frames).topic # "presence"
  /\ frames' = Tail(frames)
  /\ LET vs == IF Head(frames).topic = "progress" THEN onProgress ELSE onJob
     IN /\ Invalidate(vs, held.tracker)
        /\ missed' = [v \in Views |-> missed[v] \/ v \in TooLate(vs)]
  /\ UNCHANGED <<serverState, conn, had, visits, held, loaded, changes, events>>

\* A frame that carries an entry patches the list.  If there is none the entry
\* becomes all of it, if it was invalid it counts as fresh, and the entry may be
\* older than the snapshot it patches.
OnPresence ==
  /\ frames # <<>> /\ Head(frames).topic = "presence"
  /\ frames' = Tail(frames)
  /\ LET n == Head(frames).entry
         patched == [held.presence EXCEPT ![n.who] = n.nth]
     IN /\ held' = [held EXCEPT !.presence = patched]
        /\ missed' = [missed EXCEPT !.presence =
             patched # seat /\ (@ \/ ~loaded.presence \/ stale \/ Older(patched, held.presence))]
  /\ loaded' = [loaded EXCEPT !.presence = TRUE]
  /\ stale' = FALSE
  /\ UNCHANGED <<serverState, conn, had, session, open, fetch, answer, base, changes, events>>

(***************************************************************************)
(* Mutations: "cells", one or several tracker cells flipped before they    *)
(* are written; "book", a book's mark; "edit", a book's correction, which  *)
(* the server announces to nobody.                                         *)
(***************************************************************************)
\* cancelQueries: what the tracker shows once its request is dropped.
Reverted == IF fetch.tracker = "idle" THEN held.tracker ELSE base

optimisticMark(cells, S, to) == [i \in Issues |-> IF i \in S THEN to ELSE cells[i]]

MarkCells(m, S, to) ==
  /\ changes[m] = Idle /\ events < MaxEvents /\ loaded.tracker /\ S # {}
  /\ changes' = [changes EXCEPT ![m] = [kind |-> "cells", to |-> to, left |-> S,
                                        prev |-> Reverted, over |-> FALSE]]
  /\ held' = [held EXCEPT !.tracker = optimisticMark(Reverted, S, to)]
  /\ fetch' = [fetch EXCEPT !.tracker = "idle"]
  /\ answer' = [answer EXCEPT !.tracker = Blank]
  /\ base' = Blank
  /\ events' = events + 1
  /\ UNCHANGED <<serverState, link, visits, loaded, missed>>

MarkBook(m, i, to) ==
  /\ changes[m] = Idle /\ events < MaxEvents /\ loaded.detail
  /\ changes' = [changes EXCEPT ![m] = [Idle EXCEPT !.kind = "book", !.to = to, !.left = {i}]]
  /\ events' = events + 1
  /\ UNCHANGED <<serverState, link, cache, missed>>

EditBook(m, i) ==
  /\ changes[m] = Idle /\ events < MaxEvents /\ loaded.detail
  /\ changes' = [changes EXCEPT ![m] = [Idle EXCEPT !.kind = "edit", !.left = {i}]]
  /\ events' = events + 1
  /\ UNCHANGED <<serverState, link, cache, missed>>

\* The server writes one issue of a mutation.  When the mutation is over, the
\* write is one Promise.all did not wait for, and nothing but its frame tells
\* of it.
Write(m, i) ==
  LET c == changes[m] IN
  /\ i \in c.left
  /\ changes' = [changes EXCEPT ![m].left = @ \ {i}]
  /\ version' = version + 1
  /\ IF c.kind = "edit"
     THEN UNCHANGED <<read, frames>>
     ELSE read' = [read EXCEPT ![i] = c.to] /\ Broadcast("progress", Blank)
  /\ IF c.over THEN Miss(ReadViews) ELSE UNCHANGED missed
  /\ UNCHANGED <<seat, notes, conn, had, cache, events>>

\* Mutated: the tracker is left to its frames.
SettlesPages == {"detail"}

\* invalidateReadState, and the tracker and the pages an edit shows in.
Settles == ReadViews

Succeeds(m) ==
  /\ Busy(m) /\ changes[m].left = {}
  /\ changes' = [changes EXCEPT ![m].over = TRUE, ![m].prev = Blank]
  /\ Invalidate(Settles, held.tracker)
  /\ missed' = [v \in Views |-> missed[v] \/ v \in TooLate(Settles)]
  /\ UNCHANGED <<serverState, link, visits, held, loaded, events>>

\* One request fails: it was not written, or it was and its answer is lost.
\* Only the tracker is rolled back and refreshed whatever the outcome.
Fails(m) ==
  LET c == changes[m] IN
  /\ Busy(m) /\ events < MaxEvents
  /\ events' = events + 1
  /\ \E left \in {c.left} \cup {c.left \ {i} : i \in c.left} :
        /\ c.kind # "cells" => left = {}
        /\ changes' = [changes EXCEPT ![m].over = TRUE, ![m].prev = Blank, ![m].left = left]
  /\ IF c.kind = "cells"
     THEN /\ held' = [held EXCEPT !.tracker = c.prev]
          /\ Invalidate(Settles, c.prev)
          /\ missed' = [v \in Views |-> missed[v] \/ v \in TooLate(Settles)]
     ELSE /\ missed' = [v \in Views |-> missed[v] \/ (c.left = {} /\ v \in ReadViews)]
          /\ UNCHANGED <<held, fetch, answer, base>>
  /\ UNCHANGED <<serverState, link, visits, loaded>>

Stream == OnOpen \/ Subscribe \/ OnClose \/ OnSignal \/ OnPresence
Mutations ==
  \E m \in Ids :
    \/ \E S \in SUBSET Issues, to \in BOOLEAN : MarkCells(m, S, to)
    \/ \E i \in Issues, to \in BOOLEAN : MarkBook(m, i, to)
    \/ \E i \in Issues : EditBook(m, i) \/ Write(m, i)
    \/ Succeeds(m)
    \/ Fails(m)

QueriesNext ==
  \/ \E v \in Views : Visit(v) \/ FetchAnswers(v) \/ FetchApplies(v) \/ FetchFails(v)
  \/ \E i \in Issues : OtherMarks(i)
  \/ ScanEnds
  \/ \E w \in Members : Sit(w)
  \/ \E n \in notes : Announce(n)
  \/ Stream
  \/ Mutations

QueriesSpec == QueriesInit /\ [][QueriesNext]_queryVars

(***************************************************************************)
(* Properties.                                                             *)
(***************************************************************************)
QueriesTypeOK ==
  /\ read \in Cells
  /\ version \in Nat /\ seat \in [Members -> 0 .. MaxBeats]
  /\ notes \subseteq [who : Members, nth : 1 .. MaxBeats]
  /\ session \in Screens /\ open \subseteq session
  /\ conn \in {"down", "open", "up"} /\ had \in BOOLEAN
  /\ conn = "up" \/ frames = <<>>
  /\ Len(frames) <= Room
  /\ held.tracker \in Cells /\ held.detail <= version /\ ~Older(seat, held.presence)
  /\ loaded \in [Views -> BOOLEAN]
  /\ fetch \in [Views -> {"idle", "sent", "answered"}]
  /\ \A v \in Views : (answer[v] = Blank) <=> (fetch[v] # "answered")
  /\ (base = Blank) <=> (fetch.tracker = "idle")
  /\ missed \in [Views -> BOOLEAN]

\* Nothing is on its way to the view: no request, no frame, no mutation whose
\* end will refresh it.
Still(v) ==
  /\ conn = "up" /\ frames = <<>>
  /\ v \in open /\ loaded[v] /\ fetch[v] = "idle"
  /\ v = "presence" => notes = {}
  /\ v # "presence" => \A m \in Ids : ~Busy(m)

\* Once everything has come to rest the tracker shows the server's cells,
\* whatever marks overlapped, failed, were rolled back over one another or had
\* their refetches cancelled: except when the frame of somebody else's write,
\* or of a write its mutation no longer waits for, was dropped, or a refetch
\* failed (useToggleTrackerIssue, useRangeMarkTracker, optimisticMark,
\* invalidateReadState).
TrackerConverges == Still("tracker") /\ ~missed.tracker => held.tracker = read

\* So do the pages: a reconnect refreshes what was published while the socket
\* was down, and a mutation what it wrote (useServerEvents, useMarkBook,
\* useEditBook).
DetailConverges == Still("detail") /\ ~missed.detail => held.detail = version

\* And the presence strip shows every member's last call, except when its frame
\* was dropped or overtaken, an older snapshot was applied over it, or the strip
\* was opened on what frames alone had put there (usePresence, onPresence,
\* Tracker.Touch).
PresenceConverges == Still("presence") /\ ~missed.presence => held.presence = seat
=============================================================================
