----------------------------- MODULE OfflineSync -----------------------------
(***************************************************************************)
(* The connected reader's progress (packages/reader-core/src/              *)
(* server-provider.ts): saveProgress, the queue of failed writes in        *)
(* localStorage, its flush through POST /me/progress/batch, and            *)
(* restoreProgress, for several devices of one user.                       *)
(*                                                                         *)
(* The server is LastWriterWins: ReadingProgress shows when its rows are   *)
(* such registers.  A place is known by the time it was read at, and the   *)
(* devices' clocks agree; a clock that runs ahead is ReadingProgress's.    *)
(***************************************************************************)
EXTENDS LastWriterWins, FiniteSets

CONSTANTS
  Devices,
  MaxBatch,  \* items POST /me/progress/batch accepts
  MaxTime,   \* bound of the clock
  Events     \* "itemerror": an item of a batch fails; "close": the app dies

ASSUME SyncAssumption ==
  /\ Blank = [at |-> 0]
  /\ \A t \in 1 .. MaxTime : [at |-> t] \in Rows
  /\ MaxBatch \in Nat /\ MaxTime \in Nat \ {0}
  /\ Events \subseteq {"itemerror", "close"}

VARIABLES
  now,      \* the clock
  online,   \* whether requests reach the server and answers come back
  queue,    \* device -> book -> updatedAt of its queued write, 0 when there is none
  puts,     \* device -> PUTs under way; ruled once the server has applied or rejected it
  late,     \* writes the server may still apply though their sender gave up
  flush,    \* device -> the batch under way: what it sent and what is not yet ruled on
  restore,  \* device -> the book whose place is being restored, and how far that is
  owed,     \* history: device -> book -> the latest place the reader was told to keep
  failed    \* history: device -> books with an item the server failed to store

vars == <<reg, now, online, queue, puts, late, flush, restore, owed, failed>>

Times == 0 .. MaxTime
None == [b \in Books |-> 0]
NoFlush == [active |-> FALSE, sent |-> None, left |-> {}]
NoRestore == [stage |-> "idle", book |-> {}]

TypeOK ==
  /\ reg \in [Books -> [at : Times]]
  /\ now \in Times \ {0}
  /\ online \in BOOLEAN
  /\ queue \in [Devices -> [Books -> Times]]
  /\ puts \in [Devices -> SUBSET [book : Books, at : Times, ruled : BOOLEAN]]
  /\ late \subseteq [book : Books, at : Times]
  /\ flush \in [Devices -> [active : BOOLEAN, sent : [Books -> Times], left : SUBSET Books]]
  /\ restore \in [Devices -> [stage : {"idle", "flush", "get"}, book : Books \cup {{}}]]
  /\ owed \in [Devices -> [Books -> Times]]
  /\ failed \in [Devices -> SUBSET Books]

Init ==
  /\ LWWInit
  /\ now = 1 /\ online = TRUE
  /\ queue = [d \in Devices |-> None]
  /\ puts = [d \in Devices |-> {}]
  /\ late = {}
  /\ flush = [d \in Devices |-> NoFlush]
  /\ restore = [d \in Devices |-> NoRestore]
  /\ owed = [d \in Devices |-> None]
  /\ failed = [d \in Devices |-> {}]

-----------------------------------------------------------------------------
(* The server rules on a write: applied, or rejected as stale.             *)

Rule(b, t) == IF reg[b].at > t THEN UNCHANGED reg ELSE Put(b, [at |-> t])

-----------------------------------------------------------------------------
(* saveProgress.                                                           *)

Save(d, b) ==
  /\ now > owed[d][b]
  /\ restore[d].stage = "idle"
  /\ owed' = [owed EXCEPT ![d][b] = now]
  /\ puts' = [puts EXCEPT ![d] = @ \cup {[book |-> b, at |-> now, ruled |-> FALSE]}]
  /\ UNCHANGED <<reg, now, online, queue, late, flush, restore, failed>>

PutRuled(d, p) ==
  /\ online /\ ~p.ruled
  /\ Rule(p.book, p.at)
  /\ puts' = [puts EXCEPT ![d] = (@ \ {p}) \cup {[p EXCEPT !.ruled = TRUE]}]
  /\ UNCHANGED <<now, online, queue, late, flush, restore, owed, failed>>

\* flushPendingProgress, up to its await: one flush at a time, of the whole queue.
FlushStarts(d) ==
  IF flush[d].active \/ queue[d] = None
  THEN UNCHANGED flush
  ELSE flush' = [flush EXCEPT ![d] =
         [active |-> TRUE, sent |-> queue[d], left |-> {b \in Books : queue[d][b] # 0}]]

\* The PUT is answered: drain what was queued.
PutAnswered(d, p) ==
  /\ online /\ p.ruled
  /\ puts' = [puts EXCEPT ![d] = @ \ {p}]
  /\ FlushStarts(d)
  /\ UNCHANGED <<reg, now, online, queue, late, restore, owed, failed>>

\* enqueuePendingProgress: a newer queued place stays.
Enqueue(d, p) ==
  IF queue[d][p.book] > p.at THEN UNCHANGED queue
  ELSE queue' = [queue EXCEPT ![d][p.book] = p.at]

\* The PUT fails, before or after it reached the server, or on its way.
PutFails(d, p) ==
  /\ ~online
  /\ puts' = [puts EXCEPT ![d] = @ \ {p}]
  /\ late' = IF p.ruled THEN late ELSE late \cup {[book |-> p.book, at |-> p.at]}
  /\ Enqueue(d, p)
  /\ UNCHANGED <<reg, now, online, flush, restore, owed, failed>>

\* A request whose sender gave up is carried out after all.
LateRuled(w) ==
  /\ late' = late \ {w}
  /\ Rule(w.book, w.at)
  /\ UNCHANGED <<now, online, queue, puts, flush, restore, owed, failed>>

-----------------------------------------------------------------------------
(* flushPendingProgress.                                                   *)

\* handleBatchProgress refuses a batch that is too large as a whole.
Accepted(d) == Cardinality({b \in Books : flush[d].sent[b] # 0}) <= MaxBatch

ItemRuled(d, b) ==
  /\ online /\ Accepted(d)
  /\ b \in flush[d].left
  /\ Rule(b, flush[d].sent[b])
  /\ flush' = [flush EXCEPT ![d].left = @ \ {b}]
  /\ UNCHANGED <<now, online, queue, puts, late, restore, owed, failed>>

\* The item's own error is a field of a 200 answer, which the reader ignores.
ItemFails(d, b) ==
  /\ "itemerror" \in Events
  /\ online /\ Accepted(d)
  /\ b \in flush[d].left
  /\ flush' = [flush EXCEPT ![d].left = @ \ {b}]
  /\ failed' = [failed EXCEPT ![d] = @ \cup {b}]
  /\ UNCHANGED <<reg, now, online, queue, puts, late, restore, owed>>

KeepFlushing(d) ==  \* mutation: the flushing flag is not reset in a finally
  /\ flush' = flush
  /\ restore' = IF restore[d].stage = "flush"
                THEN [restore EXCEPT ![d].stage = "get"] ELSE restore

\* The restore that waits for this flush, if any, goes on.
FlushEnds(d) ==
  /\ flush' = [flush EXCEPT ![d] = NoFlush]
  /\ restore' = IF restore[d].stage = "flush"
                THEN [restore EXCEPT ![d].stage = "get"] ELSE restore

DropSent(d) ==  \* mutation: a page turned while the batch was under way is dropped
  [b \in Books |-> IF flush[d].sent[b] # 0 THEN 0 ELSE queue[d][b]]

\* Only what was sent is dropped.
Remaining(d) ==
  [b \in Books |-> IF flush[d].sent[b] # 0 /\ queue[d][b] <= flush[d].sent[b]
                   THEN 0 ELSE queue[d][b]]

FlushAnswered(d) ==
  /\ flush[d].active /\ online /\ Accepted(d)
  /\ flush[d].left = {}
  /\ queue' = [queue EXCEPT ![d] = Remaining(d)]
  /\ FlushEnds(d)
  /\ UNCHANGED <<reg, now, online, puts, late, owed, failed>>

\* Unreachable at any point, or the batch refused: the queue is kept.
FlushFails(d) ==
  /\ flush[d].active
  /\ ~online \/ ~Accepted(d)
  /\ late' = IF Accepted(d)
             THEN late \cup {[book |-> b, at |-> flush[d].sent[b]] : b \in flush[d].left}
             ELSE late
  /\ FlushEnds(d)
  /\ UNCHANGED <<reg, now, online, queue, puts, owed, failed>>

-----------------------------------------------------------------------------
(* restoreProgress.                                                        *)

\* It awaits the flush it starts; another flush under way is not waited for.
Restore(d, b) ==
  /\ restore[d].stage = "idle"
  /\ FlushStarts(d)
  /\ restore' = [restore EXCEPT ![d] =
       [stage |-> IF flush[d].active \/ queue[d] = None THEN "get" ELSE "flush", book |-> b]]
  /\ UNCHANGED <<reg, now, online, queue, puts, late, owed, failed>>

\* getProgress answers with the stored place.
PlaceRestored(d) ==
  /\ restore[d].stage = "get"
  /\ online
  /\ restore' = [restore EXCEPT ![d] = NoRestore]
  /\ UNCHANGED <<reg, now, online, queue, puts, late, flush, owed, failed>>

\* null: the reader opens at the first page.
NoPlace(d) ==
  /\ restore[d].stage = "get"
  /\ ~online
  /\ restore' = [restore EXCEPT ![d] = NoRestore]
  /\ UNCHANGED <<reg, now, online, queue, puts, late, flush, owed, failed>>

-----------------------------------------------------------------------------
(* The environment.                                                        *)

Tick ==
  /\ now < MaxTime
  /\ now' = now + 1
  /\ UNCHANGED <<reg, online, queue, puts, late, flush, restore, owed, failed>>

Switch ==
  /\ online' = ~online
  /\ UNCHANGED <<reg, now, queue, puts, late, flush, restore, owed, failed>>

\* The app closes: localStorage stays, a PUT that had not failed yet is forgotten.
\* Bound: nobody closes it at the clock's last tick.
Close(d) ==
  /\ "close" \in Events /\ now < MaxTime
  /\ owed' = [owed EXCEPT ![d] =
       [b \in Books |-> IF \E p \in puts[d] : p.book = b THEN queue[d][b] ELSE @[b]]]
  /\ late' = late \cup {[book |-> p.book, at |-> p.at] : p \in {q \in puts[d] : ~q.ruled}}
                  \cup {[book |-> b, at |-> flush[d].sent[b]] : b \in flush[d].left}
  /\ puts' = [puts EXCEPT ![d] = {}]
  /\ flush' = [flush EXCEPT ![d] = NoFlush]
  /\ restore' = [restore EXCEPT ![d] = NoRestore]
  /\ UNCHANGED <<reg, now, online, queue, failed>>

PutStep(d) == \E p \in puts[d] : PutRuled(d, p) \/ PutAnswered(d, p) \/ PutFails(d, p)
FlushStep(d) ==
  \/ \E b \in Books : ItemRuled(d, b) \/ ItemFails(d, b)
  \/ FlushAnswered(d) \/ FlushFails(d)
RestoreStep(d) == PlaceRestored(d) \/ NoPlace(d)

Next ==
  \/ Tick \/ Switch
  \/ \E w \in late : LateRuled(w)
  \/ \E d \in Devices :
       \/ PutStep(d) \/ FlushStep(d) \/ RestoreStep(d) \/ Close(d)
       \/ \E b \in Books : Save(d, b) \/ Restore(d, b)

Spec == Init /\ [][Next]_vars

\* Requests under way end, time passes, and the user keeps opening books.
Fairness ==
  /\ WF_vars(Tick)
  /\ \A d \in Devices :
       /\ WF_vars(PutStep(d)) /\ WF_vars(FlushStep(d)) /\ WF_vars(RestoreStep(d))
       /\ WF_vars(\E b \in Books : Restore(d, b))

LiveSpec == Spec /\ Fairness

-----------------------------------------------------------------------------
(* Properties.                                                             *)

Latest(d, b, t) ==
  \/ reg[b].at >= t
  \/ queue[d][b] >= t
  \/ \E p \in puts[d] : p.book = b /\ p.at >= t

\* "Never lose your place" (ADR-008): however writes fail, arrive late or race
\* the flush, the latest place is on the server (or superseded by a newer one),
\* in the queue, or in a request whose failure will queue it.  The exception is
\* an item of a batch that the server could not store: its error is ignored and
\* the entry is dropped.
NoPlaceLost ==
  \A d \in Devices, b \in Books : b \in failed[d] \/ Latest(d, b, owed[d][b])

\* A flush never loses or regresses what another device stored meanwhile
\* ("a flush can never clobber newer progress from another device").
ServerNeverRegresses == [][\A b \in Books : reg'[b].at >= reg[b].at]_vars

\* Once the server is reachable for good and the app is left open, what is queued
\* is flushed, provided it fits a batch: a larger queue is refused as a whole.
QueueDrains ==
  <>[]online => \A d \in Devices :
    (queue[d] # None /\ Cardinality(Books) <= MaxBatch) ~> (queue[d] = None)

\* "Flush first so the place we restore reflects what was read offline": the
\* place a restore answers with is not older than what this device has queued.
RestoreReflectsOffline ==
  [][\A d \in Devices : PlaceRestored(d) =>
       reg[restore[d].book].at >= queue[d][restore[d].book]]_vars
=============================================================================
