------------------------------ MODULE ScanJobs ------------------------------
(***************************************************************************)
(* Who submits and cancels scans: the scan and rescan handlers and the     *)
(* cancel handler (internal/transport/http/scan.go), the watcher callback  *)
(* and the scan handler that chains an automatic match (main.go), on top   *)
(* of the job runner.  ActiveScanJobID is two queries, each a snapshot of  *)
(* its own, and nothing holds a lock between the check and the Submit.     *)
(***************************************************************************)
EXTENDS JobRunner

CONSTANTS
  Requests,      \* calls of a handler, or of the watcher callback, that want a scan
  Cancelers,     \* calls of the cancel handler
  Libraries,
  NoJob,
  HasProviders,  \* is an online metadata provider configured?
  Serial         \* does each caller wait for the answer to the one before?

ASSUME ScanAssumption ==
  /\ NoJob \notin Jobs
  /\ Requests \cap Cancelers = {}
  /\ (Requests \cup Cancelers) \cap Jobs = {}
  /\ HasProviders \in BOOLEAN /\ Serial \in BOOLEAN
  /\ Payloads = [type : {"scan", "automatch"}, lib : Libraries]

VARIABLES
  at,    \* caller -> how far its handler is
  lib,   \* caller -> library it is about
  got,   \* request -> the job it answers with; job -> the match job it chained
  seen,  \* history: caller -> scans of its library, by state, when it began
  todo   \* canceler -> listed jobs it has still to cancel

Callers == Requests \cup Cancelers
callerVars == <<at, lib, got, seen, todo>>
allVars == <<vars, callerVars>>

InProgress == {"first", "second", "checked", "submitting", "cancel1", "cancel2"}
Answered == {"accepted", "coalesced", "refused", "canceled"}

ScanTypeOK ==
  /\ at \in [Callers -> {"idle"} \cup InProgress \cup Answered]
  /\ lib \in [Callers -> Libraries]
  /\ got \in [Requests \cup Jobs -> Jobs \cup {NoJob}]
  /\ seen \in [Callers -> [Active -> SUBSET Jobs]]
  /\ todo \in [Cancelers -> SUBSET Jobs]

IsScan(j) == row[j] # "absent" /\ payload[j].type = "scan"

\* repo.Jobs().ListByState(state), narrowed to the scans of library l.
Scans(l, state) == {j \in Jobs : IsScan(j) /\ row[j] = state /\ payload[j].lib = l}

Goto(q, from, to) == at[q] = from /\ at' = [at EXCEPT ![q] = to]

ScanInit ==
  /\ Init
  /\ at = [q \in Callers |-> "idle"]
  /\ lib \in [Callers -> Libraries]
  /\ got = [x \in Requests \cup Jobs |-> NoJob]
  /\ seen = [q \in Callers |-> [state \in Active |-> {}]]
  /\ todo = [c \in Cancelers |-> {}]

Begin(q) ==
  /\ ProcessAlive
  /\ Serial => \A r \in Callers : at[r] \notin InProgress
  /\ Goto(q, "idle", "first")
  /\ seen' = [seen EXCEPT ![q] = [state \in Active |-> Scans(lib[q], state)]]
  /\ UNCHANGED <<vars, lib, got, todo>>

-----------------------------------------------------------------------------
(* A scan request: ActiveScanJobID, then Submit.                           *)

\* One query of ActiveScanJobID: answer with what it finds, or look further.
Look(q, from, state, next) ==
  \/ /\ Scans(lib[q], state) = {}
     /\ Goto(q, from, next)
     /\ UNCHANGED <<vars, lib, got, seen, todo>>
  \/ \E j \in Scans(lib[q], state) :
       /\ Goto(q, from, "coalesced")
       /\ got' = [got EXCEPT ![q] = j]
       /\ UNCHANGED <<vars, lib, seen, todo>>

SkipRunning(q) ==  \* mutation: only queued jobs are looked up
  /\ Goto(q, "first", "second")
  /\ UNCHANGED <<vars, lib, got, seen, todo>>

LookRunning(q) == Look(q, "first", "running", "second")

LookQueued(q) == Look(q, "second", "queued", "checked")

SubmitScan(q) ==
  \E j \in Jobs :
    /\ Create(j, [type |-> "scan", lib |-> lib[q]])
    /\ Goto(q, "checked", "submitting")
    /\ got' = [got EXCEPT ![q] = j]
    /\ UNCHANGED <<lib, seen, todo>>

\* The insert fails: the request's context ended, or the database erred.
SubmitFails(q) ==
  /\ Goto(q, "checked", "refused")
  /\ UNCHANGED <<vars, lib, got, seen, todo>>

Accept(q) ==
  /\ Goto(q, "submitting", "accepted")
  /\ pc[got[q]] \notin Submitting
  /\ UNCHANGED <<vars, lib, got, seen, todo>>

-----------------------------------------------------------------------------
(* The cancel handler: list the running scans and cancel each, then the    *)
(* queued ones.                                                            *)

CancelListed(c, from, state, to) ==
  /\ Goto(c, from, to)
  /\ todo' = [todo EXCEPT ![c] = Scans(lib[c], state)]
  /\ UNCHANGED <<vars, lib, got, seen>>

ListRunningAsQueued(c) ==  \* mutation: both queries ask for queued jobs
  CancelListed(c, "first", "queued", "cancel1")

ListRunning(c) == CancelListed(c, "first", "running", "cancel1")

ListQueued(c) == todo[c] = {} /\ CancelListed(c, "cancel1", "queued", "cancel2")

CancelErasing(c) ==  \* mutation: cancelling forgets the job instead of its context
  \E j \in todo[c] :
    /\ todo' = [todo EXCEPT ![c] = @ \ {j}]
    /\ cancels' = cancels \ {j}
    /\ UNCHANGED <<row, payload, pc, canceled, slots, wg, server, unsaved, at, lib, got, seen>>

CancelNext(c) ==
  \E j \in todo[c] :
    /\ todo' = [todo EXCEPT ![c] = @ \ {j}]
    /\ Cancel(j) \/ (j \notin cancels /\ UNCHANGED vars)
    /\ UNCHANGED <<at, lib, got, seen>>

CancelAnswer(c) ==
  /\ todo[c] = {}
  /\ Goto(c, "cancel2", "canceled")
  /\ UNCHANGED <<vars, lib, got, seen, todo>>

-----------------------------------------------------------------------------
(* The job handlers.                                                       *)

\* After a successful scan its handler submits the match job, under the scan's
\* context: a scan cancelled by then chains nothing.
Chain(j) ==
  /\ HasProviders
  /\ pc[j] = "working" /\ payload[j].type = "scan"
  /\ got[j] = NoJob
  /\ j \notin canceled
  /\ \E k \in Jobs :
       /\ Create(k, [type |-> "automatch", lib |-> payload[j].lib])
       /\ got' = [got EXCEPT ![j] = k]
  /\ UNCHANGED <<at, lib, seen, todo>>

ReturnEarly(j) ==  \* mutation: the chained Submit goes to a goroutine of its own
  /\ \E state \in Outcomes(j) :
       /\ FinishAs(j, state)
       /\ got[j] # NoJob => state = "done"
  /\ UNCHANGED callerVars

\* The handler returns only after its chained Submit has, and then without error.
HandlerReturns(j) ==
  /\ \E state \in Outcomes(j) :
       /\ FinishAs(j, state)
       /\ got[j] # NoJob => state = "done" /\ pc[got[j]] \notin Submitting
  /\ UNCHANGED callerVars

GoroutineStep(j) ==
  \/ HandlerReturns(j)
  \/ /\ \/ Register(j) \/ Spawn(j) \/ Acquire(j) \/ Start(j) \/ SkipCanceled(j)
        \/ Release(j) \/ Unregister(j) \/ Exit(j)
     /\ UNCHANGED callerVars

\* The end of the process drops every handler on the floor.
ProcessStep ==
  /\ Lifecycle
  /\ IF server' = "down"
     THEN /\ at' = [q \in Callers |-> IF at[q] \in InProgress THEN "refused" ELSE at[q]]
          /\ got' = [x \in Requests \cup Jobs |-> IF x \in Jobs THEN NoJob ELSE got[x]]
          /\ todo' = [c \in Cancelers |-> {}]
          /\ UNCHANGED <<lib, seen>>
     ELSE UNCHANGED callerVars

RequestStep(q) ==
  \/ LookRunning(q) \/ LookQueued(q)
  \/ SubmitScan(q) \/ SubmitFails(q) \/ Accept(q)

CancelerStep(c) ==
  ListRunning(c) \/ ListQueued(c) \/ CancelNext(c) \/ CancelAnswer(c)

ScanNext ==
  \/ \E q \in Callers : Begin(q)
  \/ \E q \in Requests : RequestStep(q)
  \/ \E c \in Cancelers : CancelerStep(c)
  \/ \E j \in Jobs : Chain(j) \/ GoroutineStep(j)
  \/ ProcessStep

ScanSpec == ScanInit /\ [][ScanNext]_allVars

\* Jobs that have begun run on, and an end of the process that has begun is
\* carried through; no request, cancel call or crash is bound to come.
ScanFairness ==
  /\ \A j \in Jobs : WF_allVars(GoroutineStep(j))
  /\ WF_allVars(ProcessStep /\ (ShutdownReturn \/ ProcessExit \/ Restart))

FairScanSpec == ScanSpec /\ ScanFairness

-----------------------------------------------------------------------------
(* Properties.                                                             *)

\* Everything the callers do to the runner is something the runner allows: the
\* composition implements JobRunner, whose theorems therefore hold of it.
ImplementsRunner == Spec

\* A scan that was already running when a request came in is never joined by that
\* request's own scan: either the request is coalesced or the other has finished
\* (scan.go:16-19).  One that was still queued when the running
\* scans were listed, and running when the queued ones were, is seen by neither.
NeverJoinsARunningScan ==
  [][\A q \in Requests : at[q] = "checked" /\ at'[q] = "submitting" =>
       \A k \in seen[q]["running"] : row[k] \in Terminal]_allVars

HandlerAhead(j) == pc[j] \in Submitting \cup {"waiting", "admitted", "working"}

\* When the cancel handler has answered, every scan of the library that was running
\* when it began is cancelled or over (scan.go:109-133).
CancelReachesRunningScans ==
  \A c \in Cancelers : at[c] = "canceled" =>
    \A k \in seen[c]["running"] : HandlerAhead(k) => k \in canceled

\* The match job a scan chains is inside the wait group before the scan leaves it:
\* Shutdown never returns between the two, so it is waited for like any other.
ChainedJobsAreWaitedFor ==
  [][server' = "stopped" /\ server # "stopped" =>
       \A j \in Jobs : got[j] # NoJob => pc[got[j]] \in {"idle", "exited"}]_allVars

\* A request that is told "a scan is already under way" can count on that scan: it
\* reaches a final state (scan.go:39-41, "its id is returned instead of starting another").
CoalescedScanSettles ==
  \A q \in Requests, j \in Jobs :
    at[q] = "coalesced" /\ got[q] = j ~> row[j] \in Terminal
=============================================================================
