------------------------------ MODULE JobRunner ------------------------------
(***************************************************************************)
(* The background job runner of the server (internal/jobs/runner.go) over  *)
(* the job table (internal/store/sqlstore/job.go): Submit, the goroutine   *)
(* of each job, Cancel, Shutdown, and what the end of the process, clean   *)
(* or not, does to them.                                                   *)
(*                                                                         *)
(* A job's row is durable; everything else lives in the process and dies   *)
(* with it.  Each statement that another goroutine can observe is a step   *)
(* of its own.  A progress report rewrites the row with the state it       *)
(* already has, so it is a stuttering step here.                           *)
(***************************************************************************)
EXTENDS Naturals, FiniteSets

CONSTANTS
  Jobs,       \* job ids: ulid.New() never returns one twice
  Payloads,   \* what a job is asked to do (its type and JSON payload)
  NoPayload,  \* the payload of an id no row has yet
  Workers,    \* size of the worker pool
  Events      \* what the environment may do besides submitting and cancelling

ASSUME RunnerAssumption ==
  /\ Workers \in Nat \ {0}
  /\ NoPayload \notin Payloads
  /\ Events \subseteq {"shutdown", "crash", "dberror"}

VARIABLES
  row,        \* job -> state column of its row, "absent" while there is none
  payload,    \* job -> payload column of its row
  pc,         \* job -> where its Submit call, then its goroutine, has got to
  canceled,   \* jobs whose context is cancelled
  cancels,    \* jobs in the runner's cancel map
  slots,      \* jobs holding a slot of the semaphore
  wg,         \* jobs the wait group counts
  server,     \* "up", "stopping" (in Shutdown), "stopped" (Shutdown returned), "down"
  unsaved     \* history: jobs whose last save failed and was only logged

memory == <<pc, canceled, cancels, slots, wg>>
vars == <<row, payload, pc, canceled, cancels, slots, wg, server, unsaved>>

Active == {"queued", "running"}
Terminal == {"done", "canceled", "failed"}

\* Submit's own goroutine: the row exists / the cancel func is in the map.
Submitting == {"created", "registered"}
\* The job's goroutine, counted by the wait group until its last deferred call.
Running == {"waiting", "admitted", "working", "settled", "released", "unregistered"}

TypeOK ==
  /\ row \in [Jobs -> {"absent"} \cup Active \cup Terminal]
  /\ payload \in [Jobs -> Payloads \cup {NoPayload}]
  /\ pc \in [Jobs -> {"idle", "exited"} \cup Submitting \cup Running]
  /\ canceled \subseteq Jobs
  /\ cancels \subseteq Jobs
  /\ slots \subseteq Jobs
  /\ wg \subseteq Jobs
  /\ server \in {"up", "stopping", "stopped", "down"}
  /\ unsaved \subseteq Jobs

ProcessAlive == server # "down"

Step(j, from, to) == pc[j] = from /\ pc' = [pc EXCEPT ![j] = to]

Init ==
  /\ row = [j \in Jobs |-> "absent"]
  /\ payload = [j \in Jobs |-> NoPayload]
  /\ pc = [j \in Jobs |-> "idle"]
  /\ canceled = {} /\ cancels = {} /\ slots = {} /\ wg = {}
  /\ server = "up"
  /\ unsaved = {}

-----------------------------------------------------------------------------
(* Submit: insert the queued row, file the cancel func, start the goroutine. *)

Create(j, p) ==
  /\ ProcessAlive
  /\ row[j] = "absent"
  /\ Step(j, "idle", "created")
  /\ row' = [row EXCEPT ![j] = "queued"]
  /\ payload' = [payload EXCEPT ![j] = p]
  /\ UNCHANGED <<canceled, cancels, slots, wg, server, unsaved>>

Register(j) ==
  /\ Step(j, "created", "registered")
  /\ cancels' = cancels \cup {j}
  /\ UNCHANGED <<row, payload, canceled, slots, wg, server, unsaved>>

Spawn(j) ==
  /\ Step(j, "registered", "waiting")
  /\ wg' = wg \cup {j}
  /\ UNCHANGED <<row, payload, canceled, cancels, slots, server, unsaved>>

-----------------------------------------------------------------------------
(* run: the job's goroutine.                                               *)

\* save: the row takes the new state, or the database error is logged and the
\* row keeps what it had.  The database is closed once Shutdown has returned.
Save(j, state) ==
  \/ /\ row' = [row EXCEPT ![j] = state]
     /\ unsaved' = unsaved \ {j}
  \/ /\ "dberror" \in Events \/ server = "stopped"
     /\ row' = row
     /\ unsaved' = unsaved \cup {j}

Acquire(j) ==
  /\ Cardinality(slots) < Workers
  /\ Step(j, "waiting", "admitted")
  /\ slots' = slots \cup {j}
  /\ UNCHANGED <<row, payload, canceled, cancels, wg, server, unsaved>>

Start(j) ==
  /\ j \notin canceled
  /\ Step(j, "admitted", "working")
  /\ Save(j, "running")
  /\ UNCHANGED <<payload, canceled, cancels, slots, wg, server>>

SkipCanceled(j) ==
  /\ j \in canceled
  /\ Step(j, "admitted", "settled")
  /\ Save(j, "canceled")
  /\ UNCHANGED <<payload, canceled, cancels, slots, wg, server>>

\* The handler returns: without an error the job is done even if it was
\* cancelled meanwhile; with one it is canceled when its context is, or when the
\* error itself is context.Canceled, and failed otherwise.
Outcomes(j) == IF j \in canceled THEN {"done", "canceled"} ELSE Terminal

FinishAs(j, state) ==
  /\ Step(j, "working", "settled")
  /\ Save(j, state)
  /\ UNCHANGED <<payload, canceled, cancels, slots, wg, server>>

Finish(j) == \E state \in Outcomes(j) : FinishAs(j, state)

ReleaseNothing(j) ==  \* mutation: the deferred <-sem is forgotten
  /\ Step(j, "settled", "released")
  /\ UNCHANGED <<row, payload, canceled, cancels, slots, wg, server, unsaved>>

Release(j) ==
  /\ Step(j, "settled", "released")
  /\ slots' = slots \ {j}
  /\ UNCHANGED <<row, payload, canceled, cancels, wg, server, unsaved>>

Unregister(j) ==
  /\ Step(j, "released", "unregistered")
  /\ cancels' = cancels \ {j}
  /\ UNCHANGED <<row, payload, canceled, slots, wg, server, unsaved>>

ExitKeepingCount(j) ==  \* mutation: the deferred wg.Done is forgotten
  /\ Step(j, "unregistered", "exited")
  /\ UNCHANGED <<row, payload, canceled, cancels, slots, wg, server, unsaved>>

Exit(j) ==
  /\ Step(j, "unregistered", "exited")
  /\ wg' = wg \ {j}
  /\ UNCHANGED <<row, payload, canceled, cancels, slots, server, unsaved>>

-----------------------------------------------------------------------------
(* Cancel, Shutdown and the life of the process.                           *)

Cancel(j) ==
  /\ ProcessAlive
  /\ j \in cancels
  /\ canceled' = canceled \cup {j}
  /\ UNCHANGED <<row, payload, pc, cancels, slots, wg, server, unsaved>>

ShutdownBegin ==
  /\ "shutdown" \in Events
  /\ server = "up"
  /\ server' = "stopping"
  /\ canceled' = canceled \cup cancels
  /\ UNCHANGED <<row, payload, pc, cancels, slots, wg, unsaved>>

ShutdownReturn ==
  /\ server = "stopping"
  /\ wg = {}
  /\ server' = "stopped"
  /\ UNCHANGED <<row, payload, memory, unsaved>>

Die ==
  /\ server' = "down"
  /\ pc' = [j \in Jobs |-> "idle"]
  /\ canceled' = {} /\ cancels' = {} /\ slots' = {} /\ wg' = {}
  /\ UNCHANGED <<row, payload, unsaved>>

ProcessExit == server = "stopped" /\ Die

Crash == "crash" \in Events /\ ProcessAlive /\ Die

\* run() opens the same database and builds a new runner; nothing reads the
\* job table, so the rows stay as the previous process left them.
Restart ==
  /\ server = "down"
  /\ server' = "up"
  /\ UNCHANGED <<row, payload, memory, unsaved>>

-----------------------------------------------------------------------------

Goroutine(j) ==
  \/ Register(j) \/ Spawn(j)
  \/ Acquire(j) \/ Start(j) \/ SkipCanceled(j) \/ Finish(j)
  \/ Release(j) \/ Unregister(j) \/ Exit(j)

Lifecycle == ShutdownBegin \/ ShutdownReturn \/ ProcessExit \/ Crash \/ Restart

Next ==
  \/ \E j \in Jobs :
       \/ \E p \in Payloads : Create(j, p)
       \/ Goroutine(j)
       \/ Cancel(j)
  \/ Lifecycle

Spec == Init /\ [][Next]_vars

\* The Go scheduler runs every goroutine that can proceed (blocked senders on
\* the semaphore are woken in order, and there are finitely many), a handler
\* returns ("must honor ctx cancellation promptly"), and the operating system
\* brings the process down and up again.
Fairness ==
  /\ \A j \in Jobs : WF_vars(Goroutine(j))
  /\ WF_vars(ShutdownReturn)
  /\ WF_vars(ProcessExit)
  /\ WF_vars(Restart)

FairSpec == Spec /\ Fairness

-----------------------------------------------------------------------------
(* Properties.                                                             *)

\* The pool never runs more handlers than it has workers: a slot is held from
\* before the handler starts until after its result is saved (runner.go:102-103).
PoolBound ==
  /\ Cardinality(slots) <= Workers
  /\ \A j \in Jobs : pc[j] \in {"admitted", "working", "settled"} <=> j \in slots

\* What clients read from the row agrees with the goroutine: an active row whose
\* goroutine has settled exists only where a save was lost, and a handler never
\* works behind a row that already reads as finished (runner.go:94-158).
RowAgreesWithGoroutine ==
  \A j \in Jobs \ unsaved :
    /\ pc[j] \in Submitting \cup {"waiting", "admitted"} => row[j] = "queued"
    /\ pc[j] = "working" => row[j] = "running"
    /\ pc[j] \in {"settled", "released", "unregistered", "exited"} => row[j] \in Terminal

\* A finished job stays finished: no late save, cancel, shutdown, crash or
\* restart ever changes a row that reached done, canceled or failed.
TerminalIsFinal ==
  [][\A j \in Jobs : row[j] \in Terminal => row'[j] = row[j]]_vars

\* A job cancelled while it waits for a worker never starts its handler, however
\* late the slot comes (the re-check at runner.go:105-109).
CanceledWaiterNeverWorks ==
  [][\A j \in Jobs : j \in canceled /\ pc[j] # "working" => pc'[j] # "working"]_vars

\* When Shutdown returns, every job whose goroutine had been started has left the
\* pool with a finished row, unless that very save failed (runner.go:171-179).
ShutdownSettlesStartedJobs ==
  [][server' = "stopped" /\ server # "stopped" =>
       \A j \in Jobs : pc[j] \in Running \cup {"exited"} =>
         pc[j] = "exited" /\ (row[j] \in Terminal \/ j \in unsaved)]_vars

\* Shutdown does not hang: every goroutine it waits for finishes, including jobs
\* filed after the cancel loop ran, which nothing cancels.
ShutdownCompletes == server = "stopping" ~> server # "stopping"

\* While the process stays up every submitted job is settled, whatever was
\* cancelled and however many wait for a worker, unless the save of its end is
\* lost.  It is not so across a crash: see CoalescedScanSettles in ScanJobs.
JobsSettleWhileUp ==
  [](server = "up") =>
    \A j \in Jobs : row[j] \in Active ~> row[j] \in Terminal \/ j \in unsaved

\* "Shutdown cancels all in-flight jobs and waits for them to finish"
\* (runner.go:171): once it has returned no job of this process is in flight.
ShutdownLeavesNothingInFlight ==
  server = "stopped" => \A j \in Jobs : pc[j] \in {"idle", "exited"}
=============================================================================
