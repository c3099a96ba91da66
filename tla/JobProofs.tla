------------------------------ MODULE JobProofs ------------------------------
(***************************************************************************)
(* The safety of the job runner, proved for every set of jobs, every pool  *)
(* size and every choice of environment events; then of its composition    *)
(* with the callers: they use the runner as it allows, so what is proved   *)
(* of the runner holds of the composition, a chained match job is always   *)
(* inside the wait group by the time Shutdown can return, and a scan that  *)
(* ran when a caller began is waited for, or cancelled.                    *)
(*                                                                         *)
(* Last, what a match job and the edits of users do to one series, and the *)
(* screen over them: corrections last, an interrupted match loses no arc,  *)
(* and the screen comes to show what is stored.                            *)
(***************************************************************************)
EXTENDS ScanJobs, SeriesDesk, FiniteSetTheorems, TLAPS

(***************************************************************************)
(* Type correctness.                                                       *)
(***************************************************************************)

LEMMA SaveType ==
  ASSUME TypeOK, NEW j \in Jobs, NEW state \in Active \cup Terminal, Save(j, state)
  PROVE  /\ row' \in [Jobs -> {"absent"} \cup Active \cup Terminal]
         /\ unsaved' \subseteq Jobs
BY DEF Save, TypeOK

LEMMA TypeStep == TypeOK /\ [Next]_vars => TypeOK'
<1> SUFFICES ASSUME TypeOK, [Next]_vars PROVE TypeOK'
  OBVIOUS
<1> USE DEF Step
<1>1. ASSUME NEW j \in Jobs, NEW p \in Payloads, Create(j, p) PROVE TypeOK'
  BY <1>1 DEF TypeOK, Create, Submitting, Active
<1>2. ASSUME NEW j \in Jobs, Goroutine(j) PROVE TypeOK'
  <2>1. CASE Register(j) \/ Spawn(j) \/ Acquire(j) \/ Release(j) \/ Unregister(j) \/ Exit(j)
    BY <2>1 DEF TypeOK, Register, Spawn, Acquire, Release, Unregister, Exit, Submitting, Running
  <2>2. CASE Start(j)
    BY <2>2, SaveType DEF TypeOK, Start, Running, Active
  <2>3. CASE SkipCanceled(j)
    BY <2>3, SaveType DEF TypeOK, SkipCanceled, Running, Terminal
  <2>4. CASE Finish(j)
    <3>1. PICK state \in Outcomes(j) : FinishAs(j, state)
      BY <2>4 DEF Finish
    <3>2. state \in Active \cup Terminal
      BY <3>1 DEF Outcomes, Terminal
    <3> QED BY <3>1, <3>2, SaveType DEF FinishAs, TypeOK, Running
  <2> QED BY <1>2, <2>1, <2>2, <2>3, <2>4 DEF Goroutine
<1>3. ASSUME NEW j \in Jobs, Cancel(j) PROVE TypeOK'
  BY <1>3 DEF TypeOK, Cancel
<1>4. CASE Lifecycle
  BY <1>4 DEF Lifecycle, ShutdownBegin, ShutdownReturn, ProcessExit, Crash, Restart, Die, memory, TypeOK
<1>5. CASE UNCHANGED vars
  BY <1>5 DEF TypeOK, vars
<1> QED BY <1>1, <1>2, <1>3, <1>4, <1>5 DEF Next

\* The variables of the runner keep their types in every behaviour.
THEOREM TypeCorrect == Spec => []TypeOK
<1>1. Init => TypeOK
  BY DEF Init, TypeOK, Active
<1> QED BY <1>1, TypeStep, PTL DEF Spec

(***************************************************************************)
(* The semaphore.  Only Acquire adds a holder, and it does so below the    *)
(* bound; holders are finitely many because they are added one at a time.  *)
(***************************************************************************)

SlotInv == IsFiniteSet(slots) /\ PoolBound

LEMMA SlotStep == TypeOK /\ SlotInv /\ [Next]_vars => SlotInv'
<1> SUFFICES ASSUME TypeOK, SlotInv, [Next]_vars PROVE SlotInv'
  OBVIOUS
<1> USE RunnerAssumption DEF SlotInv, PoolBound
<1>1. ASSUME NEW j \in Jobs, NEW p \in Payloads, Create(j, p) PROVE SlotInv'
  BY <1>1 DEF Create, Step, TypeOK
<1>2. ASSUME NEW j \in Jobs, Goroutine(j) PROVE SlotInv'
  <2>1. CASE Register(j) \/ Spawn(j) \/ Unregister(j) \/ Exit(j)
    BY <2>1 DEF Register, Spawn, Unregister, Exit, Step, TypeOK
  <2>2. CASE Acquire(j)
    <3>1. IsFiniteSet(slots') /\ Cardinality(slots') <= Workers
      <4>1. j \notin slots
        BY <2>2 DEF Acquire, Step
      <4>2. Cardinality(slots') = Cardinality(slots) + 1 /\ IsFiniteSet(slots')
        BY <2>2, <4>1, FS_AddElement DEF Acquire
      <4>3. Cardinality(slots) \in Nat /\ Cardinality(slots) < Workers
        BY <2>2, FS_CardinalityType DEF Acquire
      <4> QED BY <4>2, <4>3
    <3> QED BY <2>2, <3>1 DEF Acquire, Step, TypeOK
  <2>3. CASE Start(j) \/ SkipCanceled(j) \/ Finish(j)
    BY <2>3 DEF Start, SkipCanceled, Finish, FinishAs, Step, TypeOK
  <2>4. CASE Release(j)
    <3>1. IsFiniteSet(slots') /\ Cardinality(slots') <= Workers
      <4>1. Cardinality(slots) \in Nat /\ IsFiniteSet(slots')
        BY <2>4, FS_CardinalityType, FS_RemoveElement DEF Release
      <4>2. Cardinality(slots') <= Cardinality(slots) /\ Cardinality(slots') \in Nat
        BY <2>4, <4>1, FS_Subset, FS_CardinalityType DEF Release
      <4> QED BY <4>1, <4>2
    <3> QED BY <2>4, <3>1 DEF Release, Step, TypeOK
  <2> QED BY <1>2, <2>1, <2>2, <2>3, <2>4 DEF Goroutine
<1>3. ASSUME NEW j \in Jobs, Cancel(j) PROVE SlotInv'
  BY <1>3 DEF Cancel
<1>4. CASE Lifecycle
  <2>1. CASE ProcessExit \/ Crash
    BY <2>1, FS_EmptySet DEF ProcessExit, Crash, Die
  <2>2. CASE ShutdownBegin \/ ShutdownReturn \/ Restart
    BY <2>2 DEF ShutdownBegin, ShutdownReturn, Restart, memory
  <2> QED BY <1>4, <2>1, <2>2 DEF Lifecycle
<1>5. CASE UNCHANGED vars
  BY <1>5 DEF vars
<1> QED BY <1>1, <1>2, <1>3, <1>4, <1>5 DEF Next

\* No pool size, however many jobs are submitted or cancelled, is ever exceeded.
THEOREM PoolNeverExceeded == Spec => []PoolBound
<1>1. Init => SlotInv
  BY RunnerAssumption, FS_EmptySet DEF Init, SlotInv, PoolBound
<1>2. SlotInv => PoolBound
  BY DEF SlotInv
<1> QED BY <1>1, <1>2, TypeCorrect, SlotStep, PTL DEF Spec

(***************************************************************************)
(* The row of a job against its goroutine.  RowAgreesWithGoroutine alone   *)
(* is not inductive: it says nothing of a job whose save was lost, and a   *)
(* later save of that job would be unconstrained.  RowInv adds what holds  *)
(* with or without lost saves: before the handler starts the row is still  *)
(* queued, and while it works the row is not yet terminal.                 *)
(***************************************************************************)

RowInv ==
  /\ \A j \in Jobs :
       /\ pc[j] \in Submitting \cup {"waiting", "admitted"} => row[j] = "queued"
       /\ pc[j] = "working" => row[j] \in Active
  /\ RowAgreesWithGoroutine

LEMMA RowStep == TypeOK /\ RowInv /\ [Next]_vars => RowInv'
<1> SUFFICES ASSUME TypeOK, RowInv, [Next]_vars PROVE RowInv'
  OBVIOUS
<1> USE DEF RowInv, RowAgreesWithGoroutine, Step, Submitting, Active, Terminal
<1>1. ASSUME NEW j \in Jobs, NEW p \in Payloads, Create(j, p) PROVE RowInv'
  BY <1>1 DEF Create, TypeOK
<1>2. ASSUME NEW j \in Jobs, Goroutine(j) PROVE RowInv'
  <2>1. CASE Register(j) \/ Spawn(j) \/ Acquire(j) \/ Release(j) \/ Unregister(j) \/ Exit(j)
    BY <2>1 DEF Register, Spawn, Acquire, Release, Unregister, Exit, TypeOK
  <2>2. CASE Start(j)
    BY <2>2 DEF Start, Save, TypeOK
  <2>3. CASE SkipCanceled(j)
    BY <2>3 DEF SkipCanceled, Save, TypeOK
  <2>4. CASE Finish(j)
    BY <2>4 DEF Finish, FinishAs, Outcomes, Save, TypeOK
  <2> QED BY <1>2, <2>1, <2>2, <2>3, <2>4 DEF Goroutine
<1>3. ASSUME NEW j \in Jobs, Cancel(j) PROVE RowInv'
  BY <1>3 DEF Cancel
<1>4. CASE Lifecycle
  BY <1>4 DEF Lifecycle, ShutdownBegin, ShutdownReturn, ProcessExit, Crash, Restart, Die, memory
<1>5. CASE UNCHANGED vars
  BY <1>5 DEF vars
<1> QED BY <1>1, <1>2, <1>3, <1>4, <1>5 DEF Next

LEMMA RowInvariant == Spec => []RowInv
<1>1. Init => RowInv
  BY DEF Init, RowInv, RowAgreesWithGoroutine, Submitting, Terminal
<1> QED BY <1>1, TypeCorrect, RowStep, PTL DEF Spec

\* The job table agrees with the pool wherever no save was lost.
THEOREM RowsAgree == Spec => []RowAgreesWithGoroutine
<1>1. RowInv => RowAgreesWithGoroutine
  BY DEF RowInv
<1> QED BY <1>1, RowInvariant, PTL

LEMMA TerminalStep ==
  TypeOK /\ RowInv /\ [Next]_vars
    => [\A j \in Jobs : row[j] \in Terminal => row'[j] = row[j]]_vars
<1> SUFFICES ASSUME TypeOK, RowInv, Next, NEW k \in Jobs, row[k] \in Terminal
             PROVE  row'[k] = row[k]
  BY DEF vars
<1> USE DEF RowInv, Step, Submitting, Active, Terminal
<1>1. ASSUME NEW j \in Jobs, NEW p \in Payloads, Create(j, p) PROVE row'[k] = row[k]
  BY <1>1 DEF Create, TypeOK
<1>2. ASSUME NEW j \in Jobs, Goroutine(j) PROVE row'[k] = row[k]
  BY <1>2 DEF Goroutine, Register, Spawn, Acquire, Start, SkipCanceled, Finish, FinishAs, Release,
              Unregister, Exit, Save, TypeOK
<1>3. ASSUME NEW j \in Jobs, Cancel(j) PROVE row'[k] = row[k]
  BY <1>3 DEF Cancel
<1>4. CASE Lifecycle
  BY <1>4 DEF Lifecycle, ShutdownBegin, ShutdownReturn, ProcessExit, Crash, Restart, Die
<1> QED BY <1>1, <1>2, <1>3, <1>4 DEF Next

\* A row that is done, canceled or failed never changes again.
THEOREM FinishedForGood == Spec => TerminalIsFinal
BY TypeCorrect, RowInvariant, TerminalStep, PTL DEF Spec, TerminalIsFinal

(***************************************************************************)
(* Cancellation: only Start enters the handler, and Start looks first.     *)
(***************************************************************************)

LEMMA CancelStep ==
  TypeOK /\ [Next]_vars
    => [\A j \in Jobs : j \in canceled /\ pc[j] # "working" => pc'[j] # "working"]_vars
<1> SUFFICES ASSUME TypeOK, Next, NEW k \in Jobs, k \in canceled, pc[k] # "working"
             PROVE  pc'[k] # "working"
  BY DEF vars
<1> USE DEF Step
<1>1. ASSUME NEW j \in Jobs, NEW p \in Payloads, Create(j, p) PROVE pc'[k] # "working"
  BY <1>1 DEF Create, TypeOK
<1>2. ASSUME NEW j \in Jobs, Goroutine(j) PROVE pc'[k] # "working"
  BY <1>2 DEF Goroutine, Register, Spawn, Acquire, Start, SkipCanceled, Finish, FinishAs, Release,
              Unregister, Exit, TypeOK
<1>3. ASSUME NEW j \in Jobs, Cancel(j) PROVE pc'[k] # "working"
  BY <1>3 DEF Cancel
<1>4. CASE Lifecycle
  BY <1>4 DEF Lifecycle, ShutdownBegin, ShutdownReturn, ProcessExit, Crash, Restart, Die, memory
<1> QED BY <1>1, <1>2, <1>3, <1>4 DEF Next

\* Cancelling a job that waits for a worker keeps its handler from ever starting.
THEOREM CancelBeforeStart == Spec => CanceledWaiterNeverWorks
BY TypeCorrect, CancelStep, PTL DEF Spec, CanceledWaiterNeverWorks

(***************************************************************************)
(* Shutdown: the wait group counts exactly the goroutines that were        *)
(* started and have not finished, so Wait returns when all have exited,    *)
(* and an exited goroutine saved a terminal state or lost that save.       *)
(***************************************************************************)

WaitGroupInv == \A j \in Jobs : pc[j] \in Running <=> j \in wg

LEMMA WaitGroupStep == TypeOK /\ WaitGroupInv /\ [Next]_vars => WaitGroupInv'
<1> SUFFICES ASSUME TypeOK, WaitGroupInv, [Next]_vars PROVE WaitGroupInv'
  OBVIOUS
<1> USE DEF WaitGroupInv, Step, Running
<1>1. ASSUME NEW j \in Jobs, NEW p \in Payloads, Create(j, p) PROVE WaitGroupInv'
  BY <1>1 DEF Create, TypeOK
<1>2. ASSUME NEW j \in Jobs, Goroutine(j) PROVE WaitGroupInv'
  BY <1>2 DEF Goroutine, Register, Spawn, Acquire, Start, SkipCanceled, Finish, FinishAs, Release,
              Unregister, Exit, TypeOK
<1>3. ASSUME NEW j \in Jobs, Cancel(j) PROVE WaitGroupInv'
  BY <1>3 DEF Cancel
<1>4. CASE Lifecycle
  BY <1>4 DEF Lifecycle, ShutdownBegin, ShutdownReturn, ProcessExit, Crash, Restart, Die, memory
<1>5. CASE UNCHANGED vars
  BY <1>5 DEF vars
<1> QED BY <1>1, <1>2, <1>3, <1>4, <1>5 DEF Next

LEMMA WaitGroupInvariant == Spec => []WaitGroupInv
<1>1. Init => WaitGroupInv
  BY DEF Init, WaitGroupInv, Running
<1> QED BY <1>1, TypeCorrect, WaitGroupStep, PTL DEF Spec

LEMMA ShutdownStep ==
  TypeOK /\ RowInv /\ WaitGroupInv /\ [Next]_vars
    => [server' = "stopped" /\ server # "stopped" =>
          \A j \in Jobs : pc[j] \in Running \cup {"exited"} =>
            pc[j] = "exited" /\ (row[j] \in Terminal \/ j \in unsaved)]_vars
<1> SUFFICES ASSUME TypeOK, RowInv, WaitGroupInv, Next,
                    server' = "stopped", server # "stopped",
                    NEW k \in Jobs, pc[k] \in Running \cup {"exited"}
             PROVE  pc[k] = "exited" /\ (row[k] \in Terminal \/ k \in unsaved)
  BY DEF vars
<1>1. ShutdownReturn
  BY DEF Next, Create, Goroutine, Register, Spawn, Acquire, Start, SkipCanceled, Finish, FinishAs, Release,
         Unregister, Exit, Cancel, Lifecycle, ShutdownBegin, ProcessExit, Crash, Restart, Die
<1>2. pc[k] = "exited"
  BY <1>1 DEF ShutdownReturn, WaitGroupInv
<1> QED BY <1>2 DEF RowInv, RowAgreesWithGoroutine

\* Shutdown returns only once every job it had to wait for is settled.
THEOREM ShutdownWaits == Spec => ShutdownSettlesStartedJobs
BY TypeCorrect, RowInvariant, WaitGroupInvariant, ShutdownStep, PTL
   DEF Spec, ShutdownSettlesStartedJobs

-----------------------------------------------------------------------------
(* The runner and its callers.                                             *)

\* What the composition adds to the runner's types: libraries are libraries, a job
\* whose handler is still ahead has a payload, and a chained job is not a fresh id.
ChainTypes ==
  /\ lib \in [Callers -> Libraries]
  /\ got \in [Requests \cup Jobs -> Jobs \cup {NoJob}]
  /\ \A j \in Jobs : HandlerAhead(j) => payload[j] \in Payloads
  /\ \A j \in Jobs : got[j] \in Jobs => pc[got[j]] # "idle"

\* While a chained job is still being submitted, the scan that chained it is inside
\* its handler, hence counted by the wait group.
ChainInv == \A j \in Jobs : got[j] \in Jobs /\ pc[got[j]] \in Submitting => pc[j] = "working"

ScanInv == TypeOK /\ ChainTypes /\ ChainInv

(***************************************************************************)
(* The runner's view of a step of the composition: a step of the runner,   *)
(* or nothing.                                                             *)
(***************************************************************************)

LEMMA RunnerStep == ScanInv /\ ScanNext => [Next]_vars
<1> SUFFICES ASSUME ScanInv, ScanNext PROVE Next \/ UNCHANGED vars
  OBVIOUS
<1>1. ASSUME NEW q \in Callers, Begin(q) PROVE Next \/ UNCHANGED vars
  BY <1>1 DEF Begin
<1>2. ASSUME NEW q \in Requests, RequestStep(q) PROVE Next \/ UNCHANGED vars
  <2>1. CASE SubmitScan(q)
    <3>1. PICK j \in Jobs : Create(j, [type |-> "scan", lib |-> lib[q]])
      BY <2>1 DEF SubmitScan
    <3>2. [type |-> "scan", lib |-> lib[q]] \in Payloads
      BY ScanAssumption DEF Callers, ScanInv, ChainTypes
    <3> QED BY <3>1, <3>2 DEF Next
  <2>2. CASE LookRunning(q) \/ LookQueued(q) \/ SubmitFails(q) \/ Accept(q)
    BY <2>2 DEF LookRunning, LookQueued, Look, SubmitFails, Accept
  <2> QED BY <1>2, <2>1, <2>2 DEF RequestStep
<1>3. ASSUME NEW c \in Cancelers, CancelerStep(c) PROVE Next \/ UNCHANGED vars
  <2>1. CASE CancelNext(c)
    <3>1. PICK j \in todo[c] : Cancel(j) \/ (j \notin cancels /\ UNCHANGED vars)
      BY <2>1 DEF CancelNext
    <3>2. Cancel(j) => j \in Jobs
      BY DEF Cancel, ScanInv, TypeOK
    <3> QED BY <3>1, <3>2 DEF Next
  <2>2. CASE ListRunning(c) \/ ListQueued(c) \/ CancelAnswer(c)
    BY <2>2 DEF ListRunning, ListQueued, CancelListed, CancelAnswer
  <2> QED BY <1>3, <2>1, <2>2 DEF CancelerStep
<1>4. ASSUME NEW j \in Jobs, Chain(j) PROVE Next \/ UNCHANGED vars
  <2>1. PICK k \in Jobs : Create(k, [type |-> "automatch", lib |-> payload[j].lib])
    BY <1>4 DEF Chain
  <2>2. payload[j] \in Payloads
    BY <1>4 DEF Chain, ScanInv, ChainTypes, HandlerAhead
  <2>3. [type |-> "automatch", lib |-> payload[j].lib] \in Payloads
    BY <2>2, ScanAssumption
  <2> QED BY <2>1, <2>3 DEF Next
<1>5. ASSUME NEW j \in Jobs, GoroutineStep(j) PROVE Next \/ UNCHANGED vars
  <2>1. Goroutine(j)
    BY <1>5 DEF GoroutineStep, HandlerReturns, Goroutine, Finish
  <2> QED BY <2>1 DEF Next
<1>6. CASE ProcessStep
  BY <1>6 DEF ProcessStep, Next
<1> QED BY <1>1, <1>2, <1>3, <1>4, <1>5, <1>6 DEF ScanNext

(***************************************************************************)
(* The invariant of the composition.                                       *)
(***************************************************************************)

\* A step that leaves got alone and starts no job keeps the chain facts, provided it
\* takes no goroutine out of its handler while its chained job is being submitted.
LEMMA ChainKept ==
  ASSUME ScanInv, TypeOK',
         UNCHANGED <<lib, got>>,
         \A j \in Jobs : pc[j] # "idle" => pc'[j] # "idle",
         \A j \in Jobs : pc'[j] \in Submitting => pc[j] \in Submitting,
         \A j \in Jobs : HandlerAhead(j)' => HandlerAhead(j) /\ payload'[j] = payload[j],
         \A j \in Jobs : pc[j] = "working" /\ pc'[j] # "working" =>
                           (got[j] \in Jobs => pc[got[j]] \notin Submitting)
  PROVE  ScanInv'
BY DEF ScanInv, ChainTypes, ChainInv

LEMMA ScanInvStep == ScanInv /\ [ScanNext]_allVars => ScanInv'
<1> SUFFICES ASSUME ScanInv, [ScanNext]_allVars PROVE ScanInv'
  OBVIOUS
<1>0. TypeOK'
  BY RunnerStep, TypeStep DEF ScanInv, allVars
<1> USE DEF HandlerAhead
<1>1. ASSUME NEW q \in Callers, Begin(q) PROVE ScanInv'
  BY <1>0, <1>1 DEF Begin, vars, ScanInv, ChainTypes, ChainInv
<1>2. ASSUME NEW q \in Requests, RequestStep(q) PROVE ScanInv'
  <2>1. CASE SubmitScan(q)
    <3>1. PICK j \in Jobs : /\ Create(j, [type |-> "scan", lib |-> lib[q]])
                            /\ got' = [got EXCEPT ![q] = j]
                            /\ UNCHANGED lib
      BY <2>1 DEF SubmitScan
    <3>2. [type |-> "scan", lib |-> lib[q]] \in Payloads
      BY ScanAssumption DEF Callers, ScanInv, ChainTypes
    <3>3. \A k \in Jobs : got'[k] = got[k]
      BY <3>1, ScanAssumption DEF ScanInv, ChainTypes
    <3>4. \A k \in Jobs \ {j} : pc'[k] = pc[k] /\ payload'[k] = payload[k]
      BY <3>1 DEF Create, Step, ScanInv, TypeOK
    <3>5. pc[j] = "idle" /\ pc'[j] = "created" /\ payload'[j] \in Payloads
      BY <3>1, <3>2 DEF Create, Step, ScanInv, TypeOK
    <3>6. ChainTypes'
      BY <3>1, <3>3, <3>4, <3>5 DEF ScanInv, ChainTypes
    <3>7. ChainInv'
      BY <3>3, <3>4, <3>5 DEF ScanInv, ChainTypes, ChainInv
    <3> QED BY <1>0, <3>6, <3>7 DEF ScanInv
  <2>2. CASE LookRunning(q) \/ LookQueued(q)
    <3>1. UNCHANGED <<vars, lib>> /\ got' \in [Requests \cup Jobs -> Jobs \cup {NoJob}]
      BY <2>2 DEF LookRunning, LookQueued, Look, Scans, ScanInv, ChainTypes
    <3>2. \A k \in Jobs : got'[k] = got[k]
      BY <2>2, ScanAssumption DEF LookRunning, LookQueued, Look, ScanInv, ChainTypes
    <3> QED BY <1>0, <3>1, <3>2 DEF vars, ScanInv, ChainTypes, ChainInv
  <2>3. CASE SubmitFails(q) \/ Accept(q)
    BY <1>0, <2>3 DEF SubmitFails, Accept, vars, ScanInv, ChainTypes, ChainInv
  <2> QED BY <1>2, <2>1, <2>2, <2>3 DEF RequestStep
<1>3. ASSUME NEW c \in Cancelers, CancelerStep(c) PROVE ScanInv'
  BY <1>0, <1>3 DEF CancelerStep, ListRunning, ListQueued, CancelListed, CancelNext, CancelAnswer,
                    Cancel, vars, ScanInv, ChainTypes, ChainInv
<1>4. ASSUME NEW j \in Jobs, Chain(j) PROVE ScanInv'
  <2>1. PICK k \in Jobs : /\ Create(k, [type |-> "automatch", lib |-> payload[j].lib])
                          /\ got' = [got EXCEPT ![j] = k]
                          /\ UNCHANGED lib
    BY <1>4 DEF Chain
  <2>2. [type |-> "automatch", lib |-> payload[j].lib] \in Payloads
    BY <1>4, ScanAssumption DEF Chain, ScanInv, ChainTypes
  <2>3. \A i \in Jobs \ {k} : pc'[i] = pc[i] /\ payload'[i] = payload[i]
    BY <2>1 DEF Create, Step, ScanInv, TypeOK
  <2>4. pc[k] = "idle" /\ pc'[k] = "created" /\ payload'[k] \in Payloads
    BY <2>1, <2>2 DEF Create, Step, ScanInv, TypeOK
  <2>5. pc[j] = "working"
    BY <1>4 DEF Chain
  <2>6. got'[j] = k /\ \A i \in Jobs \ {j} : got'[i] = got[i]
    BY <2>1 DEF ScanInv, ChainTypes
  <2>7. ChainTypes'
    BY <2>1, <2>3, <2>4, <2>6 DEF ScanInv, ChainTypes
  <2>8. ChainInv'
    BY <2>3, <2>4, <2>5, <2>6 DEF ScanInv, ChainTypes, ChainInv
  <2> QED BY <1>0, <2>7, <2>8 DEF ScanInv
<1>5. ASSUME NEW j \in Jobs, GoroutineStep(j) PROVE ScanInv'
  <2> USE DEF Step, Submitting
  <2>1. CASE HandlerReturns(j)
    <3>1. /\ pc[j] = "working" /\ pc' = [pc EXCEPT ![j] = "settled"]
          /\ UNCHANGED <<payload, lib, got>>
          /\ got[j] \in Jobs => pc[got[j]] \notin Submitting
      BY <2>1, ScanAssumption DEF HandlerReturns, FinishAs, callerVars
    <3> QED BY <1>0, <3>1, ChainKept DEF ScanInv, TypeOK
  <2>2. CASE Register(j) /\ UNCHANGED callerVars
    BY <1>0, <2>2, ChainKept DEF Register, callerVars, ScanInv, TypeOK
  <2>3. CASE (Spawn(j) \/ Acquire(j) \/ Release(j) \/ Unregister(j) \/ Exit(j)) /\ UNCHANGED callerVars
    BY <1>0, <2>3, ChainKept DEF Spawn, Acquire, Release, Unregister, Exit, callerVars, ScanInv, TypeOK
  <2>4. CASE (Start(j) \/ SkipCanceled(j)) /\ UNCHANGED callerVars
    BY <1>0, <2>4, ChainKept DEF Start, SkipCanceled, callerVars, ScanInv, TypeOK
  <2> QED BY <1>5, <2>1, <2>2, <2>3, <2>4 DEF GoroutineStep
<1>6. CASE ProcessStep
  <2>1. CASE server' = "down"
    <3>1. /\ \A j \in Jobs : pc'[j] = "idle"
          /\ got' = [x \in Requests \cup Jobs |-> IF x \in Jobs THEN NoJob ELSE got[x]]
          /\ UNCHANGED lib
      BY <1>6, <2>1 DEF ProcessStep, Lifecycle, ShutdownBegin, ShutdownReturn, ProcessExit, Crash,
                        Restart, Die
    <3> QED BY <1>0, <3>1, ScanAssumption DEF ScanInv, ChainTypes, ChainInv, Submitting
  <2>2. CASE server' # "down"
    <3>1. UNCHANGED <<pc, payload, lib, got>>
      BY <1>6, <2>2 DEF ProcessStep, Lifecycle, ShutdownBegin, ShutdownReturn, ProcessExit, Crash,
                        Restart, Die, memory, callerVars
    <3> QED BY <1>0, <3>1 DEF ScanInv, ChainTypes, ChainInv
  <2> QED BY <2>1, <2>2
<1>7. CASE UNCHANGED allVars
  BY <1>7 DEF allVars, callerVars, vars, ScanInv, ChainTypes, ChainInv, TypeOK
<1> QED BY <1>1, <1>2, <1>3, <1>4, <1>5, <1>6, <1>7 DEF ScanNext

LEMMA ScanInvariant == ScanSpec => []ScanInv
<1>1. ScanInit => ScanInv
  BY ScanAssumption DEF ScanInit, Init, ScanInv, TypeOK, ChainTypes, ChainInv, HandlerAhead,
                        Submitting, Active
<1> QED BY <1>1, ScanInvStep, PTL DEF ScanSpec

\* The composition implements the job runner: every theorem about the runner holds
\* with any mix of scan, rescan and cancel calls on top.
THEOREM ScansImplementRunner == ScanSpec => ImplementsRunner
<1>1. ScanInit => Init
  BY DEF ScanInit
<1>2. ScanInv /\ [ScanNext]_allVars => [Next]_vars
  BY RunnerStep DEF allVars
<1> QED BY <1>1, <1>2, ScanInvariant, PTL DEF ScanSpec, Spec, ImplementsRunner

\* Shutdown never returns while a chained match job is between its row and its
\* goroutine: the scan that chains it holds the wait group until it is counted.
THEOREM ChainsAreWaitedFor == ScanSpec => ChainedJobsAreWaitedFor
<1>1. TypeOK /\ WaitGroupInv /\ ScanInv /\ [ScanNext]_allVars
        => [server' = "stopped" /\ server # "stopped" =>
              \A j \in Jobs : got[j] # NoJob => pc[got[j]] \in {"idle", "exited"}]_allVars
  <2> SUFFICES ASSUME TypeOK, WaitGroupInv, ScanInv, ScanNext,
                      server' = "stopped", server # "stopped",
                      NEW j \in Jobs, got[j] # NoJob
               PROVE  pc[got[j]] \in {"idle", "exited"}
    OBVIOUS
  <2>1. ShutdownReturn
    <3>1. Next
      BY RunnerStep DEF vars
    <3> QED BY <3>1 DEF Next, Create, Goroutine, Register, Spawn, Acquire, Start, SkipCanceled,
                        Finish, FinishAs, Release, Unregister, Exit, Cancel, Lifecycle, ShutdownBegin,
                        ProcessExit, Crash, Restart, Die
  <2>2. \A k \in Jobs : pc[k] \notin Running
    BY <2>1 DEF ShutdownReturn, WaitGroupInv
  <2>3. got[j] \in Jobs
    BY DEF ScanInv, ChainTypes
  <2>4. pc[got[j]] \notin Submitting
    BY <2>2, <2>3 DEF ScanInv, ChainInv, Running
  <2> QED BY <2>2, <2>3, <2>4 DEF TypeOK
<1> QED BY <1>1, ScanInvariant, ScansImplementRunner, TypeCorrect, WaitGroupInvariant, PTL
        DEF ScanSpec, ImplementsRunner, ChainedJobsAreWaitedFor

(***************************************************************************)
(* What a caller saw when it began.  Between its queries rows only move    *)
(* forward, so a scan that was running then is running or over; and while  *)
(* its handler is ahead it is in the cancel map.                           *)
(***************************************************************************)

MapInv == \A j \in Jobs : pc[j] \in {"registered", "waiting", "admitted", "working"} => j \in cancels

RunnerInv == TypeOK /\ RowInv /\ MapInv

Begun == {"running"} \cup Terminal

\* Rows and payloads are kept, a job that has begun stays so, and no handler is ahead
\* that was not before, or forgets that it was cancelled.
Onward(k) ==
  row[k] # "absent" =>
    /\ payload'[k] = payload[k] /\ row'[k] # "absent"
    /\ row[k] \in Begun => row'[k] \in Begun
    /\ row[k] \in Terminal => row'[k] \in Terminal
    /\ HandlerAhead(k)' => HandlerAhead(k) /\ (k \in canceled => k \in canceled')

LEMMA MapStep == TypeOK /\ MapInv /\ [Next]_vars => MapInv'
<1> SUFFICES ASSUME TypeOK, MapInv, [Next]_vars PROVE MapInv'
  OBVIOUS
<1> USE DEF MapInv, Step
<1>1. ASSUME NEW j \in Jobs, NEW p \in Payloads, Create(j, p) PROVE MapInv'
  BY <1>1 DEF Create, TypeOK
<1>2. ASSUME NEW j \in Jobs, Goroutine(j) PROVE MapInv'
  BY <1>2 DEF Goroutine, Register, Spawn, Acquire, Start, SkipCanceled, Finish, FinishAs, Release,
              Unregister, Exit, TypeOK
<1>3. ASSUME NEW j \in Jobs, Cancel(j) PROVE MapInv'
  BY <1>3 DEF Cancel
<1>4. CASE Lifecycle
  BY <1>4 DEF Lifecycle, ShutdownBegin, ShutdownReturn, ProcessExit, Crash, Restart, Die, memory
<1>5. CASE UNCHANGED vars
  BY <1>5 DEF vars
<1> QED BY <1>1, <1>2, <1>3, <1>4, <1>5 DEF Next

LEMMA RunnerInvariant == Spec => []RunnerInv
<1>1. Init => MapInv
  BY DEF Init, MapInv
<1> QED BY <1>1, MapStep, TypeCorrect, RowInvariant, PTL DEF Spec, RunnerInv

LEMMA OnwardStep ==
  ASSUME RunnerInv, [Next]_vars, NEW k \in Jobs
  PROVE  Onward(k)
<1> USE DEF RunnerInv, Onward, Step, HandlerAhead, Submitting
<1>1. row[k] \in Terminal => row'[k] \in Terminal
  BY TerminalStep DEF vars
<1>2. ASSUME NEW j \in Jobs, NEW p \in Payloads, Create(j, p) PROVE Onward(k)
  BY <1>1, <1>2 DEF Create, TypeOK
<1>3. ASSUME NEW j \in Jobs, Goroutine(j) PROVE Onward(k)
  <2>1. payload' = payload /\ canceled' = canceled
    BY <1>3 DEF Goroutine, Register, Spawn, Acquire, Start, SkipCanceled, Finish, FinishAs, Release,
                Unregister, Exit
  <2>2. HandlerAhead(k)' => HandlerAhead(k)
    BY <1>3 DEF Goroutine, Register, Spawn, Acquire, Start, SkipCanceled, Finish, FinishAs, Release,
                Unregister, Exit, TypeOK
  <2>3. row'[k] = row[k] \/ row'[k] \in Begun
    BY <1>3 DEF Goroutine, Register, Spawn, Acquire, Start, SkipCanceled, Finish, FinishAs, Release,
                Unregister, Exit, Save, Outcomes, Begun, Terminal, TypeOK
  <2> QED BY <1>1, <2>1, <2>2, <2>3 DEF Begun, Terminal
<1>4. ASSUME NEW j \in Jobs, Cancel(j) PROVE Onward(k)
  BY <1>4 DEF Cancel
<1>5. CASE Lifecycle
  BY <1>5 DEF Lifecycle, ShutdownBegin, ShutdownReturn, ProcessExit, Crash, Restart, Die, memory
<1>6. CASE UNCHANGED vars
  BY <1>6 DEF vars
<1> QED BY <1>2, <1>3, <1>4, <1>5, <1>6 DEF Next

CallerTypes ==
  /\ at \in [Callers -> {"idle"} \cup InProgress \cup Answered]
  /\ seen \in [Callers -> [Active -> SUBSET Jobs]]
  /\ todo \in [Cancelers -> SUBSET Jobs]

\* The scans a caller saw running are scans of its library that have begun.
SeenInv ==
  \A q \in Callers : \A k \in seen[q]["running"] :
    IsScan(k) /\ payload[k].lib = lib[q] /\ row[k] \in Begun

\* A request that looks for queued scans, or is about to submit, found none running.
RequestsInv ==
  \A q \in Requests : at[q] \in {"second", "checked"} =>
    \A k \in seen[q]["running"] : row[k] \in Terminal

\* A cancel call has listed what was running, then cancelled all of it.
CancelersInv ==
  \A c \in Cancelers : \A k \in seen[c]["running"] : HandlerAhead(k) =>
    /\ at[c] = "cancel1" => k \in canceled \cup todo[c]
    /\ at[c] \in {"cancel2", "canceled"} => k \in canceled

CallersInv == CallerTypes /\ SeenInv /\ RequestsInv /\ CancelersInv

\* A step of the runner that moves no caller keeps what the callers know.
LEMMA CallersKept ==
  ASSUME CallersInv, UNCHANGED <<at, lib, seen, todo>>, \A k \in Jobs : Onward(k)
  PROVE  CallersInv'
<1> USE DEF CallersInv
<1>1. CallerTypes'
  BY DEF CallerTypes
<1>2. SeenInv'
  BY DEF SeenInv, CallerTypes, IsScan, Onward, Active
<1>3. RequestsInv'
  BY DEF RequestsInv, SeenInv, CallerTypes, IsScan, Onward, Active, Callers
<1>4. CancelersInv'
  BY DEF CancelersInv, SeenInv, CallerTypes, IsScan, Onward, Active, Callers
<1> QED BY <1>1, <1>2, <1>3, <1>4

\* Nor does the answer of a caller, or its move to a place nothing is said of.
LEMMA CallerMoves ==
  ASSUME CallersInv, UNCHANGED <<row, payload, pc, canceled, lib, seen, todo>>,
         NEW q \in Requests, NEW from, NEW to \in InProgress \cup Answered, Goto(q, from, to),
         to \in {"second", "checked"} => \A k \in seen[q]["running"] : row[k] \in Terminal
  PROVE  CallersInv'
<1> USE DEF CallersInv, Goto, Callers
<1>1. CallerTypes'
  BY DEF CallerTypes
<1>2. SeenInv'
  BY DEF SeenInv, IsScan
<1>3. RequestsInv'
  BY DEF RequestsInv, CallerTypes
<1>4. CancelersInv'
  BY ScanAssumption DEF CancelersInv, CallerTypes, HandlerAhead
<1> QED BY <1>1, <1>2, <1>3, <1>4

LEMMA BeginStep ==
  ASSUME RunnerInv, CallersInv, NEW q \in Callers, Begin(q)
  PROVE  CallersInv'
<1> USE DEF CallersInv, Begin, Goto, vars
<1>1. seen' = [seen EXCEPT ![q] = [state \in Active |-> Scans(lib[q], state)]]
  OBVIOUS
<1>2. seen'[q]["running"] = {j \in Jobs : IsScan(j) /\ row[j] = "running" /\ payload[j].lib = lib[q]}
  BY <1>1 DEF CallerTypes, Active, Scans
<1>3. CallerTypes'
  BY <1>1 DEF CallerTypes, Scans, InProgress
<1>4. \A p \in Callers \ {q} : seen'[p] = seen[p] /\ at'[p] = at[p]
  BY <1>1 DEF CallerTypes
<1>5. SeenInv'
  BY <1>2, <1>4 DEF SeenInv, IsScan, Begun
<1>6. at'[q] = "first"
  BY DEF CallerTypes
<1>7. RequestsInv'
  BY <1>4, <1>6 DEF RequestsInv, Callers
<1>8. CancelersInv'
  BY <1>4, <1>6 DEF CancelersInv, Callers, HandlerAhead
<1> QED BY <1>3, <1>5, <1>7, <1>8

LEMMA RequestMoves ==
  ASSUME RunnerInv, CallersInv, NEW q \in Requests, LookRunning(q) \/ LookQueued(q) \/ SubmitFails(q) \/ Accept(q)
  PROVE  CallersInv'
<1> USE DEF vars, InProgress, Answered
<1>1. CASE LookRunning(q)
  <2>1. CASE Scans(lib[q], "running") = {} /\ Goto(q, "first", "second")
    <3>1. \A k \in seen[q]["running"] : row[k] \in Terminal
      BY <2>1 DEF Scans, CallersInv, SeenInv, CallerTypes, Active, Begun, Callers
    <3> QED BY <1>1, <2>1, <3>1, CallerMoves DEF LookRunning, Look
  <2>2. CASE Goto(q, "first", "coalesced")
    BY <1>1, <2>2, CallerMoves DEF LookRunning, Look
  <2> QED BY <1>1, <2>1, <2>2 DEF LookRunning, Look
<1>2. CASE LookQueued(q)
  <2>1. CASE Goto(q, "second", "checked")
    <3>1. \A k \in seen[q]["running"] : row[k] \in Terminal
      BY <2>1 DEF Goto, CallersInv, RequestsInv
    <3> QED BY <1>2, <2>1, <3>1, CallerMoves DEF LookQueued, Look
  <2>2. CASE Goto(q, "second", "coalesced")
    BY <1>2, <2>2, CallerMoves DEF LookQueued, Look
  <2> QED BY <1>2, <2>1, <2>2 DEF LookQueued, Look
<1>3. CASE SubmitFails(q)
  BY <1>3, CallerMoves DEF SubmitFails
<1>4. CASE Accept(q)
  BY <1>4, CallerMoves DEF Accept
<1> QED BY <1>1, <1>2, <1>3, <1>4

LEMMA SubmitStep ==
  ASSUME RunnerInv, CallersInv, NEW q \in Requests, SubmitScan(q), \A k \in Jobs : Onward(k)
  PROVE  CallersInv'
<1> USE DEF CallersInv, Callers
<1>1. at' = [at EXCEPT ![q] = "submitting"] /\ UNCHANGED <<lib, seen, todo>>
  BY DEF SubmitScan, Goto
<1>2. CallerTypes'
  BY <1>1 DEF CallerTypes, InProgress
<1>3. SeenInv'
  BY <1>1 DEF SeenInv, CallerTypes, IsScan, Onward, Active
<1>4. RequestsInv'
  BY <1>1 DEF RequestsInv, SeenInv, CallerTypes, IsScan, Onward, Active
<1>5. CancelersInv'
  BY <1>1, ScanAssumption DEF CancelersInv, SeenInv, CallerTypes, IsScan, Onward, Active
<1> QED BY <1>2, <1>3, <1>4, <1>5

LEMMA CancelerMoves ==
  ASSUME RunnerInv, CallersInv, NEW c \in Cancelers, CancelerStep(c)
  PROVE  CallersInv'
<1> USE DEF CallersInv, Callers
<1>1. CASE ListRunning(c)
  <2>1. /\ at[c] = "first" /\ at' = [at EXCEPT ![c] = "cancel1"]
        /\ todo' = [todo EXCEPT ![c] = Scans(lib[c], "running")]
        /\ UNCHANGED <<vars, lib, seen>>
    BY <1>1 DEF ListRunning, CancelListed, Goto
  <2>2. \A k \in seen[c]["running"] : HandlerAhead(k) => k \in Scans(lib[c], "running")
    BY DEF SeenInv, CallerTypes, Active, Scans, HandlerAhead, RunnerInv, RowInv, Begun, Terminal,
           Submitting
  <2> QED BY <2>1, <2>2, ScanAssumption
          DEF vars, CallerTypes, SeenInv, RequestsInv, CancelersInv, IsScan, HandlerAhead, Scans,
              InProgress
<1>2. CASE ListQueued(c)
  <2>1. /\ at[c] = "cancel1" /\ at' = [at EXCEPT ![c] = "cancel2"] /\ todo[c] = {}
        /\ todo' = [todo EXCEPT ![c] = Scans(lib[c], "queued")]
        /\ UNCHANGED <<vars, lib, seen>>
    BY <1>2 DEF ListQueued, CancelListed, Goto
  <2> QED BY <2>1, ScanAssumption
          DEF vars, CallerTypes, SeenInv, RequestsInv, CancelersInv, IsScan, HandlerAhead, Scans,
              InProgress
<1>3. CASE CancelNext(c)
  <2>1. PICK j \in todo[c] : /\ todo' = [todo EXCEPT ![c] = @ \ {j}]
                             /\ Cancel(j) \/ (j \notin cancels /\ UNCHANGED vars)
                             /\ UNCHANGED <<at, lib, got, seen>>
    BY <1>3 DEF CancelNext
  <2>2. /\ UNCHANGED <<row, payload, pc>> /\ canceled \subseteq canceled'
        /\ j \in cancels => j \in canceled'
    BY <2>1 DEF Cancel, vars
  <2>3. j \in seen[c]["running"] /\ HandlerAhead(j) => j \in cancels
    BY <2>1 DEF SeenInv, CallerTypes, HandlerAhead, RunnerInv, RowInv, MapInv, Begun, Terminal,
                Submitting
  <2>4. CallerTypes' /\ SeenInv' /\ RequestsInv'
    BY <2>1, <2>2 DEF CallerTypes, SeenInv, RequestsInv, IsScan
  <2>5. CancelersInv'
    BY <2>1, <2>2, <2>3 DEF CallerTypes, CancelersInv, HandlerAhead
  <2> QED BY <2>4, <2>5
<1>4. CASE CancelAnswer(c)
  <2>1. /\ at[c] = "cancel2" /\ at' = [at EXCEPT ![c] = "canceled"]
        /\ UNCHANGED <<vars, lib, seen, todo>>
    BY <1>4 DEF CancelAnswer, Goto
  <2> QED BY <2>1, ScanAssumption
          DEF vars, CallerTypes, SeenInv, RequestsInv, CancelersInv, IsScan, HandlerAhead, Answered
<1> QED BY <1>1, <1>2, <1>3, <1>4 DEF CancelerStep

LEMMA CallersStep == RunnerInv /\ ScanInv /\ CallersInv /\ [ScanNext]_allVars => CallersInv'
<1> SUFFICES ASSUME RunnerInv, ScanInv, CallersInv, [ScanNext]_allVars PROVE CallersInv'
  OBVIOUS
<1>0. \A k \in Jobs : Onward(k)
  BY RunnerStep, OnwardStep DEF allVars
<1>1. ASSUME NEW q \in Requests, RequestStep(q) PROVE CallersInv'
  BY <1>0, <1>1, RequestMoves, SubmitStep DEF RequestStep
<1>2. ASSUME NEW j \in Jobs, Chain(j) \/ GoroutineStep(j) PROVE CallersInv'
  BY <1>0, <1>2, CallersKept DEF Chain, GoroutineStep, HandlerReturns, callerVars
<1>3. CASE ProcessStep
  <2>1. CASE UNCHANGED callerVars
    BY <1>0, <2>1, CallersKept DEF callerVars
  <2>2. CASE server' = "down"
    <3>1. /\ at' = [q \in Callers |-> IF at[q] \in InProgress THEN "refused" ELSE at[q]]
          /\ todo' = [c \in Cancelers |-> {}]
          /\ UNCHANGED <<lib, seen>>
      BY <1>3, <2>2 DEF ProcessStep
    <3>2. \A j \in Jobs : ~HandlerAhead(j)'
      BY <1>3, <2>2 DEF ProcessStep, Lifecycle, ShutdownBegin, ShutdownReturn, ProcessExit, Crash,
                        Restart, Die, HandlerAhead, Submitting
    <3>3. CallerTypes'
      BY <3>1 DEF CallersInv, CallerTypes, Answered
    <3>4. SeenInv'
      BY <1>0, <3>1 DEF CallersInv, CallerTypes, SeenInv, IsScan, Onward, Active
    <3>5. RequestsInv'
      BY <3>1 DEF RequestsInv, InProgress, Callers
    <3>6. CancelersInv'
      BY <3>1, <3>2 DEF CallersInv, CallerTypes, CancelersInv, Active, Callers
    <3> QED BY <3>3, <3>4, <3>5, <3>6 DEF CallersInv
  <2> QED BY <1>3, <2>1, <2>2 DEF ProcessStep
<1>4. CASE UNCHANGED allVars
  BY <1>0, <1>4, CallersKept DEF allVars, callerVars
<1> QED BY <1>1, <1>2, <1>3, <1>4, BeginStep, CancelerMoves DEF ScanNext

LEMMA CallersInvariant == ScanSpec => [](RunnerInv /\ CallersInv)
<1>1. ScanInit => CallersInv
  BY DEF ScanInit, CallersInv, CallerTypes, SeenInv, RequestsInv, CancelersInv, Active, Callers
<1>2. ScanSpec => []RunnerInv
  BY ScansImplementRunner, RunnerInvariant, PTL DEF ImplementsRunner
<1> QED BY <1>1, <1>2, CallersStep, ScanInvariant, PTL DEF ScanSpec

\* A request submits a scan of its own only when every scan of the library that was
\* running when it came in is over.
THEOREM NoScanJoined == ScanSpec => NeverJoinsARunningScan
<1>1. CallersInv /\ [ScanNext]_allVars
        => [\A q \in Requests : at[q] = "checked" /\ at'[q] = "submitting" =>
              \A k \in seen[q]["running"] : row[k] \in Terminal]_allVars
  BY DEF CallersInv, RequestsInv
<1> QED BY <1>1, CallersInvariant, PTL DEF ScanSpec, NeverJoinsARunningScan

\* Whatever starts, ends or crashes while the cancel handler goes through its two
\* lists, once it has answered no scan that ran when it began runs on uncancelled.
THEOREM CancelsReachScans == ScanSpec => []CancelReachesRunningScans
<1>1. CallersInv => CancelReachesRunningScans
  BY DEF CallersInv, CancelersInv, CancelReachesRunningScans
<1> QED BY <1>1, CallersInvariant, PTL

-----------------------------------------------------------------------------
(***************************************************************************)
(* The two writers of a series' metadata and the screen over them.         *)
(***************************************************************************)
MetaOf(n, k, i, d) == [number |-> n, kind |-> k, ignored |-> i, id |-> d]
IsMeta(m) == m = MetaOf(m.number, m.kind, m.ignored, m.id)

\* What a run that goes through the volume's issues has.
Looping(g) == g.at \in {"next", "locks", "write", "credits"}

Loop(state, v, n, applied, files, left) ==
  [at |-> state, volume |-> v, listed |-> n, applied |-> applied, arcs |-> files, left |-> left]

EditShape(e) ==
  /\ e.at = "get" => e = [at |-> "get", book |-> e.book, patch |-> e.patch]
  /\ e.at \in {"locks", "write"} /\ e.book \in Books => IsMeta(e.copy)
RunShape(g) ==
  /\ g.at = "link" =>
       g = [at |-> "link", volume |-> g.volume, listed |-> g.listed, written |-> g.written]
  /\ g.at \in {"next", "credits"} =>
       g = Loop(g.at, g.volume, g.listed, g.applied, g.arcs, g.left)
  /\ g.at \in {"locks", "write"} /\ Next1(g) \in Books => IsMeta(g.copy)

DeskShape ==
  /\ meta = [b \in Books |-> meta[b]] /\ \A b \in Books : IsMeta(meta[b])
  /\ locks = [b \in Books |-> locks[b]]
  /\ edit = [c \in Edits |-> edit[c]] /\ \A c \in Edits : EditShape(edit[c])
  /\ run = [r \in Runs |-> run[r]] /\ \A r \in Runs : RunShape(run[r])
  /\ series = [state |-> series.state, link |-> series.link, there |-> series.there]

\* A volume that is linked, or to be linked, is one of the provider's.
LinksInv ==
  /\ series.link \in Volumes \cup {None}
  /\ cache = [k \in Caches |-> cache[k]] /\ ask = [k \in Caches |-> ask[k]]
  /\ cache["detail"].link \in Volumes \cup {None}
  /\ ask["detail"].at = "back" => ask["detail"].data.link \in Volumes \cup {None}
  /\ \A r \in Runs : run[r].at = "queued" \/ Working(r) => run[r].volume \in Volumes

\* A book linked to the issue its number names in the series' volume: the next run skips it.
Kept(b) == meta[b].id # None /\ meta[b].id = <<series.link, Norm[meta[b].number]>>

\* What one run has done of its issues.
RunKeeps(g) ==
  /\ g.at \in {"link", "skim"} =>
       /\ g.written \subseteq Books
       /\ \A b \in Books : meta[b].id # None => b \in g.written /\ meta[b].number = g.listed[b]
  /\ g.at = "skim" \/ Looping(g) \/ g.at = "finish" => series.link = g.volume
  /\ Looping(g) =>
       /\ \A b \in Books : Kept(b) => b \in g.arcs \/ (g.at = "credits" /\ b = Next1(g))
       /\ g.applied \subseteq g.arcs
       /\ \A b \in Books \ g.left : HasIssue(g, b) => b \in g.arcs
       /\ g.at # "next" => HasIssue(g, Next1(g))
  /\ g.at = "finish" => \A b \in Books : HasIssue(g, b) => b \in arcs

\* Unless arcs may have been lost, runs take turns, and what the next one will skip is filed.
ArcsInv ==
  ~spoiled /\ series.there =>
    /\ \A r \in Runs : Working(r) => RunKeeps(run[r]) /\ \A q \in Runs : Working(q) => q = r
    /\ (\A r \in Runs : ~Looping(run[r])) => \A b \in Books : Kept(b) => b \in arcs
    /\ \A b \in Books : meta[b].id # None =>
         series.link # None /\ \E k \in DOMAIN Issues[series.link] : meta[b].id = <<series.link, k>>

\* Something is under way that may change the series and will have it fetched again.
Stirring ==
  \/ \E c \in Edits : call[c].by # "nobody"
  \/ \E r \in Runs : Working(r)
  \/ frames # <<>>

\* A call under way is known to the screen.
CallsInv ==
  /\ call = [c \in Edits |-> call[c]] /\ \A c \in Edits : "by" \in DOMAIN call[c]
  /\ \A c \in Edits : edit[c].at # "idle" => call[c].by # "nobody"

\* When nothing is, what is shown, or on its way, is what is stored.
ScreenInv ==
  /\ screen \in {"series", "home"} /\ frames \in Seq(Ended)
  /\ screen = "series" /\ ~unheard /\ ~Stirring =>
       /\ ask["detail"] = NoAsk /\ "detail" \notin failed => cache["detail"] = Detail
       /\ ask["detail"].at = "back" => ask["detail"].data = Detail

\* A field of the form that was not touched is as the form was opened with it.
Rows(list) == \A b \in Books : Fields \subseteq DOMAIN list[b]
FormInv ==
  /\ cache["files"] # Blank => Rows(cache["files"])
  /\ ask["files"].at = "back" => Rows(ask["files"].data)
  /\ dialog.kind = "resolve" => dialog = [kind |-> "resolve", values |-> dialog.values]
  /\ Editing =>
       /\ dialog = [kind |-> "files", book |-> dialog.book, base |-> dialog.base,
                    form |-> dialog.form, touched |-> dialog.touched]
       /\ Fields \subseteq DOMAIN dialog.form
       /\ \A f \in Fields \ dialog.touched : dialog.form[f] = dialog.base[f]

DeskInv == DeskShape /\ LinksInv /\ ArcsInv /\ CallsInv /\ ScreenInv /\ FormInv

-----------------------------------------------------------------------------
(* What a step does to the server.                                         *)
Asks(c) ==
  /\ \/ edit' = [edit EXCEPT ![c] = Idle]
     \/ \E b, p : edit' = [edit EXCEPT ![c] = [at |-> "get", book |-> b, patch |-> p]]
  /\ UNCHANGED <<meta, locks, series, arcs, run, started, spoiled>>
Queues(r, v) == Submit(r, v) /\ UNCHANGED <<meta, locks, series, arcs, edit, spoiled>>
Forgets(r) ==
  /\ run[r].at \in Ended /\ run' = [run EXCEPT ![r] = Idle]
  /\ UNCHANGED <<meta, locks, series, arcs, edit, started, spoiled>>
Deletes ==
  /\ series' = [series EXCEPT !.there = FALSE]
  /\ UNCHANGED <<meta, locks, arcs, run, edit, started, spoiled>>

LEMMA ServerSteps ==
  ASSUME LinksInv, [DeskNext]_seriesVars
  PROVE \/ \E c \in Edits : EditRuns(c) \/ Asks(c)
        \/ \E r \in Runs : RunRuns(r) \/ Forgets(r)
        \/ \E r \in Runs, v \in Volumes : Queues(r, v)
        \/ Deletes
        \/ UNCHANGED matchVars
<1> USE DEF matchVars
<1>1. CASE \E k \in Caches : Serve(k) \/ Arrive(k) \/ Refuse(k)
  BY <1>1 DEF Serve, Arrive, Refuse
<1>2. CASE Retry \/ OpenResolve \/ TypeNumber \/ OpenFiles \/ EditFile \/ Touch \/ CancelEdit
  BY <1>2 DEF Retry, OpenResolve, TypeNumber, OpenFiles, EditFile, Touch, CancelEdit
<1>3. CASE OpenDialog("match") \/ OpenDialog("rescan") \/ CloseDialog \/ ConfirmRescan \/ RescanAnswered \/ OnJob
  BY <1>3 DEF OpenDialog, CloseDialog, ConfirmRescan, RescanAnswered, OnJob
<1>4. CASE Apply \/ QuickResolve \/ ToggleIgnore \/ SaveEdit
  <2>1. \E c \in Edits : \E b, p, w : Send(c, b, p, w)
    BY <1>4 DEF Apply, QuickResolve, ToggleIgnore, SaveEdit
  <2> QED BY <2>1 DEF Send, Ask, Asks
<1>5. CASE \E c \in Edits : EditAnswered(c) \/ ApplyNext(c) \/ ApplyAnswered(c) \/ CallFails(c)
  BY <1>5 DEF EditAnswered, ApplyNext, ApplyAnswered, CallFails, Hangup, Ask, Asks
<1>6. CASE \E c \in Edits : EditMoves(c)
  BY <1>6 DEF EditMoves
<1>7. CASE UseCandidate
  BY <1>7 DEF UseCandidate, Queues
<1>8. CASE ContinueMatch
  BY <1>8 DEF ContinueMatch, Queues, LinksInv, canContinueMatch
<1>9. CASE RescanServed
  BY <1>9 DEF RescanServed, Deletes
<1>10. CASE \E r \in Runs : RunMoves(r) \/ RunForgotten(r)
  BY <1>10 DEF RunMoves, RunForgotten, Forgets
<1>11. CASE UNCHANGED seriesVars
  BY <1>11 DEF seriesVars
<1> QED BY <1>1, <1>2, <1>3, <1>4, <1>5, <1>6, <1>7, <1>8, <1>9, <1>10, <1>11 DEF DeskNext

\* What is written of a row.
LEMMA CorrectedIs ==
  ASSUME NEW old, IsMeta(old), NEW patch
  PROVE /\ IsMeta(Corrected(old, patch)) /\ Corrected(old, patch).id = old.id
        /\ "number" \notin DOMAIN patch => Corrected(old, patch).number = old.number
        /\ "number" \notin DOMAIN patch /\ "kind" \notin DOMAIN patch =>
             Corrected(old, patch).kind = old.kind
<1> DEFINE number == IF "number" \in DOMAIN patch THEN patch.number ELSE old.number
           kind == IF "kind" \in DOMAIN patch THEN patch.kind
                   ELSE IF "number" \in DOMAIN patch THEN Derived[number] ELSE old.kind
<1>1. Corrected(old, patch) = [old EXCEPT !.number = number, !.kind = kind]
  BY DEF Corrected
<1>2. "number" \notin DOMAIN patch => number = old.number
  OBVIOUS
<1>3. "number" \notin DOMAIN patch /\ "kind" \notin DOMAIN patch => kind = old.kind
  OBVIOUS
<1> HIDE DEF number, kind
<1>4. Corrected(old, patch) = MetaOf(number, kind, old.ignored, old.id)
  BY <1>1 DEF IsMeta, MetaOf
<1> QED BY <1>2, <1>3, <1>4 DEF IsMeta, MetaOf

LEMMA AppliedIs ==
  ASSUME NEW old, IsMeta(old), NEW locked, NEW number
  PROVE /\ IsMeta(Applied(old, locked, number))
        /\ "number" \in locked => Applied(old, locked, number).number = old.number
        /\ "kind" \in locked => Applied(old, locked, number).kind = old.kind
<1> DEFINE n == IF "number" \in locked THEN old.number ELSE number
           kind == IF "kind" \in locked THEN old.kind ELSE Derived[n]
<1>1. Applied(old, locked, number) = [old EXCEPT !.number = n, !.kind = kind]
  BY DEF Applied
<1>2. ("number" \in locked => n = old.number) /\ ("kind" \in locked => kind = old.kind)
  OBVIOUS
<1> HIDE DEF n, kind
<1>3. Applied(old, locked, number) = MetaOf(n, kind, old.ignored, old.id)
  BY <1>1 DEF IsMeta, MetaOf
<1> QED BY <1>2, <1>3 DEF IsMeta, MetaOf

LEMMA LinkedIs ==
  ASSUME NEW new, IsMeta(new), NEW d
  PROVE /\ [new EXCEPT !.id = d] = MetaOf(new.number, new.kind, new.ignored, d)
        /\ IsMeta([new EXCEPT !.id = d])
BY DEF IsMeta, MetaOf

LEMMA PutIs ==
  ASSUME DeskShape, NEW b, NEW new, b \in Books => IsMeta(new), Put(b, new)
  PROVE /\ meta' = [x \in Books |-> meta'[x]] /\ \A x \in Books : IsMeta(meta'[x])
        /\ \A x \in Books \ {b} : meta'[x] = meta[x]
        /\ b \in Books => /\ meta'[b].number = new.number /\ meta'[b].kind = new.kind
                         /\ meta'[b].id = new.id /\ meta'[b].ignored = meta[b].ignored
<1>0. CASE b \notin Books
  BY <1>0 DEF Put, DeskShape
<1>1. CASE b \in Books
  <2> USE <1>1
  <2> DEFINE kept == MetaOf(new.number, new.kind, meta[b].ignored, new.id)
  <2>1. [new EXCEPT !.ignored = meta[b].ignored] = kept
    BY DEF IsMeta, MetaOf
  <2>2. meta' = [meta EXCEPT ![b] = kept]
    BY <2>1 DEF Put
  <2>3. IsMeta(kept) /\ kept.number = new.number /\ kept.kind = new.kind /\ kept.id = new.id
        /\ kept.ignored = meta[b].ignored
    BY DEF IsMeta, MetaOf
  <2> HIDE DEF kept
  <2> QED BY <2>2, <2>3 DEF DeskShape
<1> QED BY <1>0, <1>1

LEMMA SkipIs ==
  ASSUME NEW g, RunShape(g), g.at = "next"
  PROVE [g EXCEPT !.left = @ \ {Next1(g)}] =
          Loop("next", g.volume, g.listed, g.applied, g.arcs, g.left \ {Next1(g)})
<1> DEFINE b == Next1(g)
<1>1. g = Loop("next", g.volume, g.listed, g.applied, g.arcs, g.left)
  BY DEF RunShape
<1> HIDE DEF b
<1>2. [g EXCEPT !.left = @ \ {b}] =
        Loop("next", g.volume, g.listed, g.applied, g.arcs, g.left \ {b})
  BY <1>1 DEF Loop
<1> QED BY <1>2 DEF b

\* One call, one run.
LEMMA OneEdit ==
  ASSUME DeskShape, NEW c \in Edits, NEW e, EditShape(e), edit' = [edit EXCEPT ![c] = e]
  PROVE edit' = [x \in Edits |-> edit'[x]] /\ \A x \in Edits : EditShape(edit'[x])
BY DEF DeskShape

LEMMA OneRun ==
  ASSUME DeskShape, NEW r \in Runs, NEW g, RunShape(g), run' = [run EXCEPT ![r] = g]
  PROVE run' = [x \in Runs |-> run'[x]] /\ \A x \in Runs : RunShape(run'[x])
BY DEF DeskShape

LEMMA EditsShape ==
  ASSUME DeskShape, NEW c \in Edits, EditRuns(c) PROVE DeskShape'
<1> DEFINE e == edit[c]
<1>1. CASE ReadBook(c)
  <2>1. e.at = "get" => EditShape([e EXCEPT !.at = "ignore"])
    BY DEF DeskShape, EditShape
  <2>2. EditShape([at |-> "locks", book |-> e.book, patch |-> e.patch, copy |-> meta[e.book]])
    BY DEF DeskShape, EditShape
  <2>3. CASE DOMAIN e.patch \cap Lockable = {}
    BY <1>1, <2>1, <2>3, OneEdit DEF ReadBook, EditStep, DeskShape
  <2>4. CASE DOMAIN e.patch \cap Lockable # {}
    <3>1. edit' = [edit EXCEPT ![c] = [at |-> "locks", book |-> e.book, patch |-> e.patch,
                                       copy |-> meta[e.book]]]
      BY <1>1, <2>4 DEF ReadBook, EditStep
    <3> QED BY <1>1, <2>2, <3>1, OneEdit DEF ReadBook, DeskShape
  <2> QED BY <2>3, <2>4
<1>2. CASE ReadLocks(c)
  <2> DEFINE copy == [e.copy EXCEPT !.id = meta[e.book].id]
             f == [at |-> "write", book |-> e.book, patch |-> e.patch,
                   copy |-> copy, locks |-> locks[e.book]]
  <2>1. e.book \in Books => IsMeta(copy)
    <3>1. e.book \in Books => IsMeta(e.copy)
      BY <1>2 DEF ReadLocks, EditStep, DeskShape, EditShape
    <3> QED BY <3>1, LinkedIs
  <2>2. edit' = [edit EXCEPT ![c] = f]
    BY <1>2 DEF ReadLocks, EditStep
  <2> HIDE DEF copy
  <2>3. EditShape(f)
    BY <2>1 DEF EditShape
  <2> QED BY <1>2, <2>2, <2>3, OneEdit DEF ReadLocks, DeskShape
<1>3. CASE WriteEdit(c)
  <2> DEFINE f == [at |-> IF "ignored" \in DOMAIN e.patch THEN "ignore" ELSE "ok",
                   book |-> e.book, patch |-> e.patch]
  <2>1. edit' = [edit EXCEPT ![c] = f] /\ EditShape(f)
    BY <1>3 DEF WriteEdit, EditStep, EditShape
  <2>2. e.book \in Books => IsMeta(Corrected(e.copy, e.patch))
    BY <1>3, CorrectedIs DEF WriteEdit, EditStep, DeskShape, EditShape
  <2>3. meta' = [x \in Books |-> meta'[x]] /\ \A x \in Books : IsMeta(meta'[x])
    BY <1>3, <2>2, PutIs DEF WriteEdit
  <2> HIDE DEF f
  <2> QED BY <1>3, <2>1, <2>3, OneEdit DEF WriteEdit, DeskShape
<1>4. CASE SetIgnored(c)
  <2> DEFINE f == [at |-> "ok", book |-> e.book, patch |-> e.patch]
  <2>1. edit' = [edit EXCEPT ![c] = f] /\ EditShape(f)
    BY <1>4 DEF SetIgnored, EditStep, EditShape
  <2>2. meta' = [x \in Books |-> meta'[x]] /\ \A x \in Books : IsMeta(meta'[x])
    BY <1>4 DEF SetIgnored, DeskShape, IsMeta, MetaOf
  <2> HIDE DEF f
  <2> QED BY <1>4, <2>1, <2>2, OneEdit DEF SetIgnored, DeskShape
<1>5. CASE FailEdit(c)
  <2>1. EditShape([at |-> "error"])
    BY DEF EditShape
  <2> QED BY <1>5, <2>1, OneEdit DEF FailEdit, DeskShape
<1> QED BY <1>1, <1>2, <1>3, <1>4, <1>5 DEF EditRuns

\* What each query of a run leaves it with.
LEMMA RunsShape ==
  ASSUME DeskShape, NEW r \in Runs, RunRuns(r) PROVE DeskShape'
<1> DEFINE g == run[r]
           Loops(state, left, added) == Loop(state, g.volume, g.listed, g.applied, added, left)
<1>0. \A state \in {"next", "credits"} : \A left, added : RunShape(Loops(state, left, added))
  BY DEF RunShape, Loop
<1>e. \A state \in Ended : RunShape([at |-> state])
  BY DEF RunShape, Ended
<1>1. CASE List(r)
  <2>1. RunShape([at |-> "link", volume |-> g.volume,
                  listed |-> [b \in Books |-> meta[b].number],
                  written |-> {b \in Books : meta[b].id # None \/ locks[b] # {}}])
    BY DEF RunShape
  <2> QED BY <1>1, <2>1, OneRun DEF List, RunStep, DeskShape
<1>2. CASE Link(r)
  <2>1. RunShape([g EXCEPT !.at = "skim"])
    BY <1>2 DEF Link, RunStep, DeskShape, RunShape
  <2>2. series' = [state |-> "incomplete", link |-> g.volume, there |-> series.there]
    BY <1>2 DEF Link, DeskShape
  <2> QED BY <1>2, <2>1, <2>2, OneRun DEF Link, RunStep, DeskShape
<1>3. CASE Skim(r)
  <2> DEFINE applied == {b \in g.written : HasIssue(g, b) /\ meta[b].id = IssueId(g, b)}
             f == [at |-> "next", volume |-> g.volume, listed |-> g.listed,
                   applied |-> applied, arcs |-> arcs \cap applied, left |-> Books]
  <2>1. run' = [run EXCEPT ![r] = f]
    BY <1>3 DEF Skim, RunStep
  <2> HIDE DEF applied
  <2>2. RunShape(f)
    BY DEF RunShape, Loop
  <2> QED BY <1>3, <2>1, <2>2, OneRun DEF Skim, DeskShape
<1>4. CASE Skip(r)
  <2>1. run' = [run EXCEPT ![r] = Loops("next", g.left \ {Next1(g)}, g.arcs)]
    BY <1>4, SkipIs DEF Skip, RunStep, DeskShape
  <2> QED BY <1>0, <1>4, <2>1, OneRun DEF Skip, DeskShape
<1>5. CASE Fetch(r)
  <2> DEFINE f == [at |-> "locks", volume |-> g.volume, listed |-> g.listed,
                   applied |-> g.applied, arcs |-> g.arcs, left |-> g.left,
                   copy |-> meta[Next1(g)]]
  <2>1. run' = [run EXCEPT ![r] = f]
    BY <1>5 DEF Fetch, RunStep
  <2>2. Next1(f) = Next1(g)
    BY DEF Next1
  <2>3. RunShape(f)
    BY <2>2 DEF RunShape, DeskShape
  <2> QED BY <1>5, <2>1, <2>3, OneRun DEF Fetch, DeskShape
<1>6. CASE ReadRunLocks(r)
  <2> DEFINE f == [at |-> "write", volume |-> g.volume, listed |-> g.listed,
                   applied |-> g.applied, arcs |-> g.arcs, left |-> g.left,
                   copy |-> g.copy, locks |-> locks[Next1(g)]]
  <2>1. run' = [run EXCEPT ![r] = f] /\ g.at = "locks"
    BY <1>6 DEF ReadRunLocks, RunStep
  <2>2. Next1(f) = Next1(g)
    BY DEF Next1
  <2>3. RunShape(f)
    BY <2>1, <2>2 DEF RunShape, DeskShape
  <2> QED BY <1>6, <2>1, <2>3, OneRun DEF ReadRunLocks, DeskShape
<1>7. CASE WriteIssue(r)
  <2> DEFINE b == Next1(g)
             new == Applied(g.copy, g.locks, Issues[g.volume][Norm[g.listed[b]]])
  <2>1. run' = [run EXCEPT ![r] = Loops("credits", g.left, g.arcs)] /\ g.at = "write"
        /\ Put(b, [new EXCEPT !.id = IssueId(g, b)])
    BY <1>7 DEF WriteIssue, RunStep, Loop
  <2>2. b \in Books => IsMeta(new)
    BY <2>1, AppliedIs DEF DeskShape, RunShape
  <2> HIDE DEF b, new
  <2>3. b \in Books => IsMeta([new EXCEPT !.id = IssueId(g, b)])
    BY <2>2, LinkedIs
  <2>4. meta' = [x \in Books |-> meta'[x]] /\ \A x \in Books : IsMeta(meta'[x])
    BY <2>1, <2>3, PutIs
  <2> QED BY <1>0, <1>7, <2>1, <2>4, OneRun DEF WriteIssue, DeskShape
<1>8. CASE WriteCredits(r)
  <2>1. run' = [run EXCEPT ![r] = Loops("next", g.left \ {Next1(g)}, g.arcs \cup {Next1(g)})]
    BY <1>8 DEF WriteCredits, RunStep, Loop
  <2> QED BY <1>0, <1>8, <2>1, OneRun DEF WriteCredits, DeskShape
<1>9. CASE StopAtIssue(r) \/ FailRun(r) \/ CancelRun(r)
  <2>1. \E state \in Ended : run' = [run EXCEPT ![r] = [at |-> state]]
    BY <1>9 DEF StopAtIssue, FailRun, CancelRun, End, Ended
  <2> QED BY <1>e, <1>9, <2>1, OneRun DEF StopAtIssue, FailRun, CancelRun, DeskShape
<1>10. CASE WriteArcs(r)
  <2>1. RunShape([at |-> "finish", volume |-> g.volume, listed |-> g.listed])
    BY DEF RunShape
  <2> QED BY <1>10, <2>1, OneRun DEF WriteArcs, RunStep, DeskShape
<1>11. CASE SetMatched(r)
  <2>1. series' = [state |-> "matched", link |-> series.link, there |-> series.there]
    BY <1>11 DEF SetMatched, DeskShape
  <2>2. run' = [run EXCEPT ![r] = [at |-> "done"]] /\ RunShape([at |-> "done"])
    BY <1>11, <1>e DEF SetMatched, End, Ended
  <2> QED BY <1>11, <2>1, <2>2, OneRun DEF SetMatched, DeskShape
<1> QED BY <1>1, <1>2, <1>3, <1>4, <1>5, <1>6, <1>7, <1>8, <1>9, <1>10, <1>11 DEF RunRuns

LEMMA ShapeStep ==
  ASSUME DeskShape, LinksInv, [DeskNext]_seriesVars PROVE DeskShape'
<1>1. CASE \E c \in Edits : Asks(c)
  <2>1. EditShape(Idle) /\ \A b, p : EditShape([at |-> "get", book |-> b, patch |-> p])
    BY DEF EditShape, Idle
  <2> QED BY <1>1, <2>1, OneEdit DEF Asks, DeskShape
<1>2. CASE \E r \in Runs : Forgets(r)
  <2>1. RunShape(Idle)
    BY DEF RunShape, Idle
  <2> QED BY <1>2, <2>1, OneRun DEF Forgets, DeskShape
<1>3. CASE \E r \in Runs, v \in Volumes : Queues(r, v)
  <2>1. \A v : RunShape([at |-> "queued", volume |-> v])
    BY DEF RunShape
  <2> QED BY <1>3, <2>1, OneRun DEF Queues, Submit, DeskShape
<1>4. CASE Deletes
  <2> DEFINE no == FALSE
  <2>1. series' = [series EXCEPT !.there = no]
    BY <1>4 DEF Deletes
  <2> HIDE DEF no
  <2> QED BY <1>4, <2>1 DEF Deletes, DeskShape
<1>5. CASE UNCHANGED matchVars
  BY <1>5 DEF matchVars, DeskShape
<1> QED BY <1>1, <1>2, <1>3, <1>4, <1>5, ServerSteps, EditsShape, RunsShape

-----------------------------------------------------------------------------
(* Links and volumes.                                                      *)

\* A query of a run changes it alone, and keeps its volume until it ends.
LEMMA RunsStay ==
  ASSUME DeskShape, NEW r \in Runs, RunRuns(r)
  PROVE /\ \A q \in Runs \ {r} : run'[q] = run[q]
        /\ run[r].at = "queued" \/ Working(r)
        /\ run'[r].at \in Ended \/ (Working(r)' /\ run'[r].volume = run[r].volume)
<1> DEFINE g == run[r]
           Ahead(f) == f.at \notin Ended \cup {"idle", "queued"} /\ f.volume = g.volume
           Goes(f) == run' = [run EXCEPT ![r] = f] /\ (f.at \in Ended \/ Ahead(f))
<1>0. \A state \in {"next", "credits"} : \A applied, files, left :
        Ahead(Loop(state, g.volume, g.listed, applied, files, left))
  BY DEF Loop, Ended
<1>w. \A f : Goes(f) /\ (g.at = "queued" \/ Working(r)) =>
        /\ \A q \in Runs \ {r} : run'[q] = run[q]
        /\ g.at = "queued" \/ Working(r)
        /\ run'[r].at \in Ended \/ (Working(r)' /\ run'[r].volume = run[r].volume)
  BY DEF DeskShape, Working
<1>1. CASE List(r)
  <2>1. \A n, w : Ahead([at |-> "link", volume |-> g.volume, listed |-> n, written |-> w])
    BY DEF Ended
  <2> QED BY <1>w, <1>1, <2>1 DEF List, RunStep, Working, Ended
<1>2. CASE Link(r)
  <2>1. Ahead([g EXCEPT !.at = "skim"]) /\ Working(r)
    BY <1>2 DEF Link, RunStep, DeskShape, RunShape, Ended, Working
  <2> QED BY <1>w, <1>2, <2>1 DEF Link, RunStep, Working, Ended
<1>3. CASE Skim(r)
  <2>1. \E applied, files : Goes(Loop("next", g.volume, g.listed, applied, files, Books))
    BY <1>0, <1>3 DEF Skim, RunStep, Loop
  <2>2. Working(r)
    BY <1>3 DEF Skim, RunStep, Working, Ended
  <2> PICK applied, files : Goes(Loop("next", g.volume, g.listed, applied, files, Books))
    BY <2>1
  <2> DEFINE f == Loop("next", g.volume, g.listed, applied, files, Books)
  <2>3. Goes(f)
    OBVIOUS
  <2> HIDE DEF f
  <2> QED BY <1>w, <2>2, <2>3
<1>4. CASE Skip(r)
  <2>1. Goes(Loop("next", g.volume, g.listed, g.applied, g.arcs, g.left \ {Next1(g)}))
    <3>1. RunShape(g) /\ g.at = "next"
      BY <1>4 DEF Skip, DeskShape
    <3>2. run' = [run EXCEPT ![r] = [g EXCEPT !.left = @ \ {Next1(g)}]]
      BY <1>4 DEF Skip, RunStep
    <3>3. run' = [run EXCEPT ![r] = Loop("next", g.volume, g.listed, g.applied, g.arcs,
                                         g.left \ {Next1(g)})]
      BY <3>1, <3>2, SkipIs
    <3> QED BY <1>0, <3>3
  <2> QED BY <1>w, <1>4, <2>1 DEF Skip, RunStep, Working, Ended
<1>5. CASE Fetch(r)
  <2>1. \A copy : Ahead([at |-> "locks", volume |-> g.volume, listed |-> g.listed,
                         applied |-> g.applied, arcs |-> g.arcs, left |-> g.left, copy |-> copy])
    BY DEF Ended
  <2> QED BY <1>w, <1>5, <2>1 DEF Fetch, RunStep, Working, Ended
<1>6. CASE ReadRunLocks(r)
  <2>1. \A l : Ahead([at |-> "write", volume |-> g.volume, listed |-> g.listed,
                      applied |-> g.applied, arcs |-> g.arcs, left |-> g.left,
                      copy |-> g.copy, locks |-> l])
    BY DEF Ended
  <2> QED BY <1>w, <1>6, <2>1 DEF ReadRunLocks, RunStep, Working, Ended
<1>7. CASE WriteIssue(r)
  <2>1. Goes(Loop("credits", g.volume, g.listed, g.applied, g.arcs, g.left))
    BY <1>0, <1>7 DEF WriteIssue, RunStep, Loop
  <2> QED BY <1>w, <1>7, <2>1 DEF WriteIssue, RunStep, Working, Ended
<1>8. CASE WriteCredits(r)
  <2>1. Goes(Loop("next", g.volume, g.listed, g.applied, g.arcs \cup {Next1(g)}, g.left \ {Next1(g)}))
    BY <1>0, <1>8 DEF WriteCredits, RunStep, Loop
  <2> QED BY <1>w, <1>8, <2>1 DEF WriteCredits, RunStep, Working, Ended
<1>9. CASE StopAtIssue(r) \/ FailRun(r) \/ CancelRun(r)
  <2>1. \E state \in Ended : Goes([at |-> state])
    BY <1>9 DEF StopAtIssue, FailRun, CancelRun, End, Ended
  <2>2. g.at = "queued" \/ Working(r)
    BY <1>9 DEF StopAtIssue, FailRun, CancelRun, Working, Ended
  <2> QED BY <1>w, <2>1, <2>2
<1>10. CASE WriteArcs(r)
  <2>1. Ahead([at |-> "finish", volume |-> g.volume, listed |-> g.listed])
    BY DEF Ended
  <2> QED BY <1>w, <1>10, <2>1 DEF WriteArcs, RunStep, Working, Ended
<1>11. CASE SetMatched(r)
  <2>1. Goes([at |-> "done"])
    BY <1>11 DEF SetMatched, End, Ended
  <2> QED BY <1>w, <1>11, <2>1 DEF SetMatched, RunStep, Working, Ended
<1> QED BY <1>1, <1>2, <1>3, <1>4, <1>5, <1>6, <1>7, <1>8, <1>9, <1>10, <1>11 DEF RunRuns

\* The series' link is left alone, or the volume of a run.
LEMMA LinkStays ==
  ASSUME DeskShape, LinksInv, [DeskNext]_seriesVars
  PROVE /\ series'.link = series.link \/ \E r \in Runs : Link(r)
        /\ series'.there => series.there
<1>1. CASE \E c \in Edits : EditRuns(c) \/ Asks(c)
  BY <1>1 DEF EditRuns, Asks, ReadBook, ReadLocks, WriteEdit, SetIgnored, FailEdit
<1>2. CASE \E r \in Runs : Forgets(r) \/ \E v \in Volumes : Queues(r, v)
  BY <1>2 DEF Forgets, Queues
<1>3. CASE Deletes
  BY <1>3 DEF Deletes, DeskShape
<1>4. CASE UNCHANGED matchVars
  BY <1>4 DEF matchVars
<1>5. CASE \E r \in Runs : RunRuns(r)
  <2> PICK r \in Runs : RunRuns(r)
    BY <1>5
  <2>1. CASE List(r) \/ Skim(r) \/ Skip(r) \/ Fetch(r) \/ ReadRunLocks(r) \/ WriteIssue(r)
    BY <2>1 DEF List, Skim, Skip, Fetch, ReadRunLocks, WriteIssue
  <2>2. CASE WriteCredits(r) \/ StopAtIssue(r) \/ FailRun(r) \/ CancelRun(r) \/ WriteArcs(r)
    BY <2>2 DEF WriteCredits, StopAtIssue, FailRun, CancelRun, WriteArcs
  <2>3. CASE SetMatched(r)
    BY <2>3 DEF SetMatched, DeskShape
  <2>4. CASE Link(r)
    BY <2>4 DEF Link, DeskShape
  <2> QED BY <2>1, <2>2, <2>3, <2>4 DEF RunRuns
<1> QED BY <1>1, <1>2, <1>3, <1>4, <1>5, ServerSteps

\* The detail that is held, or on its way, is what was stored or what was there.
LEMMA AnswersStep ==
  ASSUME LinksInv, [DeskNext]_seriesVars
  PROVE /\ cache' = [k \in Caches |-> cache'[k]] /\ ask' = [k \in Caches |-> ask'[k]]
        /\ \A k \in Caches :
             /\ cache'[k] = cache[k] \/ (ask[k].at = "back" /\ cache'[k] = ask[k].data)
             /\ ask'[k].at = "back" => ask'[k] = ask[k] \/ ask'[k].data = Answer(k)
<1> USE DEF LinksInv
<1>1. CASE \E k \in Caches : Serve(k)
  <2> PICK k \in Caches : Serve(k)
    BY <1>1
  <2>1. ask' = [ask EXCEPT ![k] = [at |-> "back", data |-> Answer(k)]] /\ cache' = cache
    BY DEF Serve
  <2> QED BY <2>1
<1>2. CASE \E k \in Caches : Arrive(k)
  <2> PICK k \in Caches : Arrive(k)
    BY <1>2
  <2>1. ask[k].at = "back" /\ cache' = [cache EXCEPT ![k] = ask[k].data] /\ ask' = [ask EXCEPT ![k] = NoAsk]
    BY DEF Arrive
  <2> QED BY <2>1 DEF Caches, NoAsk
<1>3. CASE \E k \in Caches : Refuse(k)
  <2> PICK k \in Caches : Refuse(k)
    BY <1>3
  <2>1. ask' = [ask EXCEPT ![k] = NoAsk] /\ cache' = cache
    BY DEF Refuse
  <2> QED BY <2>1 DEF Caches, NoAsk
<1>4. CASE Retry \/ OpenFiles
  BY <1>4 DEF Retry, OpenFiles, Sent, Caches
<1>5. \A K : Invalidate(K) => /\ ask' = [k \in Caches |-> ask'[k]]
                              /\ \A k \in Caches : ask'[k].at = "back" => ask'[k] = ask[k]
  BY DEF Invalidate, Sent, Caches
<1>6. CASE \E c \in Edits : EditAnswered(c) \/ ApplyAnswered(c)
  BY <1>5, <1>6 DEF EditAnswered, ApplyAnswered
<1>7. CASE RescanAnswered \/ OnJob
  BY <1>5, <1>7 DEF RescanAnswered, OnJob
<1>8. CASE UNCHANGED <<cache, ask>>
  BY <1>8
<1>9. CASE \E c \in Edits : ApplyNext(c) \/ CallFails(c) \/ EditMoves(c)
  BY <1>8, <1>9 DEF ApplyNext, CallFails, EditMoves, deskVars
<1>10. CASE \E r \in Runs : RunMoves(r) \/ RunForgotten(r)
  BY <1>8, <1>10 DEF RunMoves, RunForgotten, deskVars
<1>11. CASE OpenResolve \/ TypeNumber \/ Apply \/ QuickResolve \/ ToggleIgnore \/ EditFile \/ Touch
            \/ SaveEdit \/ CancelEdit
  BY <1>8, <1>11 DEF OpenResolve, TypeNumber, Apply, QuickResolve, ToggleIgnore, EditFile, Touch,
                     SaveEdit, CancelEdit, Quiet
<1>12. CASE OpenDialog("match") \/ OpenDialog("rescan") \/ CloseDialog \/ UseCandidate \/ ContinueMatch
            \/ ConfirmRescan \/ RescanServed
  BY <1>8, <1>12 DEF OpenDialog, CloseDialog, UseCandidate, ContinueMatch, ConfirmRescan,
                     RescanServed, Quiet
<1>13. CASE UNCHANGED seriesVars
  BY <1>8, <1>13 DEF seriesVars, deskVars
<1> QED BY <1>1, <1>2, <1>3, <1>4, <1>6, <1>7, <1>9, <1>10, <1>11, <1>12, <1>13 DEF DeskNext

LEMMA LinksStep ==
  ASSUME DeskShape, LinksInv, [DeskNext]_seriesVars PROVE LinksInv'
<1>1. \A r \in Runs : run'[r].at = "queued" \/ Working(r)' => run'[r].volume \in Volumes
  <2>1. CASE \E c \in Edits : EditRuns(c) \/ Asks(c)
    BY <2>1 DEF LinksInv, Working, EditRuns, Asks, ReadBook, ReadLocks, WriteEdit, SetIgnored, FailEdit
  <2>2. CASE \E r \in Runs : RunRuns(r)
    BY <2>2, RunsStay DEF LinksInv, Working, Ended
  <2>3. CASE \E r \in Runs : Forgets(r) \/ \E v \in Volumes : Queues(r, v)
    BY <2>3 DEF DeskShape, LinksInv, Forgets, Queues, Submit, Idle, Working
  <2>4. CASE Deletes \/ UNCHANGED matchVars
    BY <2>4 DEF Deletes, matchVars, LinksInv, Working
  <2> QED BY <2>1, <2>2, <2>3, <2>4, ServerSteps
<1>2. series'.link \in Volumes \cup {None}
  BY LinkStays DEF LinksInv, Link, RunStep, Working, Ended, DeskShape
<1>3. "detail" \in Caches /\ Answer("detail").link = series.link
  BY DEF Answer, Detail, Caches
<1> QED BY <1>1, <1>2, <1>3, AnswersStep DEF LinksInv

-----------------------------------------------------------------------------
(* Arcs.                                                                   *)
Rested == \A b \in Books : Kept(b) => b \in arcs
IdsOfVolume ==
  \A b \in Books : meta[b].id # None =>
    series.link # None /\ \E k \in DOMAIN Issues[series.link] : meta[b].id = <<series.link, k>>

\* Rows may lose their links, and runs that do nothing come and go.
LEMMA RowsKeepArcs ==
  ASSUME ArcsInv, ~spoiled, series.there, series' = series, arcs' = arcs,
         \A b \in Books : \/ meta'[b].id = None
                          \/ meta'[b].id = meta[b].id /\ meta'[b].number = meta[b].number,
         \A r \in Runs : run'[r] = run[r] \/ (~Working(r) /\ ~Working(r)')
  PROVE ArcsInv'
<1>1. \A b \in Books : Kept(b)' => Kept(b)
  BY DEF Kept
<1>2. \A r \in Runs : Looping(run[r]) => Working(r)
  BY DEF Looping, Working, Ended
<1>3. \A r \in Runs : Looping(run'[r]) => run'[r] = run[r]
  BY DEF Looping, Working, Ended
<1>4. \A r \in Runs : Working(r)' => run'[r] = run[r] /\ Working(r)
  BY DEF Working
<1>5. \A r \in Runs : Working(r)' => RunKeeps(run[r])'
  <2> SUFFICES ASSUME NEW r \in Runs, Working(r)' PROVE RunKeeps(run[r])'
    OBVIOUS
  <2>1. run'[r] = run[r] /\ RunKeeps(run[r])
    BY <1>4 DEF ArcsInv
  <2> DEFINE g == run[r]
  <2>2. RunKeeps(g)'
    <3>1. \A b \in Books : meta'[b].id # None => meta[b].id # None /\ meta'[b].number = meta[b].number
      OBVIOUS
    <3>2. g' = g
      BY <2>1
    <3> HIDE DEF g
    <3>3. RunKeeps(g)
      BY <2>1 DEF g
    <3> QED BY <1>1, <3>1, <3>2, <3>3 DEF RunKeeps, Looping, Next1, HasIssue
  <2> QED BY <2>2
<1>6. (\A r \in Runs : ~Looping(run'[r])) => Rested'
  <2> SUFFICES ASSUME \A r \in Runs : ~Looping(run'[r]) PROVE Rested'
    OBVIOUS
  <2>1. \A r \in Runs : ~Looping(run[r])
    BY <1>2, <1>4 DEF Looping, Working, Ended
  <2> QED BY <1>1, <2>1 DEF ArcsInv, Rested
<1>7. IdsOfVolume'
  BY DEF ArcsInv, IdsOfVolume
<1> QED BY <1>4, <1>5, <1>6, <1>7 DEF ArcsInv, Rested, IdsOfVolume

\* A run at work is alone.
LEMMA TurnKeepsArcs ==
  ASSUME DeskShape, NEW r \in Runs, RunRuns(r), \A q \in Runs \ {r} : ~Working(q),
         Working(r)' => RunKeeps(run[r])',
         ~Looping(run'[r]) => Rested',
         IdsOfVolume'
  PROVE ArcsInv'
<1>1. \A q \in Runs : Working(q)' => q = r
  BY RunsStay DEF Working
<1> QED BY <1>1 DEF ArcsInv, Rested, IdsOfVolume

LEMMA EditsKeepArcs ==
  ASSUME DeskShape, ArcsInv, NEW c \in Edits, EditRuns(c) PROVE ArcsInv'
<1> SUFFICES ASSUME ~spoiled', series'.there PROVE ArcsInv'
  BY DEF ArcsInv
<1>1. run' = run /\ series' = series /\ arcs' = arcs /\ ~spoiled
  <2>1. CASE ReadBook(c) \/ ReadLocks(c) \/ SetIgnored(c) \/ FailEdit(c)
    BY <2>1 DEF ReadBook, ReadLocks, SetIgnored, FailEdit
  <2>2. CASE WriteEdit(c)
    <3>1. run' = run /\ series' = series /\ arcs' = arcs
      BY <2>2 DEF WriteEdit
    <3>2. ~spoiled
      BY <2>2, Zenon DEF WriteEdit
    <3> QED BY <3>1, <3>2
  <2> QED BY <2>1, <2>2 DEF EditRuns
<1>2. \A b \in Books : \/ meta'[b].id = None
                       \/ meta'[b].id = meta[b].id /\ meta'[b].number = meta[b].number
  <2>1. CASE ReadBook(c) \/ ReadLocks(c) \/ FailEdit(c)
    BY <2>1 DEF ReadBook, ReadLocks, FailEdit
  <2>2. CASE WriteEdit(c)
    <3> DEFINE e == edit[c]
    <3>1. e.book \in Books => IsMeta(Corrected(e.copy, e.patch))
      BY <2>2, CorrectedIs DEF WriteEdit, EditStep, DeskShape, EditShape
    <3>2. \A x \in Books \ {e.book} : meta'[x] = meta[x]
      BY <2>2, <3>1, PutIs DEF WriteEdit
    <3>3. meta'[e.book].number = meta[e.book].number \/ meta[e.book].id = None
      BY <2>2 DEF WriteEdit
    <3>4. meta'[e.book].id \in {None, meta[e.book].id}
      BY <2>2 DEF WriteEdit
    <3> QED BY <3>2, <3>3, <3>4
  <2>3. CASE SetIgnored(c)
    BY <2>3 DEF SetIgnored, DeskShape, IsMeta, MetaOf
  <2> QED BY <2>1, <2>2, <2>3 DEF EditRuns
<1> QED BY <1>1, <1>2, RowsKeepArcs

\* What the volume has an issue for, linked to it, is linked.
LEMMA LinkIsNoNone ==
  ASSUME NEW v \in Volumes, NEW k \in DOMAIN Issues[v] PROVE <<v, k>> # None /\ v # None
<1>1. k \in Numbers
  BY MatchAssumption DEF Classes
<1> QED BY <1>1, MatchAssumption

\* The same row and the same arcs, at another query of the loop.
LEMMA LoopGoesOn ==
  ASSUME NEW r \in Runs, ArcsInv, ~spoiled, series.there, Looping(run[r]),
         UNCHANGED <<meta, series, arcs>>, Looping(run'[r]),
         run[r].at # "credits",
         run'[r].volume = run[r].volume, run'[r].listed = run[r].listed,
         run'[r].applied = run[r].applied, run'[r].arcs = run[r].arcs,
         run'[r].left = run[r].left,
         run'[r].at # "next" => HasIssue(run[r], Next1(run[r]))
  PROVE RunKeeps(run[r])' /\ IdsOfVolume'
<1> DEFINE g == run[r]
           h == run'[r]
<1>1. RunKeeps(g)
  BY DEF ArcsInv, Looping, Working, Ended
<1>2. Next1(h) = Next1(g) /\ \A b : HasIssue(h, b) <=> HasIssue(g, b)
  BY DEF Next1, HasIssue
<1>3. IdsOfVolume'
  BY DEF ArcsInv, IdsOfVolume
<1>4. \A b \in Books : Kept(b)' <=> Kept(b)
  BY DEF Kept
<1>5. (Next1(run[r]))' = Next1(h)
  BY DEF Next1
<1> QED BY <1>1, <1>2, <1>3, <1>4, <1>5 DEF RunKeeps, Looping, HasIssue

LEMMA RunsKeepArcs ==
  ASSUME DeskShape, LinksInv, ArcsInv, NEW r \in Runs, RunRuns(r) PROVE ArcsInv'
<1> SUFFICES ASSUME ~spoiled', series'.there PROVE ArcsInv'
  BY DEF ArcsInv
<1> DEFINE g == run[r]
           h == run'[r]
<1>1. series.there
  <2>1. CASE Link(r) \/ SetMatched(r)
    BY <2>1 DEF Link, SetMatched
  <2>2. series'.there = series.there \/ Link(r) \/ SetMatched(r)
    BY DEF RunRuns, List, Skim, Skip, Fetch, ReadRunLocks, WriteIssue, WriteCredits, StopAtIssue,
           FailRun, CancelRun, WriteArcs
  <2> QED BY <2>1, <2>2
<1>2. ~spoiled
  <2>1. CASE Skim(r) \/ Skip(r) \/ Fetch(r) \/ ReadRunLocks(r) \/ WriteIssue(r) \/ WriteCredits(r)
             \/ CancelRun(r) \/ WriteArcs(r) \/ SetMatched(r)
    BY <2>1 DEF Skim, Skip, Fetch, ReadRunLocks, WriteIssue, WriteCredits, CancelRun, WriteArcs, SetMatched
  <2>2. CASE List(r) \/ Link(r) \/ StopAtIssue(r) \/ FailRun(r)
    BY <2>2, Zenon DEF List, Link, StopAtIssue, FailRun
  <2> QED BY <2>1, <2>2 DEF RunRuns
<1>3. CASE g.at = "queued" /\ FailRun(r)
  <2>1. \A q \in Runs : run'[q] = run[q] \/ (~Working(q) /\ ~Working(q)')
    BY <1>3, RunsStay DEF FailRun, End, Working, Ended, DeskShape
  <2> QED BY <1>1, <1>2, <1>3, <2>1, RowsKeepArcs DEF FailRun
<1>4. \A q \in Runs \ {r} : ~Working(q) \/ (FailRun(r) /\ g.at = "queued")
  <2>1. CASE Working(r)
    BY <1>1, <1>2, <2>1, Zenon DEF ArcsInv
  <2>2. CASE List(r)
    <3> DEFINE busy == \E q \in Runs : Working(q)
    <3>1. spoiled' = (spoiled \/ busy)
      BY <2>2 DEF List
    <3> HIDE DEF busy
    <3>2. ~busy
      BY <3>1, Zenon
    <3> QED BY <3>2 DEF busy
  <2>3. g.at = "queued" => List(r) \/ FailRun(r)
    BY DEF RunRuns, Link, Skim, Skip, Fetch, ReadRunLocks, WriteIssue, WriteCredits, StopAtIssue,
           CancelRun, WriteArcs, SetMatched, RunStep
  <2> QED BY <2>1, <2>2, <2>3, RunsStay
<1> SUFFICES ASSUME ~(g.at = "queued" /\ FailRun(r))
             PROVE /\ Working(r)' => RunKeeps(run[r])'
                   /\ ~Looping(run'[r]) => Rested'
                   /\ IdsOfVolume'
  BY <1>3, <1>4, TurnKeepsArcs
<1>5. Working(r) => RunKeeps(g)
  BY <1>1, <1>2 DEF ArcsInv
<1>6. ~Looping(g) => Rested
  <2>1. \A q \in Runs : Looping(run[q]) => Working(q)
    BY DEF Looping, Working, Ended
  <2> QED BY <1>1, <1>2, <1>4, <2>1 DEF ArcsInv, Rested
<1>7. IdsOfVolume
  BY <1>1, <1>2 DEF ArcsInv, IdsOfVolume
<1>8. UNCHANGED <<meta, series>> => IdsOfVolume'
  BY <1>7 DEF IdsOfVolume
<1>9. UNCHANGED <<meta, series, arcs>> /\ ~Looping(g) => Rested'
  BY <1>6 DEF Rested, Kept
<1>10. CASE List(r)
  <2> DEFINE f == [at |-> "link", volume |-> g.volume, listed |-> [b \in Books |-> meta[b].number],
                   written |-> {b \in Books : meta[b].id # None \/ locks[b] # {}}]
  <2>1. h = f /\ g.at = "queued" /\ UNCHANGED <<meta, series, arcs>>
    BY <1>10 DEF List, RunStep, DeskShape
  <2>2. h.at = "link" /\ h.written \subseteq Books
        /\ \A b \in Books : meta'[b].id # None => b \in h.written /\ meta'[b].number = h.listed[b]
    BY <2>1
  <2>3. RunKeeps(run[r])'
    BY <2>2 DEF RunKeeps, Looping
  <2> QED BY <1>8, <1>9, <2>1, <2>3 DEF Looping
<1>11. CASE Link(r)
  <2>1. g.at = "link" /\ Working(r) /\ UNCHANGED <<meta, arcs>> /\ series'.link = g.volume
        /\ h.at = "skim" /\ h.volume = g.volume /\ h.listed = g.listed /\ h.written = g.written
    BY <1>11 DEF Link, RunStep, DeskShape, RunShape, Working, Ended
  <2>2. series.link \in {None, g.volume}
    BY <1>11, Zenon DEF Link
  <2>3. \A b \in Books : meta[b].id # None => series'.link = series.link
    BY <1>7, <2>1, <2>2 DEF IdsOfVolume
  <2>4. IdsOfVolume'
    BY <1>7, <2>1, <2>3 DEF IdsOfVolume
  <2>5. Rested'
    BY <1>6, <2>1, <2>3 DEF Rested, Kept, Looping
  <2>6. RunKeeps(run[r])'
    BY <1>5, <2>1 DEF RunKeeps, Looping
  <2> QED BY <2>4, <2>5, <2>6
<1>12. CASE Skim(r)
  <2> DEFINE applied == {b \in g.written : HasIssue(g, b) /\ meta[b].id = IssueId(g, b)}
  <2>1. g.at = "skim" /\ Working(r) /\ UNCHANGED <<meta, series, arcs>>
        /\ h = Loop("next", g.volume, g.listed, applied, arcs \cap applied, Books)
    BY <1>12 DEF Skim, RunStep, DeskShape, Working, Ended, Loop
  <2>2. series.link = g.volume /\ g.written \subseteq Books /\ g.volume \in Volumes
        /\ \A b \in Books : meta[b].id # None => b \in g.written /\ meta[b].number = g.listed[b]
    BY <1>5, <2>1 DEF RunKeeps, LinksInv
  <2>3. applied \subseteq arcs
    <3> SUFFICES ASSUME NEW b \in applied PROVE b \in arcs
      OBVIOUS
    <3>1. b \in Books /\ HasIssue(g, b) /\ meta[b].id = <<g.volume, Norm[g.listed[b]]>>
      BY <2>2 DEF IssueId
    <3>2. meta[b].id # None
      BY <2>2, <3>1, LinkIsNoNone DEF HasIssue
    <3> QED BY <1>6, <2>1, <2>2, <3>1, <3>2 DEF Rested, Kept, Looping
  <2>4. ASSUME NEW b \in Books, Kept(b) PROVE b \in arcs \cap applied
    <3>1. b \in arcs
      BY <1>6, <2>1, <2>4 DEF Rested, Looping
    <3>2. b \in g.written /\ meta[b].id = IssueId(g, b)
      BY <2>2, <2>4 DEF Kept, IssueId
    <3>3. PICK k \in DOMAIN Issues[series.link] : meta[b].id = <<series.link, k>>
      BY <1>7, <2>4 DEF IdsOfVolume, Kept
    <3>4. HasIssue(g, b)
      BY <2>2, <3>2, <3>3 DEF HasIssue, IssueId
    <3> QED BY <3>1, <3>2, <3>4
  <2> HIDE DEF applied
  <2>5. h.at = "next" /\ h.volume = g.volume /\ h.applied = applied /\ h.arcs = arcs \cap applied
        /\ h.left = Books
    BY <2>1 DEF Loop
  <2>6. \A b \in Books : Kept(b)' => Kept(b)
    BY <2>1 DEF Kept
  <2>7. RunKeeps(run[r])'
    BY <2>1, <2>2, <2>3, <2>4, <2>5, <2>6 DEF RunKeeps, Looping
  <2> QED BY <1>8, <2>1, <2>5, <2>7 DEF Looping
<1>13. CASE Skip(r)
  <2> DEFINE n == Next1(g)
  <2>1. g.at = "next" /\ Working(r) /\ UNCHANGED <<meta, series, arcs>>
        /\ (~HasIssue(g, n) \/ n \in g.applied) /\ RunShape(g)
    BY <1>13 DEF Skip, RunStep, DeskShape, Working, Ended
  <2>2. h = Loop("next", g.volume, g.listed, g.applied, g.arcs, g.left \ {n})
    BY <1>13, <2>1, SkipIs DEF Skip, RunStep, DeskShape
  <2> HIDE DEF n
  <2>3. h.at = "next" /\ h.volume = g.volume /\ h.listed = g.listed /\ h.applied = g.applied
        /\ h.arcs = g.arcs /\ h.left = g.left \ {n}
    BY <2>2 DEF Loop
  <2>4. \A b \in Books : Kept(b)' => Kept(b)
    BY <2>1 DEF Kept
  <2>5. \A b : HasIssue(run[r], b)' => HasIssue(g, b)
    BY <2>3 DEF HasIssue
  <2>6. RunKeeps(run[r])'
    BY <1>5, <2>1, <2>3, <2>4, <2>5 DEF RunKeeps, Looping
  <2> QED BY <1>8, <2>1, <2>3, <2>6 DEF Looping
<1>14. CASE Fetch(r) \/ ReadRunLocks(r)
  <2>1. Looping(g) /\ g.at # "credits" /\ Working(r) /\ UNCHANGED <<meta, series, arcs>> /\ Looping(h)
        /\ h.volume = g.volume /\ h.listed = g.listed /\ h.applied = g.applied
        /\ h.arcs = g.arcs /\ h.left = g.left
    BY <1>14 DEF Fetch, ReadRunLocks, RunStep, DeskShape, Looping, Working, Ended
  <2>2. HasIssue(g, Next1(g))
    BY <1>5, <1>14, <2>1 DEF Fetch, ReadRunLocks, RunStep, RunKeeps, Looping
  <2> QED BY <1>1, <1>2, <2>1, <2>2, LoopGoesOn
<1>15. CASE WriteIssue(r)
  <2> DEFINE b == Next1(g)
             new == Applied(g.copy, g.locks, Issues[g.volume][Norm[g.listed[b]]])
  <2>1. g.at = "write" /\ Working(r) /\ UNCHANGED <<series, arcs>>
        /\ h = Loop("credits", g.volume, g.listed, g.applied, g.arcs, g.left)
        /\ Put(b, [new EXCEPT !.id = IssueId(g, b)])
    BY <1>15 DEF WriteIssue, RunStep, DeskShape, Working, Ended, Loop
  <2>2. HasIssue(g, b) /\ series.link = g.volume /\ g.volume \in Volumes
    BY <1>5, <2>1 DEF RunKeeps, Looping, LinksInv
  <2>3. b \in Books => IsMeta(new)
    BY <2>1, AppliedIs DEF DeskShape, RunShape
  <2> HIDE DEF b, new
  <2>4. b \in Books => IsMeta([new EXCEPT !.id = IssueId(g, b)])
                     /\ [new EXCEPT !.id = IssueId(g, b)].id = IssueId(g, b)
    <3> DEFINE d == IssueId(g, b)
    <3> HIDE DEF d
    <3>1. b \in Books => [new EXCEPT !.id = d] = MetaOf(new.number, new.kind, new.ignored, d)
                       /\ IsMeta([new EXCEPT !.id = d])
      BY <2>3, LinkedIs
    <3>2. MetaOf(new.number, new.kind, new.ignored, d).id = d
      BY DEF MetaOf
    <3>3. b \in Books => [new EXCEPT !.id = d].id = d
      BY <3>1, <3>2
    <3> QED BY <3>1, <3>3 DEF d
  <2>5. /\ \A x \in Books \ {b} : meta'[x] = meta[x]
        /\ b \in Books => meta'[b].id = IssueId(g, b)
    BY <2>1, <2>4, PutIs
  <2>6. h.at = "credits" /\ h.volume = g.volume /\ h.listed = g.listed /\ h.applied = g.applied
        /\ h.arcs = g.arcs /\ h.left = g.left
    BY <2>1 DEF Loop
  <2>7. (Next1(run[r]))' = b /\ \A x : HasIssue(run[r], x)' <=> HasIssue(g, x)
    BY <2>6 DEF Next1, HasIssue, b
  <2>8. \A x \in Books \ {b} : Kept(x)' => Kept(x)
    BY <2>1, <2>5 DEF Kept
  <2>9. RunKeeps(run[r])'
    BY <1>5, <2>1, <2>2, <2>6, <2>7, <2>8 DEF RunKeeps, Looping
  <2>10. IdsOfVolume'
    <3> SUFFICES ASSUME NEW x \in Books, meta'[x].id # None
                 PROVE series.link # None
                       /\ \E k \in DOMAIN Issues[series.link] : meta'[x].id = <<series.link, k>>
      BY <2>1 DEF IdsOfVolume
    <3>1. CASE x = b
      BY <2>2, <2>5, <3>1, MatchAssumption DEF HasIssue, IssueId
    <3>2. CASE x # b
      BY <1>7, <2>5, <3>2 DEF IdsOfVolume
    <3> QED BY <3>1, <3>2
  <2> QED BY <2>6, <2>9, <2>10 DEF Looping
<1>16. CASE WriteCredits(r)
  <2> DEFINE n == Next1(g)
  <2>1. g.at = "credits" /\ Working(r) /\ UNCHANGED <<meta, series, arcs>>
        /\ h = Loop("next", g.volume, g.listed, g.applied, g.arcs \cup {n}, g.left \ {n})
    BY <1>16 DEF WriteCredits, RunStep, DeskShape, Working, Ended, Loop
  <2> HIDE DEF n
  <2>2. h.at = "next" /\ h.volume = g.volume /\ h.listed = g.listed /\ h.applied = g.applied
        /\ h.arcs = g.arcs \cup {n} /\ h.left = g.left \ {n}
    BY <2>1 DEF Loop
  <2>3. \A b \in Books : Kept(b)' => Kept(b)
    BY <2>1 DEF Kept
  <2>4. \A b : HasIssue(run[r], b)' => HasIssue(g, b)
    BY <2>2 DEF HasIssue
  <2>5. RunKeeps(run[r])'
    BY <1>5, <2>1, <2>2, <2>3, <2>4 DEF RunKeeps, Looping, n
  <2> QED BY <1>8, <2>1, <2>2, <2>5 DEF Looping
<1>17. CASE StopAtIssue(r)
  <2>1. Looping(g) /\ Working(r) /\ h = [at |-> "failed"] /\ arcs' = g.arcs /\ UNCHANGED <<meta, series>>
    BY <1>17 DEF StopAtIssue, End, DeskShape, Looping, Working, Ended
  <2>2. g.at # "credits"
    BY <1>17, Zenon DEF StopAtIssue
  <2>3. ~Working(r)' /\ Rested'
    BY <1>5, <2>1, <2>2 DEF RunKeeps, Rested, Kept, Working, Ended
  <2> QED BY <1>8, <2>1, <2>3
<1>18. CASE FailRun(r) \/ SetMatched(r)
  <2>1. g.at # "next" \/ SetMatched(r)
    BY <1>18, Zenon DEF FailRun
  <2>2. ~Looping(g) /\ h.at \in Ended /\ UNCHANGED <<meta, arcs>> /\ series'.link = series.link
    BY <1>1, <1>18, <2>1 DEF FailRun, SetMatched, End, DeskShape, Looping, Ended
  <2>3. ~Working(r)' /\ Rested' /\ IdsOfVolume'
    BY <1>6, <1>7, <2>2 DEF Rested, Kept, IdsOfVolume, Working
  <2> QED BY <2>3
<1>19. CASE CancelRun(r)
  BY <1>19 DEF CancelRun
<1>20. CASE WriteArcs(r)
  <2>1. g.at = "next" /\ g.left = {} /\ Working(r) /\ arcs' = g.arcs /\ UNCHANGED <<meta, series>>
        /\ h = [at |-> "finish", volume |-> g.volume, listed |-> g.listed]
    BY <1>20 DEF WriteArcs, RunStep, DeskShape, Working, Ended
  <2>2. \A b : HasIssue(run[r], b)' => HasIssue(g, b)
    BY <2>1 DEF HasIssue
  <2>3. RunKeeps(run[r])' /\ Rested'
    BY <1>5, <2>1, <2>2 DEF RunKeeps, Looping, Rested, Kept
  <2> QED BY <1>8, <2>1, <2>3
<1> QED BY <1>10, <1>11, <1>12, <1>13, <1>14, <1>15, <1>16, <1>17, <1>18, <1>19, <1>20 DEF RunRuns

LEMMA ArcsStep ==
  ASSUME DeskShape, LinksInv, ArcsInv, [DeskNext]_seriesVars PROVE ArcsInv'
<1>1. CASE \E c \in Edits : Asks(c)
  <2>1. CASE ~spoiled /\ series.there
    BY <1>1, <2>1, RowsKeepArcs DEF Asks
  <2>2. CASE ~(~spoiled /\ series.there)
    BY <1>1, <2>2 DEF Asks, ArcsInv
  <2> QED BY <2>1, <2>2
<1>2. CASE \E r \in Runs : Forgets(r) \/ \E v \in Volumes : Queues(r, v)
  <2>1. \A q \in Runs : run'[q] = run[q] \/ (~Working(q) /\ ~Working(q)')
    BY <1>2 DEF Forgets, Queues, Submit, Idle, Working, DeskShape
  <2>2. UNCHANGED <<meta, series, arcs, spoiled>>
    BY <1>2 DEF Forgets, Queues
  <2>3. CASE ~spoiled /\ series.there
    BY <2>1, <2>2, <2>3, RowsKeepArcs
  <2>4. CASE ~(~spoiled /\ series.there)
    BY <2>2, <2>4 DEF ArcsInv
  <2> QED BY <2>3, <2>4
<1>3. CASE Deletes
  BY <1>3 DEF Deletes, DeskShape, ArcsInv
<1>4. CASE UNCHANGED matchVars
  <2>1. CASE ~spoiled /\ series.there
    BY <1>4, <2>1, RowsKeepArcs DEF matchVars
  <2>2. CASE ~(~spoiled /\ series.there)
    BY <1>4, <2>2 DEF matchVars, ArcsInv
  <2> QED BY <2>1, <2>2
<1> QED BY <1>1, <1>2, <1>3, <1>4, ServerSteps, EditsKeepArcs, RunsKeepArcs

-----------------------------------------------------------------------------
(* Corrections and resumed runs.                                           *)
Corrects ==
  \A b \in Books, f \in Lockable :
    f \in locks[b] /\ (meta'[b][f] # meta[b][f] \/ f \notin locks'[b]) => Sets(b, f) \/ StaleWrite(b)

LEMMA CorrectionsStep ==
  ASSUME DeskShape, LinksInv, [DeskNext]_seriesVars PROVE Corrects
<1> SUFFICES ASSUME NEW b \in Books, NEW f \in Lockable, f \in locks[b],
                    meta'[b][f] # meta[b][f] \/ f \notin locks'[b],
                    ~Sets(b, f), ~StaleWrite(b)
             PROVE FALSE
  BY DEF Corrects
<1>0. f \in {"number", "kind"}
  BY DEF Lockable
<1>1. CASE UNCHANGED <<meta, locks>>
  BY <1>1
<1>2. CASE \E c \in Edits : EditRuns(c)
  <2> PICK c \in Edits : EditRuns(c)
    BY <1>2
  <2>1. CASE ReadBook(c) \/ ReadLocks(c) \/ FailEdit(c)
    BY <1>1, <2>1 DEF ReadBook, ReadLocks, FailEdit
  <2>2. CASE SetIgnored(c)
    <3>1. IsMeta(meta[b]) /\ locks' = locks
      BY <2>2 DEF SetIgnored, DeskShape
    <3>2. meta'[b] = meta[b] \/ meta'[b] = [meta[b] EXCEPT !.ignored = edit[c].patch.ignored]
      BY <2>2 DEF SetIgnored, DeskShape
    <3>3. meta'[b].number = meta[b].number /\ meta'[b].kind = meta[b].kind
      BY <3>1, <3>2 DEF IsMeta, MetaOf
    <3> QED BY <1>0, <3>1, <3>3
  <2>3. CASE WriteEdit(c)
    <3> DEFINE e == edit[c]
               new == Corrected(e.copy, e.patch)
    <3>1. e.at = "write" /\ Put(e.book, new)
          /\ locks' = [locks EXCEPT ![e.book] = e.locks \cup (DOMAIN e.patch \cap Lockable)]
      BY <2>3 DEF WriteEdit, EditStep
    <3>2. e.book \in Books => IsMeta(e.copy)
      BY <3>1 DEF DeskShape, EditShape
    <3>3. CASE e.book # b
      <4>1. e.book \in Books => IsMeta(new)
        BY <3>2, CorrectedIs
      <4> HIDE DEF new
      <4>2. meta'[b] = meta[b]
        BY <3>1, <3>3, <4>1, PutIs
      <4> QED BY <3>1, <3>3, <4>2 DEF DeskShape
    <3>4. CASE e.book = b
      <4>1. e.copy = meta[b] /\ e.locks = locks[b]
        BY <3>1, <3>4 DEF StaleWrite, ReadBefore
      <4>2. f \notin DOMAIN e.patch /\ (f = "kind" => "number" \notin DOMAIN e.patch)
        BY <3>1, <3>4 DEF Sets
      <4>3. IsMeta(new) /\ new[f] = e.copy[f]
        BY <1>0, <3>2, <3>4, <4>2, CorrectedIs
      <4>4. meta'[b][f] = new[f]
        BY <1>0, <3>1, <3>4, <4>3, PutIs
      <4>5. locks'[b] = locks[b] \cup (DOMAIN e.patch \cap Lockable)
        BY <3>1, <3>4, <4>1 DEF DeskShape
      <4> QED BY <4>1, <4>3, <4>4, <4>5
    <3> QED BY <3>3, <3>4
  <2> QED BY <2>1, <2>2, <2>3 DEF EditRuns
<1>3. CASE \E r \in Runs : RunRuns(r)
  <2> PICK r \in Runs : RunRuns(r)
    BY <1>3
  <2>1. CASE WriteIssue(r)
    <3> DEFINE g == run[r]
               x == Next1(g)
               new == Applied(g.copy, g.locks, Issues[g.volume][Norm[g.listed[x]]])
               d == IssueId(g, x)
    <3>1. g.at = "write" /\ Put(x, [new EXCEPT !.id = d]) /\ locks' = [locks EXCEPT ![x] = g.locks]
      BY <2>1 DEF WriteIssue, RunStep
    <3>2. x \in Books => IsMeta(g.copy)
      BY <3>1 DEF DeskShape, RunShape
    <3>3. x \in Books => IsMeta(new) /\ (f \in g.locks => new[f] = g.copy[f])
      BY <1>0, <3>2, AppliedIs
    <3>4. x = b => g.copy = meta[b] /\ g.locks = locks[b]
      BY <3>1 DEF StaleWrite, ReadBefore
    <3> HIDE DEF new, x, d
    <3>5. x \in Books => IsMeta([new EXCEPT !.id = d]) /\ [new EXCEPT !.id = d][f] = new[f]
      <4>1. x \in Books => IsMeta([new EXCEPT !.id = d])
                       /\ [new EXCEPT !.id = d] = MetaOf(new.number, new.kind, new.ignored, d)
        BY <3>3, LinkedIs
      <4>2. /\ MetaOf(new.number, new.kind, new.ignored, d).number = new.number
            /\ MetaOf(new.number, new.kind, new.ignored, d).kind = new.kind
        BY DEF MetaOf
      <4> QED BY <1>0, <4>1, <4>2
    <3>6. x # b => meta'[b] = meta[b]
      BY <3>1, <3>5, PutIs
    <3>7. x = b => meta'[b][f] = new[f]
      BY <1>0, <3>1, <3>5, PutIs
    <3>8. locks'[b] = IF x = b THEN g.locks ELSE locks[b]
      BY <3>1 DEF DeskShape
    <3> QED BY <3>3, <3>4, <3>6, <3>7, <3>8
  <2>2. CASE ~WriteIssue(r)
    BY <1>1, <2>2 DEF RunRuns, List, Link, Skim, Skip, Fetch, ReadRunLocks, WriteCredits,
                      StopAtIssue, FailRun, CancelRun, WriteArcs, SetMatched
  <2> QED BY <2>1, <2>2
<1>4. CASE UNCHANGED matchVars
  BY <1>1, <1>4 DEF matchVars
<1> QED BY <1>1, <1>2, <1>3, <1>4, ServerSteps DEF Asks, Forgets, Queues, Deletes

Resumes ==
  \A r \in Runs : run[r].at = "finish" /\ run'[r].at = "done" /\ ~spoiled =>
    {b \in Books : HasIssue(run[r], b)} \subseteq arcs

LEMMA ResumeStep ==
  ASSUME DeskShape, LinksInv, ArcsInv, [DeskNext]_seriesVars PROVE Resumes
<1> SUFFICES ASSUME NEW r \in Runs, run[r].at = "finish", run'[r].at = "done", ~spoiled
             PROVE \A b \in Books : HasIssue(run[r], b) => b \in arcs
  BY DEF Resumes
<1>1. run' # run
  OBVIOUS
<1>2. ~\E c \in Edits : EditRuns(c) \/ Asks(c)
  BY <1>1 DEF EditRuns, ReadBook, ReadLocks, WriteEdit, SetIgnored, FailEdit, Asks
<1>3. ~Deletes /\ ~UNCHANGED matchVars
  BY <1>1 DEF Deletes, matchVars
<1>4. ~\E q \in Runs : Forgets(q) \/ \E v \in Volumes : Queues(q, v)
  BY DEF Forgets, Queues, Submit, Idle, Ended, DeskShape
<1>5. RunRuns(r)
  BY <1>2, <1>3, <1>4, ServerSteps, RunsStay
<1>6. SetMatched(r)
  BY <1>5 DEF RunRuns, List, Link, Skim, Skip, Fetch, ReadRunLocks, WriteIssue, WriteCredits,
              StopAtIssue, FailRun, CancelRun, WriteArcs, RunStep, End, DeskShape
<1>7. series.there /\ Working(r)
  BY <1>6 DEF SetMatched, Working, Ended
<1>8. RunKeeps(run[r])
  BY <1>7 DEF ArcsInv
<1> QED BY <1>8 DEF RunKeeps

-----------------------------------------------------------------------------
(* Calls and the screen.                                                   *)

\* What a step does to the calls.
Moved(c) ==
  /\ call'[c].by = call[c].by /\ "by" \in DOMAIN call'[c]
  /\ edit'[c].at # "idle" => edit[c].at # "idle"
Makes(c) ==
  "by" \in DOMAIN call'[c] /\ call'[c].by # "nobody" /\ (call'[c].by = "form" => SaveEdit)
Over(c) == call'[c] = NoCall /\ edit'[c] = Idle

LEMMA HomeIs ==
  ASSUME NEW e, "by" \in DOMAIN e, NEW h
  PROVE [e EXCEPT !.home = h].by = e.by /\ "by" \in DOMAIN [e EXCEPT !.home = h]
OBVIOUS

LEMMA Homes ==
  ASSUME CallsInv, NEW h, UNCHANGED edit,
         \/ UNCHANGED call
         \/ \E K : call' = [c \in Edits |-> IF c \in K THEN [call[c] EXCEPT !.home = h] ELSE call[c]]
         \/ call' = [c \in Edits |-> IF call[c].by = "nobody" THEN NoCall ELSE [call[c] EXCEPT !.home = h]]
  PROVE call' = [c \in Edits |-> call'[c]] /\ \A c \in Edits : Moved(c)
<1>1. \A c \in Edits : /\ [call[c] EXCEPT !.home = h].by = call[c].by
                       /\ "by" \in DOMAIN [call[c] EXCEPT !.home = h]
  BY HomeIs DEF CallsInv
<1>2. CASE UNCHANGED call
  BY <1>2 DEF CallsInv, Moved
<1>3. CASE \E K : call' = [c \in Edits |-> IF c \in K THEN [call[c] EXCEPT !.home = h] ELSE call[c]]
  BY <1>1, <1>3 DEF CallsInv, Moved
<1>4. CASE call' = [c \in Edits |-> IF call[c].by = "nobody" THEN NoCall
                                    ELSE [call[c] EXCEPT !.home = h]]
  BY <1>1, <1>4 DEF CallsInv, Moved, NoCall
<1> QED BY <1>2, <1>3, <1>4

LEMMA OrphansMove ==
  ASSUME CallsInv, UNCHANGED edit, NEW from, NEW to, Orphan(from, to)
  PROVE call' = [c \in Edits |-> call'[c]] /\ \A c \in Edits : Moved(c)
<1> DEFINE K == {c \in Edits : call[c].by # "nobody" /\ call[c].home = from}
<1>1. call' = [c \in Edits |-> IF c \in K THEN [call[c] EXCEPT !.home = to] ELSE call[c]]
  BY DEF Orphan
<1> HIDE DEF K
<1> QED BY <1>1, Homes

\* Who sends a call.
LEMMA Sends ==
  ASSUME Apply \/ QuickResolve \/ ToggleIgnore \/ SaveEdit
  PROVE \E c \in Edits : \E w :
          /\ call[c].by = "nobody"
          /\ "by" \in DOMAIN w /\ w.by # "nobody" /\ (w.by = "form" => SaveEdit)
          /\ call' = [call EXCEPT ![c] = w] /\ \E e : edit' = [edit EXCEPT ![c] = e]
<1>0. ASSUME NEW c \in Edits, NEW b, NEW p, NEW w, Send(c, b, p, w),
             "by" \in DOMAIN w, w.by # "nobody", w.by = "form" => SaveEdit
      PROVE \E d \in Edits : \E x :
          /\ call[d].by = "nobody"
          /\ "by" \in DOMAIN x /\ x.by # "nobody" /\ (x.by = "form" => SaveEdit)
          /\ call' = [call EXCEPT ![d] = x] /\ \E e : edit' = [edit EXCEPT ![d] = e]
  BY <1>0 DEF Send, Ask
<1>1. CASE Apply
  <2> DEFINE b == CHOOSE x \in Changes : \A y \in Changes : x <= y
             p == [number |-> dialog.values[b]]
             w == [by |-> "apply", home |-> "dialog", todo |-> Changes \ {b}, values |-> dialog.values]
  <2>1. \E c \in Edits : Send(c, b, p, w)
    BY <1>1 DEF Apply
  <2>2. "by" \in DOMAIN w /\ w.by = "apply"
    OBVIOUS
  <2> HIDE DEF b, p, w
  <2> QED BY <2>1, <2>2, <1>0
<1> DEFINE quick == [by |-> "quick", home |-> "dialog"]
           form == [by |-> "form", home |-> "dialog"]
<1>2. "by" \in DOMAIN quick /\ quick.by = "quick" /\ "by" \in DOMAIN form /\ form.by = "form"
  OBVIOUS
<1>3. QuickResolve => \E c \in Edits : \E b, p : Send(c, b, p, quick)
  BY DEF QuickResolve
<1>4. ToggleIgnore => \E c \in Edits : \E b, p : Send(c, b, p, quick)
  BY DEF ToggleIgnore
<1>5. SaveEdit => \E c \in Edits : \E b, p : Send(c, b, p, form)
  BY DEF SaveEdit
<1> HIDE DEF quick, form
<1> QED BY <1>0, <1>1, <1>2, <1>3, <1>4, <1>5

LEMMA CallsStep ==
  ASSUME DeskShape, CallsInv, [DeskNext]_seriesVars
  PROVE /\ call' = [c \in Edits |-> call'[c]]
        /\ \A c \in Edits : Moved(c) \/ Makes(c) \/ (Over(c) /\ edit[c].at \in {"ok", "error"})
<1>1. CASE UNCHANGED <<call, edit>>
  BY <1>1 DEF CallsInv, Moved
<1>2. CASE \E k \in Caches : Serve(k) \/ Arrive(k) \/ Refuse(k)
  <2> PICK k \in Caches : Serve(k) \/ Arrive(k) \/ Refuse(k)
    BY <1>2
  <2>1. CASE Serve(k)
    BY <1>1, <2>1 DEF Serve, matchVars
  <2>2. CASE Arrive(k)
    BY <1>1, <2>2, OrphansMove DEF Arrive, Leave, matchVars
  <2>3. CASE Refuse(k)
    BY <1>1, <2>3, Homes DEF Refuse, matchVars
  <2> QED BY <2>1, <2>2, <2>3
<1>3. CASE \E c \in Edits : EditAnswered(c) \/ ApplyAnswered(c) \/ CallFails(c)
  BY <1>3 DEF EditAnswered, ApplyAnswered, ApplyEnds, CallFails, Hangup, CallsInv, DeskShape, Moved, Over
<1>4. CASE \E c \in Edits : ApplyNext(c)
  <2> PICK c \in Edits : ApplyNext(c)
    BY <1>4
  <2>1. /\ \E t : call' = [call EXCEPT ![c].todo = t]
        /\ \E e : edit' = [edit EXCEPT ![c] = e]
        /\ call[c].by = "apply"
    BY DEF ApplyNext, Ask
  <2> QED BY <2>1 DEF CallsInv, DeskShape, Moved, Makes
<1>5. CASE \E c \in Edits : EditMoves(c)
  <2> PICK c \in Edits : EditMoves(c)
    BY <1>5
  <2>1. edit[c].at # "idle" /\ (\E e : edit' = [edit EXCEPT ![c] = e]) /\ UNCHANGED call
    BY DEF EditMoves, deskVars, EditRuns, ReadBook, ReadLocks, WriteEdit, SetIgnored, FailEdit, EditStep
  <2> QED BY <2>1 DEF CallsInv, DeskShape, Moved
<1>6. CASE Apply \/ QuickResolve \/ ToggleIgnore \/ SaveEdit
  <2>1. PICK c \in Edits : \E w : "by" \in DOMAIN w /\ w.by # "nobody" /\ (w.by = "form" => SaveEdit)
              /\ call' = [call EXCEPT ![c] = w] /\ \E e : edit' = [edit EXCEPT ![c] = e]
    BY <1>6, Sends
  <2> QED BY <2>1 DEF CallsInv, DeskShape, Moved, Makes
<1>7. CASE CloseDialog \/ RescanAnswered
  BY <1>7, OrphansMove, Homes DEF CloseDialog, Leave, RescanAnswered, matchVars
<1>8. CASE CancelEdit
  <2> DEFINE K == {c \in Edits : call[c].by = "form" /\ call[c].home = "dialog"}
  <2>1. call' = [c \in Edits |-> IF c \in K THEN [call[c] EXCEPT !.home = "view"] ELSE call[c]]
        /\ UNCHANGED edit
    BY <1>8 DEF CancelEdit, matchVars
  <2> HIDE DEF K
  <2> QED BY <2>1, Homes
<1>9. CASE \/ Retry \/ OpenResolve \/ TypeNumber \/ OpenFiles \/ EditFile \/ Touch
           \/ OpenDialog("match") \/ OpenDialog("rescan") \/ UseCandidate \/ ContinueMatch
           \/ ConfirmRescan \/ RescanServed \/ OnJob
  BY <1>1, <1>9 DEF Retry, OpenResolve, TypeNumber, OpenFiles, EditFile, Touch, OpenDialog,
       UseCandidate, ContinueMatch, ConfirmRescan, RescanServed, OnJob, matchVars
<1>10. CASE \E r \in Runs : RunMoves(r) \/ RunForgotten(r)
  BY <1>1, <1>10 DEF RunMoves, RunForgotten, deskVars, RunRuns, List, Link, Skim, Skip, Fetch,
       ReadRunLocks, WriteIssue, WriteCredits, StopAtIssue, FailRun, CancelRun, WriteArcs, SetMatched
<1>11. CASE UNCHANGED seriesVars
  BY <1>1, <1>11 DEF seriesVars, matchVars, deskVars
<1> QED BY <1>2, <1>3, <1>4, <1>5, <1>6, <1>7, <1>8, <1>9, <1>10, <1>11 DEF DeskNext

LEMMA CallsHold ==
  ASSUME DeskShape, CallsInv, [DeskNext]_seriesVars PROVE CallsInv'
BY CallsStep DEF CallsInv, Moved, Makes, Over, NoCall, Idle

-----------------------------------------------------------------------------
(* What the screen shows.                                                  *)

\* A step that leaves everything the screen's promise is about as it was.
LEMMA StaysShown ==
  ASSUME ScreenInv, ~Stirring' => ~Stirring, UNCHANGED <<screen, unheard, frames>>, Detail' = Detail,
         cache'["detail"] = cache["detail"], ask'["detail"] = ask["detail"],
         "detail" \notin failed' => "detail" \notin failed
  PROVE ScreenInv'
BY DEF ScreenInv

\* A step after which the detail is being fetched.
LEMMA IsFetched ==
  ASSUME screen' \in {"series", "home"}, frames' \in Seq(Ended),
         screen' = "series" => ask'["detail"] = Sent
  PROVE ScreenInv'
BY DEF ScreenInv, Sent, NoAsk

LEMMA InvalidatesDetail ==
  ASSUME NEW K, "detail" \in K, Invalidate(K), screen = "series"
  PROVE ask'["detail"] = Sent
BY DEF Invalidate, Observed, Loaded, Caches

LEMMA SameDetail ==
  ASSUME UNCHANGED meta, series'.state = series.state, series'.link = series.link
  PROVE Detail' = Detail
BY DEF Detail

\* Calls that only change their home.
LEMMA SameStir ==
  ASSUME \A c \in Edits : call'[c].by = call[c].by, UNCHANGED <<run, frames>>
  PROVE Stirring' = Stirring
BY DEF Stirring, Working

LEMMA RunsStir ==
  ASSUME DeskShape, ScreenInv, NEW r \in Runs, RunMoves(r)
  PROVE Stirring' /\ frames' \in Seq(Ended)
<1>1. RunRuns(r) /\ frames \in Seq(Ended)
  BY DEF RunMoves, ScreenInv
<1> DEFINE g == run[r]
<1>2. g.at \notin Ended /\ run'[r].at \notin {"idle", "queued"}
  <2>1. CASE \/ List(r) \/ Skim(r) \/ Fetch(r) \/ ReadRunLocks(r) \/ WriteIssue(r) \/ WriteCredits(r)
             \/ WriteArcs(r)
    BY <2>1 DEF List, Skim, Fetch, ReadRunLocks, WriteIssue, WriteCredits, WriteArcs, RunStep, Ended, DeskShape
  <2>2. CASE Link(r)
    <3>1. g.at = "link" /\ run' = [run EXCEPT ![r] = [g EXCEPT !.at = "skim"]]
      BY <2>2 DEF Link, RunStep
    <3>2. g = [at |-> "link", volume |-> g.volume, listed |-> g.listed, written |-> g.written]
      BY <3>1 DEF DeskShape, RunShape
    <3>3. [g EXCEPT !.at = "skim"].at = "skim"
      BY <3>2
    <3> QED BY <3>1, <3>3 DEF Ended, DeskShape
  <2>3. CASE Skip(r)
    <3>1. g.at = "next" /\ run' = [run EXCEPT ![r] = [g EXCEPT !.left = @ \ {Next1(g)}]]
      BY <2>3 DEF Skip, RunStep
    <3>2. [g EXCEPT !.left = @ \ {Next1(g)}].at = "next"
      BY <3>1, SkipIs DEF DeskShape, Loop
    <3> QED BY <3>1, <3>2 DEF Ended, DeskShape
  <2>4. CASE StopAtIssue(r) \/ FailRun(r) \/ CancelRun(r) \/ SetMatched(r)
    BY <2>4 DEF StopAtIssue, FailRun, CancelRun, SetMatched, End, Ended, DeskShape, Working
  <2> QED BY <1>1, <2>1, <2>2, <2>3, <2>4 DEF RunRuns
<1>3. CASE run'[r].at \in Ended
  <2>1. frames' = Append(frames, run'[r].at)
    BY <1>2, <1>3 DEF RunMoves
  <2>2. frames' # <<>> /\ frames' \in Seq(Ended)
    BY <1>1, <1>3, <2>1
  <2> QED BY <2>2 DEF Stirring
<1>4. CASE run'[r].at \notin Ended
  BY <1>1, <1>2, <1>4 DEF RunMoves, Stirring, Working
<1> QED BY <1>3, <1>4

LEMMA ScreenStep ==
  ASSUME DeskInv, [DeskNext]_seriesVars PROVE ScreenInv'
<1> USE DEF DeskInv
<1>0. screen \in {"series", "home"} /\ frames \in Seq(Ended)
  BY DEF ScreenInv
<1>1. ASSUME UNCHANGED <<meta, series, screen, cache, ask, failed, unheard, run, frames>>,
             \A c \in Edits : Moved(c) PROVE ScreenInv'
  BY <1>1, StaysShown, SameDetail, SameStir DEF Moved
<1>2. ASSUME UNCHANGED <<screen, frames>>, Stirring' \/ unheard' = TRUE PROVE ScreenInv'
  BY <1>2, <1>0 DEF ScreenInv
<1>3. \A c \in Edits : Moved(c) \/ Makes(c) \/ (Over(c) /\ edit[c].at \in {"ok", "error"})
  BY CallsStep
<1>3a. UNCHANGED <<call, edit>> => \A c \in Edits : Moved(c)
  BY DEF Moved, CallsInv
<1>4. ASSUME NEW k \in Caches, Serve(k) PROVE ScreenInv'
  <2> USE <1>4
  <2>1. UNCHANGED <<meta, series, screen, cache, failed, unheard, run, frames, call, edit>>
        /\ ask' = [ask EXCEPT ![k] = [at |-> "back", data |-> Answer(k)]]
    BY DEF Serve, matchVars
  <2>2. Detail' = Detail /\ Stirring' = Stirring
    BY <2>1, <1>3a, SameDetail, SameStir DEF Moved
  <2>3. CASE k = "files"
    BY <2>1, <2>2, <2>3, StaysShown DEF LinksInv
  <2>4. CASE k = "detail"
    <3>1. ask'["detail"].at = "back" /\ ask'["detail"].data = Detail'
      BY <2>1, <2>2, <2>4 DEF LinksInv, Answer
    <3> QED BY <1>0, <2>1, <3>1 DEF ScreenInv, NoAsk
  <2> QED BY <2>3, <2>4 DEF Caches
<1>5. ASSUME NEW k \in Caches, Arrive(k) PROVE ScreenInv'
  <2> USE <1>5
  <2>1. /\ UNCHANGED <<meta, series, screen, unheard, run, frames, edit>>
        /\ ask' = [ask EXCEPT ![k] = NoAsk] /\ cache' = [cache EXCEPT ![k] = ask[k].data]
        /\ failed' = failed \ {k} /\ ask[k].at = "back"
        /\ Orphan("dialog", "view") \/ UNCHANGED call
    BY DEF Arrive, matchVars, Leave
  <2>2. \A c \in Edits : Moved(c)
    BY <2>1, <1>3a, OrphansMove
  <2>3. Detail' = Detail /\ Stirring' = Stirring
    BY <2>1, <2>2, SameDetail, SameStir DEF Moved
  <2>4. CASE k = "files"
    BY <2>1, <2>3, <2>4, StaysShown DEF LinksInv
  <2>5. CASE k = "detail"
    <3>1. ask'["detail"] = NoAsk /\ cache'["detail"] = ask["detail"].data
      BY <2>1, <2>5 DEF LinksInv
    <3> QED BY <1>0, <2>1, <2>3, <2>5, <3>1 DEF ScreenInv, NoAsk
  <2> QED BY <2>4, <2>5 DEF Caches
<1>6. ASSUME NEW k \in Caches, Refuse(k) PROVE ScreenInv'
  <2> USE <1>6
  <2>1. /\ UNCHANGED <<meta, series, screen, unheard, run, frames, edit, cache>>
        /\ ask' = [ask EXCEPT ![k] = NoAsk] /\ failed' = failed \cup {k}
    BY DEF Refuse, matchVars
  <2>2. \A c \in Edits : Moved(c)
    <3>1. UNCHANGED call
          \/ call' = [c \in Edits |-> IF call[c].by = "nobody" THEN NoCall ELSE [call[c] EXCEPT !.home = "gone"]]
      BY DEF Refuse
    <3> QED BY <2>1, <3>1, Homes
  <2>3. CASE k = "files"
    <3>1. Detail' = Detail /\ Stirring' = Stirring
      BY <2>1, <2>2, SameDetail, SameStir DEF Moved
    <3> QED BY <2>1, <2>3, <3>1, StaysShown DEF LinksInv
  <2>4. CASE k = "detail"
    BY <1>0, <2>1, <2>4 DEF ScreenInv, NoAsk, LinksInv
  <2> QED BY <2>3, <2>4 DEF Caches
<1>7. ASSUME Retry PROVE ScreenInv'
  <2> USE <1>7
  <2>1. PICK k \in failed : ask' = [ask EXCEPT ![k] = Sent]
    BY DEF Retry
  <2>2. UNCHANGED <<meta, series, screen, cache, failed, unheard, run, frames, call, edit>>
    BY DEF Retry, matchVars
  <2>3. CASE k = "detail"
    <3>1. ask'["detail"] = Sent
      BY <2>1, <2>3 DEF LinksInv, Caches
    <3> QED BY <1>0, <2>2, <3>1, IsFetched
  <2>4. CASE k # "detail"
    <3>1. Detail' = Detail /\ Stirring' = Stirring
      BY <2>2, <1>3a, SameDetail, SameStir DEF Moved
    <3>2. ask'["detail"] = ask["detail"]
      BY <2>1, <2>4 DEF LinksInv, Caches
    <3> QED BY <2>2, <3>1, <3>2, StaysShown
  <2> QED BY <2>3, <2>4
<1>8. ASSUME NEW c \in Edits, EditAnswered(c) \/ ApplyAnswered(c) PROVE ScreenInv'
  <2>1. UNCHANGED <<screen, frames>> /\ (Invalidate({"detail", "files"}) \/ Invalidate({"detail"}))
    BY <1>8 DEF EditAnswered, ApplyAnswered
  <2> QED BY <1>0, <2>1, InvalidatesDetail, IsFetched
<1>9. ASSUME NEW c \in Edits, CallFails(c) PROVE ScreenInv'
  BY <1>9, <1>2 DEF CallFails
<1>10. ASSUME NEW c \in Edits, ApplyNext(c) PROVE ScreenInv'
  <2>1. call'[c].by # "nobody" /\ UNCHANGED <<screen, frames>>
    <3>1. (\E t : call' = [call EXCEPT ![c].todo = t]) /\ call[c].by = "apply" /\ UNCHANGED <<screen, frames>>
      BY <1>10 DEF ApplyNext
    <3> QED BY <3>1 DEF CallsInv
  <2> QED BY <2>1, <1>2 DEF Stirring
<1>11. ASSUME NEW c \in Edits, EditMoves(c) PROVE ScreenInv'
  <2>1. edit[c].at # "idle" /\ UNCHANGED <<screen, frames, call>>
    BY <1>11 DEF EditMoves, deskVars, EditRuns, ReadBook, ReadLocks, WriteEdit, SetIgnored, FailEdit, EditStep
  <2> QED BY <2>1, <1>2 DEF Stirring, CallsInv
<1>12. ASSUME Apply \/ QuickResolve \/ ToggleIgnore \/ SaveEdit PROVE ScreenInv'
  <2>1. PICK c \in Edits : \E w : w.by # "nobody" /\ call' = [call EXCEPT ![c] = w]
    BY <1>12, Sends
  <2>2. UNCHANGED <<screen, frames>>
    BY <1>12 DEF Apply, QuickResolve, ToggleIgnore, SaveEdit, Quiet
  <2> QED BY <2>1, <2>2, <1>2 DEF Stirring, CallsInv
<1>13. ASSUME OpenResolve \/ TypeNumber \/ EditFile \/ Touch \/ OpenDialog("match")
              \/ OpenDialog("rescan") \/ ConfirmRescan PROVE ScreenInv'
  BY <1>13, <1>1, <1>3a DEF OpenResolve, TypeNumber, EditFile, Touch, OpenDialog, ConfirmRescan,
       Quiet, matchVars
<1>14. ASSUME CancelEdit \/ CloseDialog PROVE ScreenInv'
  <2>1. UNCHANGED <<meta, series, screen, cache, ask, failed, unheard, run, frames, edit>>
    BY <1>14 DEF CancelEdit, CloseDialog, Quiet, matchVars
  <2>2. CASE CloseDialog
    <3>1. \A c \in Edits : Moved(c)
      BY <2>1, <2>2, OrphansMove DEF CloseDialog, Leave
    <3> QED BY <2>1, <3>1, <1>1
  <2>3. CASE CancelEdit
    <3> DEFINE K == {c \in Edits : call[c].by = "form" /\ call[c].home = "dialog"}
    <3>1. call' = [c \in Edits |-> IF c \in K THEN [call[c] EXCEPT !.home = "view"] ELSE call[c]]
      BY <2>3 DEF CancelEdit
    <3> HIDE DEF K
    <3>2. \A c \in Edits : Moved(c)
      BY <2>1, <3>1, Homes
    <3> QED BY <2>1, <3>2, <1>1
  <2> QED BY <1>14, <2>2, <2>3
<1>15. ASSUME OpenFiles PROVE ScreenInv'
  <2>1. UNCHANGED <<meta, series, screen, cache, failed, unheard, run, frames, call, edit>>
    BY <1>15 DEF OpenFiles, matchVars
  <2>2. ask'["detail"] = ask["detail"]
    <3>1. UNCHANGED ask \/ \E x : ask' = [ask EXCEPT !["files"] = x]
      BY <1>15 DEF OpenFiles
    <3> QED BY <3>1 DEF LinksInv, Caches
  <2>3. Detail' = Detail /\ Stirring' = Stirring
    BY <2>1, <1>3a, SameDetail, SameStir DEF Moved
  <2> QED BY <2>1, <2>2, <2>3, StaysShown
<1>16. ASSUME UseCandidate \/ ContinueMatch PROVE ScreenInv'
  <2>1. UNCHANGED <<meta, series, screen, cache, ask, failed, unheard, frames, call>>
        /\ \E r \in Runs : \E v : Submit(r, v)
    BY <1>16 DEF UseCandidate, ContinueMatch, Quiet
  <2>2. Stirring => Stirring'
    BY <2>1 DEF Submit, Stirring, Working, DeskShape
  <2>3. Detail' = Detail
    BY <2>1, SameDetail
  <2> QED BY <2>1, <2>2, <2>3, StaysShown
<1>17. ASSUME RescanServed PROVE ScreenInv'
  <2>1. UNCHANGED <<meta, screen, cache, ask, failed, unheard, run, frames, call, edit>>
    BY <1>17 DEF RescanServed
  <2>2. series'.state = series.state /\ series'.link = series.link
    BY <1>17 DEF RescanServed, DeskShape
  <2>3. Detail' = Detail /\ Stirring' = Stirring
    BY <2>1, <2>2, <1>3a, SameDetail, SameStir DEF Moved
  <2> QED BY <2>1, <2>3, StaysShown
<1>18. ASSUME RescanAnswered PROVE ScreenInv'
  BY <1>0, <1>18, IsFetched DEF RescanAnswered
<1>19. ASSUME NEW r \in Runs, RunMoves(r) PROVE ScreenInv'
  BY <1>0, <1>19, RunsStir DEF RunMoves, ScreenInv
<1>20. ASSUME NEW r \in Runs, RunForgotten(r) PROVE ScreenInv'
  <2>1. UNCHANGED <<meta, series, screen, cache, ask, failed, unheard, frames, call>>
    BY <1>20 DEF RunForgotten, deskVars
  <2>2. Stirring => Stirring'
    BY <2>1, <1>20 DEF RunForgotten, Stirring, Working, DeskShape
  <2>3. Detail' = Detail
    BY <2>1, SameDetail
  <2> QED BY <2>1, <2>2, <2>3, StaysShown
<1>21. ASSUME OnJob PROVE ScreenInv'
  <2>1. UNCHANGED screen /\ frames' \in Seq(Ended)
    BY <1>0, <1>21 DEF OnJob
  <2>2. CASE Head(frames) = "done"
    BY <1>0, <1>21, <2>1, <2>2, InvalidatesDetail, IsFetched DEF OnJob
  <2>3. CASE Head(frames) # "done"
    BY <1>0, <1>21, <2>1, <2>3 DEF OnJob, ScreenInv
  <2> QED BY <2>2, <2>3
<1>22. ASSUME UNCHANGED seriesVars PROVE ScreenInv'
  BY <1>22, <1>1, <1>3a DEF seriesVars, matchVars, deskVars
<1> QED BY <1>4, <1>5, <1>6, <1>7, <1>8, <1>9, <1>10, <1>11, <1>12, <1>13, <1>14, <1>15, <1>16, <1>17,
           <1>18, <1>19, <1>20, <1>21, <1>22 DEF DeskNext

-----------------------------------------------------------------------------
(* The form of a file.                                                     *)
LEMMA FormStep ==
  ASSUME LinksInv, FormInv, [DeskNext]_seriesVars PROVE FormInv'
<1>0. /\ cache'["files"] # Blank => Rows(cache'["files"])
      /\ ask'["files"].at = "back" => Rows(ask'["files"].data)
  <2>1. "files" \in Caches /\ Rows(Answer("files"))
    BY DEF Caches, Answer, Files, Rows, Fields, Lockable
  <2>2. \A k \in Caches :
             /\ cache'[k] = cache[k] \/ (ask[k].at = "back" /\ cache'[k] = ask[k].data)
             /\ ask'[k].at = "back" => ask'[k] = ask[k] \/ ask'[k].data = Answer(k)
    BY AnswersStep
  <2> QED BY <2>1, <2>2 DEF FormInv
<1> USE <1>0 DEF Rows
<1>1. ASSUME UNCHANGED dialog PROVE FormInv'
  BY <1>1 DEF FormInv, Editing
<1>2. ASSUME NEW kind \in {"none", "files", "match", "rescan"}, dialog' = [kind |-> kind] PROVE FormInv'
  BY <1>2 DEF FormInv, Editing
<1>3. CASE \E k \in Caches : Serve(k) \/ Arrive(k) \/ Refuse(k)
  BY <1>1, <1>2, <1>3 DEF Serve, Arrive, Refuse, Leave, Closed
<1>4. CASE \E c \in Edits : EditAnswered(c) \/ ApplyNext(c) \/ ApplyAnswered(c) \/ CallFails(c) \/ EditMoves(c)
  BY <1>1, <1>2, <1>4 DEF EditAnswered, ApplyNext, ApplyAnswered, ApplyEnds, CallFails, EditMoves, deskVars, Closed
<1>5. CASE Retry \/ Apply \/ QuickResolve \/ ToggleIgnore \/ SaveEdit
  BY <1>1, <1>5 DEF Retry, Apply, QuickResolve, ToggleIgnore, SaveEdit
<1>6. CASE OpenFiles \/ CancelEdit \/ OpenDialog("match") \/ OpenDialog("rescan") \/ CloseDialog
           \/ UseCandidate \/ ConfirmRescan \/ RescanAnswered
  BY <1>2, <1>6 DEF OpenFiles, CancelEdit, OpenDialog, CloseDialog, Leave, UseCandidate, ConfirmRescan,
       RescanAnswered, Closed
<1>7. CASE ContinueMatch \/ RescanServed \/ OnJob
  BY <1>1, <1>7 DEF ContinueMatch, RescanServed, OnJob
<1>8. CASE \E r \in Runs : RunMoves(r) \/ RunForgotten(r)
  BY <1>1, <1>8 DEF RunMoves, RunForgotten, deskVars
<1>9. CASE OpenResolve
  BY <1>9 DEF OpenResolve, FormInv, Editing
<1>10. CASE TypeNumber
  <2>1. dialog.kind = "resolve" /\ \E v : dialog' = [dialog EXCEPT !.values = v]
    BY <1>10 DEF TypeNumber
  <2>2. PICK v : dialog' = [kind |-> "resolve", values |-> v]
    BY <2>1 DEF FormInv
  <2> QED BY <2>2 DEF FormInv, Editing
<1>11. CASE EditFile
  <2>1. \E b, base : /\ Fields \subseteq DOMAIN base
                    /\ dialog' = [kind |-> "files", book |-> b, base |-> base, form |-> base, touched |-> {}]
    BY <1>11 DEF EditFile, Listed, FormInv
  <2> QED BY <2>1 DEF FormInv, Editing
<1>12. CASE Touch
  <2>1. PICK f, x : f \in Fields /\ dialog' = [dialog EXCEPT !.form[f] = x, !.touched = @ \cup {f}]
    BY <1>12 DEF Touch
  <2> DEFINE form == [dialog.form EXCEPT ![f] = x]
             touched == dialog.touched \cup {f}
  <2>2. Editing
    BY <1>12 DEF Touch
  <2>3. /\ Fields \subseteq DOMAIN form
        /\ \A g \in Fields \ touched : form[g] = dialog.base[g]
    BY <2>2 DEF FormInv
  <2>4. dialog' = [dialog EXCEPT !.form = form, !.touched = touched]
    BY <2>1
  <2> HIDE DEF form, touched
  <2>5. dialog' = [kind |-> "files", book |-> dialog.book, base |-> dialog.base,
                   form |-> form, touched |-> touched]
    <3>1. PICK b, s, u, t :
            /\ dialog = [kind |-> "files", book |-> b, base |-> s, form |-> u, touched |-> t]
            /\ dialog.book = b /\ dialog.base = s
      BY <2>2 DEF FormInv
    <3>2. dialog' = [kind |-> "files", book |-> b, base |-> s, form |-> form, touched |-> touched]
      BY <2>4, <3>1
    <3> QED BY <3>1, <3>2
  <2> QED BY <2>3, <2>5 DEF FormInv, Editing
<1>13. CASE UNCHANGED seriesVars
  BY <1>1, <1>13 DEF seriesVars, deskVars
<1> QED BY <1>3, <1>4, <1>5, <1>6, <1>7, <1>8, <1>9, <1>10, <1>11, <1>12, <1>13 DEF DeskNext

-----------------------------------------------------------------------------
(* The invariant and what it shows.                                        *)
LEMMA DeskStarts == DeskInit => DeskInv
<1> SUFFICES ASSUME DeskInit PROVE DeskInv
  OBVIOUS
<1> USE DEF DeskInit, MatchInit
<1>1. DeskShape
  <2>1. meta = [b \in Books |-> MetaOf(Scanned[b], Derived[Scanned[b]], FALSE, None)]
    BY DEF MetaOf
  <2>2. \A b \in Books : IsMeta(meta[b])
    BY <2>1 DEF IsMeta, MetaOf
  <2>3. (\A c \in Edits : EditShape(edit[c])) /\ \A r \in Runs : RunShape(run[r])
    BY DEF Idle, EditShape, RunShape
  <2> QED BY <2>1, <2>2, <2>3 DEF DeskShape
<1>2. LinksInv
  <2>1. Detail.link = None
    BY DEF Detail
  <2> QED BY <2>1 DEF LinksInv, Caches, NoAsk, Idle, Working
<1>3. \A b \in Books : meta[b].id = None
  OBVIOUS
<1>4. ArcsInv
  BY <1>3 DEF ArcsInv, Idle, Working, Looping, Kept
<1>5. CallsInv
  BY DEF CallsInv, NoCall, Idle
<1>6. ScreenInv
  BY DEF ScreenInv, Caches, NoAsk
<1>7. FormInv
  BY DEF FormInv, Caches, NoAsk, Closed, Editing
<1> QED BY <1>1, <1>2, <1>4, <1>5, <1>6, <1>7 DEF DeskInv

LEMMA DeskInvariant == DeskSpec => []DeskInv
<1>1. DeskInv /\ [DeskNext]_seriesVars => DeskInv'
  BY ShapeStep, LinksStep, ArcsStep, CallsHold, ScreenStep, FormStep DEF DeskInv
<1> QED BY <1>1, DeskStarts, PTL DEF DeskSpec

\* No match, however often it is run again, and no call of another user undoes a
\* correction or its lock, unless that writer had read the book before it was made.
THEOREM CorrectionsLast == DeskSpec => CorrectionsHold
<1>1. DeskInv /\ [DeskNext]_seriesVars => [Corrects]_<<meta, locks>>
  BY CorrectionsStep DEF DeskInv
<1> QED BY <1>1, DeskInvariant, PTL DEF DeskSpec, CorrectionsHold, Corrects

\* Whatever stopped the matches before it, a match that declares the series matched
\* leaves every book the volume has an issue for in the series' story arcs.
THEOREM NoArcLost == DeskSpec => ResumeKeepsArcs
<1>1. DeskInv /\ [DeskNext]_seriesVars => [Resumes]_<<run, arcs>>
  BY ResumeStep DEF DeskInv
<1> QED BY <1>1, DeskInvariant, PTL DEF DeskSpec, ResumeKeepsArcs, Resumes

\* When every call is answered, every job over and its event heard, the series screen
\* shows what is stored, whatever calls, jobs and fetches crossed on the way.
THEOREM ScreenFollows == DeskSpec => []DetailFollows
<1>1. DeskInv => DetailFollows
  BY DEF DeskInv, ScreenInv, DetailFollows, Settled, Mounted, Stirring, Working
<1> QED BY <1>1, DeskInvariant, PTL

\* A save sends no field of a file that its user left as the form was opened with it.
THEOREM FormsSendTouched == DeskSpec => SaveSendsWhatWasTouched
<1> DEFINE Sends1 == \A c \in Edits :
                       call[c].by = "nobody" /\ call'[c].by = "form" =>
                         DOMAIN edit'[c].patch \subseteq dialog.touched
<1>1. ASSUME DeskInv, [DeskNext]_seriesVars, NEW c \in Edits,
             call[c].by = "nobody", call'[c].by = "form"
      PROVE  DOMAIN edit'[c].patch \subseteq dialog.touched
  <2>1. SaveEdit
    BY <1>1, CallsStep DEF DeskInv, Moved, Makes, Over, NoCall
  <2>2. PICK d \in Edits : /\ call' = [call EXCEPT ![d] = [by |-> "form", home |-> "dialog"]]
                           /\ edit' = [edit EXCEPT ![d] = [at |-> "get", book |-> dialog.book, patch |-> Patch]]
    BY <2>1 DEF SaveEdit, Send, Ask
  <2>3. c = d
    BY <1>1, <2>2 DEF DeskInv, CallsInv
  <2>4. edit'[c].patch = Patch
    <3> DEFINE e == [at |-> "get", book |-> dialog.book, patch |-> Patch]
    <3>1. e.patch = Patch
      OBVIOUS
    <3>2. edit' = [edit EXCEPT ![c] = e]
      BY <2>2, <2>3
    <3> HIDE DEF e
    <3>3. edit'[c] = e
      BY <1>1, <3>2 DEF DeskInv, DeskShape
    <3> QED BY <3>1, <3>3
  <2>5. DOMAIN Patch = {g \in Fields : dialog.form[g] # dialog.base[g]}
    BY DEF Patch
  <2>6. \A g \in Fields : dialog.form[g] # dialog.base[g] => g \in dialog.touched
    BY <1>1, <2>1 DEF SaveEdit, DeskInv, FormInv
  <2> QED BY <2>4, <2>5, <2>6
<1>2. DeskInv /\ [DeskNext]_seriesVars => [Sends1]_seriesVars
  BY <1>1
<1> QED BY <1>2, DeskInvariant, PTL DEF DeskSpec, SaveSendsWhatWasTouched
=============================================================================
