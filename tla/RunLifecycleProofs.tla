------------------------- MODULE RunLifecycleProofs -------------------------
(***************************************************************************)
(* Theorems about RunLifecycle, for any number of runs, restarts, users    *)
(* and faults, in either mode and with either artifact store.              *)
(***************************************************************************)
EXTENDS RunLifecycle, FiniteSetTheorems, TLAPS

\* What LoseMemory leaves is of the right type.
LEMMA LoseMemoryType ==
  ASSUME TypeOK, LoseMemory, phase' \in Phases
  PROVE  TypeOK'
BY DEF TypeOK, LoseMemory, db, k6vars, StartSteps, CompSteps, NoRun

\* The statements of the run store keep the types of its columns.
LEMMA StoreType ==
  ASSUME TypeOK, NEW r \in Runs
  PROVE  /\ \A s \in Statuses : SetStatus(r, s) => row' \in [Runs -> Statuses]
         /\ \A e \in EventTypes : AddEvent(r, e) => events' \in [Runs -> SUBSET EventTypes]
         /\ SetSummary(r) => summary' \in [Runs -> BOOLEAN]
         /\ DeleteRow(r) => /\ row' \in [Runs -> Statuses]
                            /\ events' \in [Runs -> SUBSET EventTypes]
                            /\ summary' \in [Runs -> BOOLEAN]
<1>1. \A s \in Statuses : SetStatus(r, s) => row' \in [Runs -> Statuses]
  BY DEF TypeOK, SetStatus
<1>2. \A e \in EventTypes : AddEvent(r, e) => events' \in [Runs -> SUBSET EventTypes]
  BY DEF TypeOK, AddEvent
<1>3. SetSummary(r) => summary' \in [Runs -> BOOLEAN]
  BY DEF TypeOK, SetSummary
<1>4. DeleteRow(r) => /\ row' \in [Runs -> Statuses]
                      /\ events' \in [Runs -> SUBSET EventTypes]
                      /\ summary' \in [Runs -> BOOLEAN]
  BY DEF TypeOK, DeleteRow, Statuses
<1> QED
  BY <1>1, <1>2, <1>3, <1>4

\* Each step of the Start handler keeps the types.
LEMMA StartType ==
  ASSUME TypeOK, NEW r \in Runs, StartHandler(r) \/ Create(r)
  PROVE  TypeOK'
<1> USE DEF StepStart, db, k6vars, engine, calls, sweep, process, StartSteps, CompSteps
<1>1. CASE Create(r)
  BY <1>1 DEF TypeOK, Create, Statuses, Present, InFlight
<1>2. CASE Launch(r)
  BY <1>2 DEF TypeOK, Launch, OpenArchive
<1>3. CASE LaunchFails(r)
  BY <1>3 DEF TypeOK, LaunchFails
<1>4. CASE Register(r)
  BY <1>4 DEF TypeOK, Register
<1>5. CASE MarkRunning(r)
  BY <1>5 DEF TypeOK, MarkRunning, SetStatus, Statuses, Present, InFlight
<1>6. CASE NoteStart(r)
  BY <1>6 DEF TypeOK, NoteStart, AddEvent, EventTypes
<1>7. CASE Announce(r)
  BY <1>7 DEF TypeOK, Announce
<1>8. CASE AnnounceNil(r)
  BY <1>8, LoseMemoryType DEF AnnounceNil, Phases
<1>9. CASE FailRow(r)
  BY <1>9 DEF TypeOK, FailRow, SetStatus, Statuses, Present, Finished
<1>10. CASE ExplainFailure(r)
  BY <1>10 DEF TypeOK, ExplainFailure, AddEvent, EventTypes
<1> QED
  BY <1>1, <1>2, <1>3, <1>4, <1>5, <1>6, <1>7, <1>8, <1>9, <1>10 DEF StartHandler

\* Each step of the completion goroutine, and of k6, keeps the types.
LEMMA CompletionType ==
  ASSUME TypeOK, NEW r \in Runs, Completion(r) \/ K6Exit(r) \/ WatchGivesUp(r)
  PROVE  TypeOK'
<1> USE DEF StepComp, db, k6vars, engine, calls, sweep, process, StartSteps, CompSteps
<1>1. CASE K6Exit(r)
  BY <1>1 DEF TypeOK, K6Exit
<1>2. CASE WatchGivesUp(r)
  BY <1>2 DEF TypeOK, WatchGivesUp, ExitCodes
<1>3. CASE WaitReturns(r)
  BY <1>3 DEF TypeOK, WaitReturns
<1>4. CASE Decide(r)
  <2>1. Verdict(r) \in Finished
    BY DEF Verdict, Finished
  <2> QED
    BY <1>4, <2>1 DEF TypeOK, Decide
<1>5. CASE StoreSummary(r)
  BY <1>5 DEF TypeOK, StoreSummary, SetSummary
<1>6. CASE StoreError(r)
  BY <1>6 DEF TypeOK, StoreError, AddEvent, EventTypes
<1>7. CASE StoreStop(r)
  BY <1>7 DEF TypeOK, StoreStop, AddEvent, EventTypes
<1>8. CASE StoreStatus(r)
  BY <1>8 DEF TypeOK, StoreStatus, SetStatus, Statuses, Present
<1>9. CASE CloseRaw(r)
  BY <1>9 DEF TypeOK, CloseRaw, CloseArchive
<1>10. CASE Unregister(r)
  BY <1>10 DEF TypeOK, Unregister
<1>11. CASE Cleanup(r)
  BY <1>11 DEF TypeOK, Cleanup
<1> QED
  BY <1>1, <1>2, <1>3, <1>4, <1>5, <1>6, <1>7, <1>8, <1>9, <1>10, <1>11 DEF Completion

\* The Stop, Kill and Delete handlers keep the types.
LEMMA CallType ==
  ASSUME TypeOK, NEW r \in Runs, Requests(r) \/ Answers(r)
  PROVE  TypeOK'
<1> USE DEF db, k6vars, engine, calls, sweep, process, StartSteps, CompSteps
<1>1. CASE Create(r)
  BY <1>1, StartType
<1>2. CASE StopMark(r)
  BY <1>2 DEF TypeOK, StopMark
<1>3. CASE KillMark(r)
  BY <1>3 DEF TypeOK, KillMark
<1>4. CASE DeleteCheck(r)
  BY <1>4 DEF TypeOK, DeleteCheck
<1>5. CASE StopNote(r)
  BY <1>5 DEF TypeOK, StopNote, AddEvent, EventTypes
<1>6. CASE KillSend(r)
  BY <1>6 DEF TypeOK, KillSend
<1>7. CASE KillFails(r)
  BY <1>7 DEF TypeOK, KillFails
<1>8. CASE KillNote(r)
  BY <1>8 DEF TypeOK, KillNote, AddEvent, EventTypes
<1>9. CASE DeleteRun(r)
  <2>1. CASE Exists(r)
    BY <1>9, <2>1, StoreType DEF TypeOK, DeleteRun
  <2>2. CASE ~Exists(r)
    BY <1>9, <2>2 DEF TypeOK, DeleteRun
  <2> QED
    BY <2>1, <2>2
<1>10. CASE DeleteFiles(r)
  BY <1>10 DEF TypeOK, DeleteFiles, DeleteArtifacts
<1> QED
  BY <1>1, <1>2, <1>3, <1>4, <1>5, <1>6, <1>7, <1>8, <1>9, <1>10 DEF Requests, Answers

\* The retention sweep keeps the types.
LEMMA SweepType ==
  ASSUME TypeOK, Sweep
  PROVE  TypeOK'
<1> USE DEF db, k6vars, engine, calls, process
<1>1. CASE PruneSelect
  <2>1. RunsToPrune \subseteq SUBSET Runs
    BY DEF RunsToPrune
  <2> QED
    BY <1>1, <2>1 DEF TypeOK, PruneSelect
<1>2. CASE PruneArtifacts
  BY <1>2 DEF TypeOK, PruneArtifacts, DeleteArtifacts
<1>3. ASSUME NEW r \in Runs, PruneRun(r)
      PROVE  TypeOK'
  <2>1. CASE Exists(r)
    BY <1>3, <2>1, StoreType DEF TypeOK, PruneRun
  <2>2. CASE ~Exists(r)
    BY <1>3, <2>2 DEF TypeOK, PruneRun
  <2> QED
    BY <2>1, <2>2
<1> QED
  BY <1>1, <1>2, <1>3 DEF Sweep

\* Shutdown, a crash and start-up keep the types.
LEMMA ProcessType ==
  ASSUME TypeOK, Shutdown \/ Crash \/ Startup
  PROVE  TypeOK'
<1> USE DEF db, k6vars, engine, calls, sweep, Phases
<1>1. CASE Signal
  BY <1>1 DEF TypeOK, Signal
<1>2. ASSUME NEW r \in Runs, ShutdownKill(r)
      PROVE  TypeOK'
  BY <1>2 DEF TypeOK, ShutdownKill
<1>3. CASE Exit \/ ExitLate \/ Crash
  BY <1>3, LoseMemoryType DEF Exit, ExitLate, Crash
<1>4. CASE Boot
  BY <1>4 DEF TypeOK, Boot
<1>5. ASSUME NEW r \in Runs, MarkFailed(r)
      PROVE  TypeOK'
  BY <1>5 DEF TypeOK, MarkFailed, SetStatus, Statuses, Present, Finished
<1>6. CASE MarkExplained
  BY <1>6 DEF TypeOK, MarkExplained, AddEvent, EventTypes
<1>7. CASE MarkDone
  BY <1>7 DEF TypeOK, MarkDone
<1>8. CASE CleanOrphans
  BY <1>8 DEF TypeOK, CleanOrphans
<1> QED
  BY <1>1, <1>2, <1>3, <1>4, <1>5, <1>6, <1>7, <1>8 DEF Shutdown, Startup

\* The initial state is well typed.
LEMMA TypeInit == Init => TypeOK
BY RunsAssumption DEF Init, TypeOK, Statuses, EventTypes, ExitCodes, CompSteps,
   StartSteps, Phases, NoRun

\* Every step keeps the types.
LEMMA TypeStep ==
  ASSUME TypeOK, [Next]_vars
  PROVE  TypeOK'
<1>1. CASE UNCHANGED vars
  BY <1>1 DEF TypeOK, vars, db, k6vars, engine, calls, sweep, process
<1>2. CASE Next
  BY <1>2, StartType, CompletionType, CallType, SweepType, ProcessType DEF Next
<1> QED
  BY <1>1, <1>2

\* Every variable of the model always has its type.
THEOREM TypeCorrect == Spec => []TypeOK
BY TypeInit, TypeStep, PTL DEF Spec

-----------------------------------------------------------------------------
(* FinishedIsExplained.  CompletionInv is preserved because events and     *)
(* summaries leave the database only with their row, and a row that is     *)
(* gone never comes back.                                                  *)

\* Losing the memory of the process loses nothing CompletionInv speaks of.
LEMMA LoseMemoryCompletion ==
  ASSUME TypeOK, CompletionInv, LoseMemory
  PROVE  CompletionInv'
BY DEF TypeOK, CompletionInv, FinishedIsExplained, LoseMemory, db, Exists, AfterSummary,
       AfterStop

\* A step that leaves the rows, events and summaries alone, and the two
\* program counters and the outcome.
LEMMA CompletionStutters ==
  ASSUME CompletionInv, UNCHANGED <<db, start, comp, outcome>>
  PROVE  CompletionInv'
BY DEF CompletionInv, FinishedIsExplained, db, Exists

\* Storing an event keeps it.
LEMMA EventCompletion ==
  ASSUME TypeOK, CompletionInv, NEW r \in Runs, NEW e \in EventTypes, AddEvent(r, e),
         UNCHANGED <<row, summary, comp, outcome>>,
         \A s \in Runs : start'[s] = "idle" <=> start[s] = "idle"
  PROVE  CompletionInv'
BY DEF TypeOK, CompletionInv, FinishedIsExplained, AddEvent, Exists

\* A status that claims nothing, on a row that exists.
LEMMA StatusCompletion ==
  ASSUME TypeOK, CompletionInv, NEW r \in Runs, NEW s \in {"running", "failed"},
         SetStatus(r, s), UNCHANGED <<events, summary, comp, outcome>>,
         \A q \in Runs : start'[q] = "idle" <=> start[q] = "idle"
  PROVE  CompletionInv'
BY DEF TypeOK, CompletionInv, FinishedIsExplained, SetStatus, Exists, Present, InFlight,
       Finished

\* A deleted row claims nothing.
LEMMA DeleteCompletion ==
  ASSUME TypeOK, CompletionInv, NEW r \in Runs, Exists(r), DeleteRow(r),
         UNCHANGED <<start, comp, outcome>>
  PROVE  CompletionInv'
BY DEF TypeOK, CompletionInv, FinishedIsExplained, DeleteRow, Exists, Present, InFlight,
       Finished

\* The Start handler preserves CompletionInv.
LEMMA StartCompletion ==
  ASSUME TypeOK, CompletionInv, NEW r \in Runs, StartHandler(r) \/ Create(r)
  PROVE  CompletionInv'
<1> USE DEF StepStart, engine, db
<1>1. CASE Create(r)
  BY <1>1 DEF TypeOK, CompletionInv, FinishedIsExplained, Create, Exists, AfterSummary,
     AfterStop
<1>2. CASE Launch(r) \/ LaunchFails(r) \/ Announce(r)
  BY <1>2 DEF TypeOK, CompletionInv, FinishedIsExplained, Launch, LaunchFails, Announce,
     Exists
<1>3. CASE Register(r)
  BY <1>3 DEF TypeOK, CompletionInv, FinishedIsExplained, Register, Exists, AfterSummary,
     AfterStop
<1>4. CASE MarkRunning(r)
  <2>1. \A q \in Runs : start'[q] = "idle" <=> start[q] = "idle"
    BY <1>4 DEF TypeOK, MarkRunning
  <2> QED
    BY <1>4, <2>1, StatusCompletion DEF MarkRunning
<1>5. CASE NoteStart(r)
  <2>1. \A q \in Runs : start'[q] = "idle" <=> start[q] = "idle"
    BY <1>5 DEF TypeOK, NoteStart
  <2> QED
    BY <1>5, <2>1, EventCompletion DEF NoteStart, EventTypes
<1>6. CASE AnnounceNil(r)
  BY <1>6, LoseMemoryCompletion DEF AnnounceNil
<1>7. CASE FailRow(r)
  <2>1. \A q \in Runs : start'[q] = "idle" <=> start[q] = "idle"
    BY <1>7 DEF TypeOK, FailRow
  <2> QED
    BY <1>7, <2>1, StatusCompletion DEF FailRow
<1>8. CASE ExplainFailure(r)
  <2>1. \A q \in Runs : start'[q] = "idle" <=> start[q] = "idle"
    BY <1>8 DEF TypeOK, ExplainFailure
  <2> QED
    BY <1>8, <2>1, EventCompletion DEF ExplainFailure, EventTypes
<1> QED
  BY <1>1, <1>2, <1>3, <1>4, <1>5, <1>6, <1>7, <1>8 DEF StartHandler

\* The completion goroutine and k6 preserve CompletionInv.
LEMMA GoroutineCompletion ==
  ASSUME TypeOK, CompletionInv, NEW r \in Runs,
         Completion(r) \/ K6Exit(r) \/ WatchGivesUp(r)
  PROVE  CompletionInv'
<1> USE DEF StepComp, engine, db, AfterSummary, AfterStop
<1>1. CASE K6Exit(r)
  BY <1>1, CompletionStutters DEF K6Exit
<1>2. CASE WatchGivesUp(r) \/ WaitReturns(r)
  BY <1>2 DEF TypeOK, CompletionInv, FinishedIsExplained, WatchGivesUp, WaitReturns, Exists
<1>3. CASE Decide(r)
  <2>1. Verdict(r) # "none"
    BY DEF Verdict
  <2> QED
    BY <1>3, <2>1 DEF TypeOK, CompletionInv, FinishedIsExplained, Decide, Exists
<1>4. CASE StoreSummary(r)
  BY <1>4 DEF TypeOK, CompletionInv, FinishedIsExplained, StoreSummary, SetSummary, Exists
<1>5. CASE StoreError(r)
  BY <1>5 DEF TypeOK, CompletionInv, FinishedIsExplained, StoreError, AddEvent, Exists
<1>6. CASE StoreStop(r)
  BY <1>6 DEF TypeOK, CompletionInv, FinishedIsExplained, StoreStop, AddEvent, Exists
<1>7. CASE StoreStatus(r)
  <2>1. outcome[r] \in Finished
    BY <1>7 DEF TypeOK, CompletionInv, StoreStatus
  <2> QED
    BY <1>7, <2>1 DEF TypeOK, CompletionInv, FinishedIsExplained, StoreStatus, SetStatus,
       Exists, Present, Finished
<1>8. CASE CloseRaw(r) \/ Unregister(r) \/ Cleanup(r)
  BY <1>8 DEF TypeOK, CompletionInv, FinishedIsExplained, CloseRaw, Unregister, Cleanup,
     Exists
<1> QED
  BY <1>1, <1>2, <1>3, <1>4, <1>5, <1>6, <1>7, <1>8 DEF Completion

\* The Stop, Kill and Delete handlers preserve CompletionInv.
LEMMA CallCompletion ==
  ASSUME TypeOK, CompletionInv, NEW r \in Runs, Requests(r) \/ Answers(r)
  PROVE  CompletionInv'
<1> USE DEF engine
<1>1. CASE Create(r)
  BY <1>1, StartCompletion
<1>2. CASE StopMark(r) \/ KillMark(r) \/ DeleteCheck(r) \/ KillSend(r) \/ KillFails(r)
           \/ DeleteFiles(r)
  BY <1>2, CompletionStutters
     DEF StopMark, KillMark, DeleteCheck, KillSend, KillFails, DeleteFiles
<1>3. CASE StopNote(r)
  BY <1>3, EventCompletion DEF StopNote, EventTypes
<1>4. CASE KillNote(r)
  BY <1>4, EventCompletion DEF KillNote, EventTypes
<1>5. CASE DeleteRun(r)
  <2>1. CASE Exists(r)
    BY <1>5, <2>1, DeleteCompletion DEF DeleteRun
  <2>2. CASE ~Exists(r)
    BY <1>5, <2>2, CompletionStutters DEF DeleteRun
  <2> QED
    BY <2>1, <2>2
<1> QED
  BY <1>1, <1>2, <1>3, <1>4, <1>5 DEF Requests, Answers

\* Retention, shutdown, crashes and start-up preserve CompletionInv.
LEMMA ProcessCompletion ==
  ASSUME TypeOK, CompletionInv, Sweep \/ Shutdown \/ Crash \/ Startup
  PROVE  CompletionInv'
<1> USE DEF engine
<1>1. CASE PruneSelect \/ PruneArtifacts \/ Signal \/ Boot \/ MarkDone \/ CleanOrphans
  BY <1>1, CompletionStutters
     DEF PruneSelect, PruneArtifacts, Signal, Boot, MarkDone, CleanOrphans
<1>2. ASSUME NEW r \in Runs, PruneRun(r)
      PROVE  CompletionInv'
  <2>1. CASE Exists(r)
    BY <1>2, <2>1, DeleteCompletion DEF PruneRun
  <2>2. CASE ~Exists(r)
    BY <1>2, <2>2, CompletionStutters DEF PruneRun
  <2> QED
    BY <2>1, <2>2
<1>3. ASSUME NEW r \in Runs, ShutdownKill(r)
      PROVE  CompletionInv'
  BY <1>3, CompletionStutters DEF ShutdownKill
<1>4. CASE Exit \/ ExitLate \/ Crash
  BY <1>4, LoseMemoryCompletion DEF Exit, ExitLate, Crash
<1>5. ASSUME NEW r \in Runs, MarkFailed(r)
      PROVE  CompletionInv'
  BY <1>5, StatusCompletion DEF MarkFailed
<1>6. CASE MarkExplained
  BY <1>6, EventCompletion DEF TypeOK, MarkExplained, EventTypes
<1> QED
  BY <1>1, <1>2, <1>3, <1>4, <1>5, <1>6 DEF Sweep, Shutdown, Startup

\* CompletionInv holds initially.
LEMMA CompletionInit == Init => CompletionInv
BY DEF Init, CompletionInv, FinishedIsExplained, Exists, Present, InFlight, Finished,
   AfterSummary, AfterStop

\* Every step preserves CompletionInv.
LEMMA CompletionStep ==
  ASSUME TypeOK, CompletionInv, [Next]_vars
  PROVE  CompletionInv'
<1>1. CASE UNCHANGED vars
  BY <1>1, CompletionStutters DEF vars, engine
<1>2. CASE Next
  BY <1>2, StartCompletion, GoroutineCompletion, CallCompletion, ProcessCompletion DEF Next
<1> QED
  BY <1>1, <1>2

\* However handlers, sweeps, crashes and restarts interleave, a run seen
\* completed or aborted has its summary and its stop event.
THEOREM FinishedRunsExplained == Spec => []FinishedIsExplained
<1>1. CompletionInv => FinishedIsExplained
  BY DEF CompletionInv
<1> QED
  BY <1>1, CompletionInit, CompletionStep, TypeCorrect, PTL DEF Spec

-----------------------------------------------------------------------------
(* InFlightIsOwned, and the safety of the refinement of RunStatus, when k6 *)
(* outlives its Start handler.                                             *)

\* A step that only deletes the row of r.
LEMMA DeleteOwner ==
  ASSUME TypeOK, OwnerInv, NEW r \in Runs, Exists(r), DeleteRow(r),
         UNCHANGED <<start, comp, k6, active, phase, toMark>>
  PROVE  OwnerInv'
BY DEF TypeOK, OwnerInv, DeleteRow, Exists, Present, InFlight, Finished, Serving

\* A step that leaves alone what OwnerInv speaks of.
LEMMA OwnerStutters ==
  ASSUME OwnerInv, UNCHANGED <<row, start, comp, k6, active, phase, toMark>>
  PROVE  OwnerInv'
BY DEF OwnerInv, Serving

\* The process is lost: nothing is served, and every row keeps its status for
\* the next start-up.
LEMMA LoseMemoryOwner ==
  ASSUME TypeOK, OwnerInv, LoseMemory, phase' \in {"down", "exited"}
  PROVE  OwnerInv'
BY DEF TypeOK, OwnerInv, LoseMemory, db, k6vars, Serving, BeforeStatus, Held

\* The Start handler preserves OwnerInv.
LEMMA StartOwner ==
  ASSUME TypeOK, CompletionInv, OwnerInv, HandlerFirst = TRUE, NEW r \in Runs,
         StartHandler(r) \/ Create(r)
  PROVE  OwnerInv'
<1> USE DEF StepStart, engine, db, process, k6vars, Serving
<1>1. CASE Create(r)
  BY <1>1 DEF TypeOK, CompletionInv, OwnerInv, Create, InFlight
<1>2. CASE Launch(r)
  BY <1>2 DEF TypeOK, OwnerInv, Launch, InFlight
<1>3. CASE LaunchFails(r)
  BY <1>3 DEF TypeOK, OwnerInv, LaunchFails, InFlight
<1>4. CASE Register(r)
  BY <1>4 DEF TypeOK, OwnerInv, Register, InFlight, BeforeStatus, Held
<1>5. CASE MarkRunning(r)
  BY <1>5 DEF TypeOK, OwnerInv, MarkRunning, SetStatus, Exists, Present, InFlight, Finished
<1>6. CASE NoteStart(r)
  BY <1>6 DEF TypeOK, OwnerInv, NoteStart, InFlight
<1>7. CASE Announce(r)
  BY <1>7 DEF TypeOK, OwnerInv, Announce, InFlight, BeforeStatus
<1>8. CASE AnnounceNil(r)
  BY <1>8, LoseMemoryOwner DEF AnnounceNil
<1>9. CASE FailRow(r)
  BY <1>9 DEF TypeOK, OwnerInv, FailRow, SetStatus, Exists, Present, InFlight, Finished
<1>10. CASE ExplainFailure(r)
  BY <1>10 DEF TypeOK, OwnerInv, ExplainFailure, InFlight, BeforeStatus
<1> QED
  BY <1>1, <1>2, <1>3, <1>4, <1>5, <1>6, <1>7, <1>8, <1>9, <1>10 DEF StartHandler

\* The completion goroutine and k6 preserve OwnerInv: none of them moves past
\* waiting before the Start handler is done.
LEMMA GoroutineOwner ==
  ASSUME TypeOK, CompletionInv, OwnerInv, HandlerFirst = TRUE, NEW r \in Runs,
         Completion(r) \/ K6Exit(r) \/ WatchGivesUp(r)
  PROVE  OwnerInv'
<1> USE DEF StepComp, engine, db, process, k6vars, Serving, BeforeStatus, Held
<1>1. CASE K6Exit(r)
  BY <1>1 DEF TypeOK, OwnerInv, K6Exit
<1>2. CASE WatchGivesUp(r)
  BY <1>2 DEF TypeOK, OwnerInv, WatchGivesUp
<1>3. CASE WaitReturns(r)
  BY <1>3 DEF TypeOK, OwnerInv, WaitReturns
<1>4. CASE Decide(r)
  BY <1>4 DEF TypeOK, OwnerInv, Decide
<1>5. CASE StoreSummary(r)
  BY <1>5 DEF TypeOK, OwnerInv, StoreSummary
<1>6. CASE StoreError(r)
  BY <1>6 DEF TypeOK, OwnerInv, StoreError
<1>7. CASE StoreStop(r)
  BY <1>7 DEF TypeOK, OwnerInv, StoreStop
<1>8. CASE StoreStatus(r)
  <2>1. outcome[r] \in Finished
    BY <1>8 DEF TypeOK, CompletionInv, StoreStatus, AfterSummary
  <2> QED
    BY <1>8, <2>1 DEF TypeOK, OwnerInv, StoreStatus, SetStatus, Exists, Present, InFlight,
       Finished
<1>9. CASE CloseRaw(r)
  BY <1>9 DEF TypeOK, OwnerInv, CloseRaw
<1>10. CASE Unregister(r)
  BY <1>10 DEF TypeOK, OwnerInv, Unregister
<1>11. CASE Cleanup(r)
  BY <1>11 DEF TypeOK, OwnerInv, Cleanup
<1> QED
  BY <1>1, <1>2, <1>3, <1>4, <1>5, <1>6, <1>7, <1>8, <1>9, <1>10, <1>11 DEF Completion

\* The Stop, Kill and Delete handlers preserve OwnerInv.
LEMMA CallOwner ==
  ASSUME TypeOK, CompletionInv, OwnerInv, HandlerFirst = TRUE, NEW r \in Runs,
         Requests(r) \/ Answers(r)
  PROVE  OwnerInv'
<1> USE DEF engine, db, process, k6vars
<1>1. CASE Create(r)
  BY <1>1, StartOwner
<1>2. CASE StopMark(r) \/ KillMark(r) \/ DeleteCheck(r) \/ KillSend(r) \/ KillFails(r)
           \/ DeleteFiles(r) \/ StopNote(r) \/ KillNote(r)
  BY <1>2, OwnerStutters
     DEF StopMark, KillMark, DeleteCheck, KillSend, KillFails, DeleteFiles, StopNote,
         KillNote
<1>3. CASE DeleteRun(r)
  <2>1. CASE Exists(r)
    BY <1>3, <2>1, DeleteOwner DEF DeleteRun
  <2>2. CASE ~Exists(r)
    BY <1>3, <2>2, OwnerStutters DEF DeleteRun
  <2> QED
    BY <2>1, <2>2
<1> QED
  BY <1>1, <1>2, <1>3 DEF Requests, Answers

\* Retention, shutdown, crashes and start-up preserve OwnerInv.
LEMMA ProcessOwner ==
  ASSUME TypeOK, OwnerInv, Sweep \/ Shutdown \/ Crash \/ Startup
  PROVE  OwnerInv'
<1> USE DEF engine, db, process, k6vars
<1>1. CASE PruneSelect \/ PruneArtifacts \/ MarkExplained
  BY <1>1, OwnerStutters DEF PruneSelect, PruneArtifacts, MarkExplained
<1>2. ASSUME NEW r \in Runs, PruneRun(r)
      PROVE  OwnerInv'
  <2>1. CASE Exists(r)
    BY <1>2, <2>1, DeleteOwner DEF PruneRun
  <2>2. CASE ~Exists(r)
    BY <1>2, <2>2, OwnerStutters DEF PruneRun
  <2> QED
    BY <2>1, <2>2
<1>3. ASSUME NEW r \in Runs, ShutdownKill(r)
      PROVE  OwnerInv'
  BY <1>3, OwnerStutters DEF ShutdownKill
<1>4. CASE Signal
  BY <1>4 DEF OwnerInv, Signal, Serving
<1>5. CASE Exit \/ ExitLate \/ Crash
  BY <1>5, LoseMemoryOwner DEF Exit, ExitLate, Crash
<1>6. CASE Boot
  BY <1>6 DEF TypeOK, OwnerInv, Boot, Serving
<1>7. ASSUME NEW r \in Runs, MarkFailed(r)
      PROVE  OwnerInv'
  <2>1. /\ phase = "marking"
        /\ \A q \in Runs : start[q] \in {"idle", "done"} /\ comp[q] = "none"
        /\ start[r] = "done"
    BY <1>7 DEF OwnerInv, MarkFailed, Serving, InFlight
  <2>2. \/ row' = [row EXCEPT ![r] = "failed"]
        \/ row' = row /\ row[r] \notin InFlight
    BY <1>7 DEF MarkFailed, SetStatus, Exists, Present
  <2>3. /\ toMark' = toMark \ {r}
        /\ UNCHANGED <<start, comp, k6, active, phase>>
    BY <1>7 DEF MarkFailed
  <2> QED
    BY <2>1, <2>2, <2>3 DEF TypeOK, OwnerInv, Serving, InFlight, BeforeStatus
<1>8. CASE MarkDone
  BY <1>8 DEF OwnerInv, MarkDone, Serving
<1>9. CASE CleanOrphans
  BY <1>9 DEF TypeOK, OwnerInv, CleanOrphans, Serving
<1> QED
  BY <1>1, <1>2, <1>3, <1>4, <1>5, <1>6, <1>7, <1>8, <1>9 DEF Sweep, Shutdown, Startup

\* The three invariants together, when k6 outlives its Start handler.
THEOREM OwnersKnown ==
  ASSUME HandlerFirst = TRUE
  PROVE  Spec => [](TypeOK /\ CompletionInv /\ OwnerInv)
<1>1. Init => TypeOK /\ CompletionInv
  BY TypeInit, CompletionInit
<1>2. Init => OwnerInv
  BY DEF Init, OwnerInv, Held, BeforeStatus, Serving, InFlight
<1>3. TypeOK /\ CompletionInv /\ OwnerInv /\ [Next]_vars
        => (TypeOK /\ CompletionInv /\ OwnerInv)'
  <2> SUFFICES ASSUME TypeOK, CompletionInv, OwnerInv, [Next]_vars
               PROVE  OwnerInv'
    BY TypeStep, CompletionStep
  <2>1. CASE UNCHANGED vars
    BY <2>1, OwnerStutters DEF vars, db, k6vars, engine, process
  <2>2. CASE Next
    BY <2>2, StartOwner, GoroutineOwner, CallOwner, ProcessOwner DEF Next
  <2> QED
    BY <2>1, <2>2
<1> QED
  BY <1>1, <1>2, <1>3, PTL DEF Spec

\* While requests are served, a queued run has its Start handler and a running
\* one its process in the engine.
THEOREM InFlightOwned ==
  ASSUME HandlerFirst = TRUE
  PROVE  Spec => []InFlightIsOwned
<1>1. TypeOK /\ CompletionInv /\ OwnerInv => InFlightIsOwned
  BY DEF TypeOK, OwnerInv, InFlightIsOwned, InFlight, StartSteps, BeforeStatus, Held
<1> QED
  BY <1>1, OwnersKnown, PTL

\* What a step may do to the status of a run, in the terms of RunStatus.
LEMMA StatusStep ==
  ASSUME TypeOK, CompletionInv, OwnerInv, HandlerFirst = TRUE, [Next]_vars
  PROVE  [Status!Next]_row
<1> USE DEF Status!Next, Status!Settle, Status!Queue, Status!Begin, Status!Finish,
            Status!Reject, Status!Discard, Status!Delete, Status!Move, Status!InFlight,
            Status!Finished
<1>1. ASSUME NEW r \in Runs, Create(r)
      PROVE  Status!Queue(r)
  BY <1>1 DEF Create
<1>2. ASSUME NEW r \in Runs, MarkRunning(r)
      PROVE  Status!Begin(r) \/ UNCHANGED row
  BY <1>2 DEF MarkRunning, StepStart, SetStatus, Exists, Present, InFlight, Finished, OwnerInv
<1>3. ASSUME NEW r \in Runs, FailRow(r)
      PROVE  Status!Reject(r) \/ UNCHANGED row
  BY <1>3 DEF FailRow, StepStart, SetStatus, Exists, Present, InFlight, Finished, OwnerInv
<1>4. ASSUME NEW r \in Runs, StoreStatus(r)
      PROVE  Status!Finish(r) \/ UNCHANGED row
  <2>1. outcome[r] \in {"completed", "failed", "aborted"}
    BY <1>4 DEF TypeOK, CompletionInv, StoreStatus, StepComp, AfterSummary, Finished
  <2>2. row[r] \in {"running", "deleted"}
    BY <1>4 DEF TypeOK, OwnerInv, StoreStatus, StepComp, BeforeStatus, StartSteps
  <2> QED
    BY <1>4, <2>1, <2>2 DEF StoreStatus, SetStatus, Exists, Present, InFlight, Finished
<1>5. ASSUME NEW r \in Runs, MarkFailed(r)
      PROVE  Status!Reject(r) \/ Status!Finish(r) \/ UNCHANGED row
  BY <1>5 DEF MarkFailed, SetStatus, Exists, Present, InFlight, Finished, OwnerInv
<1>6. ASSUME NEW r \in Runs, DeleteRun(r) \/ PruneRun(r)
      PROVE  Status!Discard(r) \/ Status!Delete(r) \/ UNCHANGED row
  BY <1>6 DEF DeleteRun, PruneRun, DeleteRow, Exists, Present, InFlight, Finished, db
<1>7. ASSUME NEW r \in Runs,
             \/ Launch(r) \/ LaunchFails(r) \/ Register(r) \/ NoteStart(r) \/ Announce(r)
             \/ AnnounceNil(r) \/ ExplainFailure(r) \/ K6Exit(r) \/ WatchGivesUp(r)
      PROVE  UNCHANGED row
  BY <1>7 DEF Launch, LaunchFails, Register, NoteStart, Announce, AnnounceNil,
     ExplainFailure, K6Exit, WatchGivesUp, LoseMemory, db
<1>8. ASSUME NEW r \in Runs,
             \/ WaitReturns(r) \/ Decide(r) \/ StoreSummary(r) \/ StoreError(r)
             \/ StoreStop(r) \/ CloseRaw(r) \/ Unregister(r) \/ Cleanup(r)
      PROVE  UNCHANGED row
  BY <1>8 DEF WaitReturns, Decide, StoreSummary, StoreError, StoreStop, CloseRaw,
     Unregister, Cleanup, db
<1>9. ASSUME NEW r \in Runs,
             \/ StopMark(r) \/ KillMark(r) \/ DeleteCheck(r) \/ StopNote(r) \/ KillSend(r)
             \/ KillFails(r) \/ KillNote(r) \/ DeleteFiles(r) \/ ShutdownKill(r)
      PROVE  UNCHANGED row
  BY <1>9 DEF StopMark, KillMark, DeleteCheck, StopNote, KillSend, KillFails, KillNote,
     DeleteFiles, ShutdownKill, db
<1>10. ASSUME \/ PruneSelect \/ PruneArtifacts \/ Signal \/ Exit \/ ExitLate \/ Crash
              \/ Boot \/ MarkExplained \/ MarkDone \/ CleanOrphans \/ UNCHANGED vars
       PROVE  UNCHANGED row
  BY <1>10 DEF PruneSelect, PruneArtifacts, Signal, Exit, ExitLate, Crash, Boot,
     MarkExplained, MarkDone, CleanOrphans, LoseMemory, db, vars
<1>11. CASE \E r \in Runs : StartHandler(r) \/ Requests(r)
  <2>1. PICK r \in Runs : StartHandler(r) \/ Requests(r)
    BY <1>11
  <2> QED
    BY <2>1, <1>1, <1>2, <1>3, <1>7, <1>9 DEF StartHandler, Requests
<1>12. CASE \E r \in Runs : Completion(r) \/ K6Exit(r) \/ WatchGivesUp(r) \/ Answers(r)
  <2>1. PICK r \in Runs : Completion(r) \/ K6Exit(r) \/ WatchGivesUp(r) \/ Answers(r)
    BY <1>12
  <2> QED
    BY <2>1, <1>4, <1>6, <1>7, <1>8, <1>9 DEF Completion, Answers
<1>13. CASE Sweep \/ Shutdown \/ Crash \/ Startup \/ UNCHANGED vars
  BY <1>13, <1>5, <1>6, <1>9, <1>10 DEF Sweep, Shutdown, Startup
<1> QED
  BY <1>11, <1>12, <1>13 DEF Next

\* The handlers, the engine, retention and start-up, all writing the status
\* column without a transaction around it, implement the safety of RunStatus:
\* a finished run is changed by nothing but its deletion.
THEOREM StatusImplemented ==
  ASSUME HandlerFirst = TRUE
  PROVE  Spec => StatusSafety
<1>1. Init => Status!Init
  BY DEF Init, Status!Init
<1>2. TypeOK /\ CompletionInv /\ OwnerInv /\ [Next]_vars => [Status!Next]_row
  BY StatusStep
<1> QED
  BY <1>1, <1>2, OwnersKnown, PTL DEF Spec, StatusSafety

-----------------------------------------------------------------------------
(* EndsAreRecorded: why a run failed, for every configuration, and that a  *)
(* killed run did not complete, for local runs.                            *)

\* A step that leaves alone what FailedInv speaks of.
LEMMA FailedStutters ==
  ASSUME FailedInv, UNCHANGED <<row, events, start, comp, outcome, phase, boots, toMark>>
  PROVE  FailedInv'
BY DEF FailedInv, Exists, Serving

\* The process is lost: nothing is served before the next start-up.
LEMMA LoseMemoryFailed ==
  ASSUME FailedInv, LoseMemory, phase' \in {"down", "exited"}
  PROVE  FailedInv'
BY DEF FailedInv, LoseMemory, Serving

\* Storing an event loses none.
LEMMA EventFailed ==
  ASSUME TypeOK, FailedInv, NEW r \in Runs, NEW e, AddEvent(r, e),
         UNCHANGED <<row, start, comp, outcome, phase, boots, toMark>>
  PROVE  FailedInv'
BY DEF TypeOK, FailedInv, AddEvent, Exists, Serving

\* A row that is deleted has nothing to explain.
LEMMA DeleteFailed ==
  ASSUME TypeOK, FailedInv, NEW r \in Runs, DeleteRow(r),
         UNCHANGED <<start, comp, outcome, phase, boots, toMark>>
  PROVE  FailedInv'
BY DEF TypeOK, FailedInv, DeleteRow, Exists, Serving, Present, InFlight, Finished

\* The Start handler preserves FailedInv.
LEMMA StartFailed ==
  ASSUME TypeOK, CompletionInv, FailedInv, NEW r \in Runs, StartHandler(r) \/ Create(r)
  PROVE  FailedInv'
<1> USE DEF StepStart, engine, db, process, Serving
<1>1. CASE Create(r)
  BY <1>1 DEF TypeOK, CompletionInv, FailedInv, Create, Exists
<1>2. CASE Launch(r) \/ LaunchFails(r) \/ Announce(r)
  BY <1>2 DEF TypeOK, FailedInv, Launch, LaunchFails, Announce, Exists
<1>3. CASE Register(r)
  BY <1>3 DEF TypeOK, FailedInv, Register, Exists
<1>4. CASE MarkRunning(r)
  BY <1>4 DEF TypeOK, FailedInv, MarkRunning, SetStatus, Exists
<1>5. CASE NoteStart(r)
  BY <1>5 DEF TypeOK, FailedInv, NoteStart, AddEvent, Exists
<1>6. CASE AnnounceNil(r)
  BY <1>6, LoseMemoryFailed DEF AnnounceNil
<1>7. CASE FailRow(r)
  BY <1>7 DEF TypeOK, FailedInv, FailRow, SetStatus, Exists
<1>8. CASE ExplainFailure(r)
  BY <1>8 DEF TypeOK, FailedInv, ExplainFailure, AddEvent, Exists, Present, Finished
<1> QED
  BY <1>1, <1>2, <1>3, <1>4, <1>5, <1>6, <1>7, <1>8 DEF StartHandler

\* The completion goroutine and k6 preserve FailedInv: the error event of a
\* failed run is stored two statements before its status.
LEMMA GoroutineFailed ==
  ASSUME TypeOK, FailedInv, NEW r \in Runs, Completion(r) \/ K6Exit(r) \/ WatchGivesUp(r)
  PROVE  FailedInv'
<1> USE DEF StepComp, engine, db, process, Serving
<1>1. CASE K6Exit(r)
  BY <1>1, FailedStutters DEF K6Exit
<1>2. CASE WatchGivesUp(r) \/ WaitReturns(r) \/ Decide(r) \/ StoreSummary(r)
  BY <1>2 DEF TypeOK, FailedInv, WatchGivesUp, WaitReturns, Decide, StoreSummary, Exists
<1>3. CASE StoreError(r)
  BY <1>3 DEF TypeOK, FailedInv, StoreError, AddEvent, Exists
<1>4. CASE StoreStop(r)
  BY <1>4 DEF TypeOK, FailedInv, StoreStop, AddEvent, Exists
<1>5. CASE StoreStatus(r)
  BY <1>5 DEF TypeOK, FailedInv, StoreStatus, SetStatus, Exists
<1>6. CASE CloseRaw(r) \/ Unregister(r) \/ Cleanup(r)
  BY <1>6 DEF TypeOK, FailedInv, CloseRaw, Unregister, Cleanup, Exists
<1> QED
  BY <1>1, <1>2, <1>3, <1>4, <1>5, <1>6 DEF Completion

\* The other handlers, retention, shutdown, crashes and start-up preserve it.
LEMMA OthersFailed ==
  ASSUME TypeOK, FailedInv,
         \/ \E r \in Runs : StopMark(r) \/ KillMark(r) \/ DeleteCheck(r) \/ Answers(r)
         \/ Sweep \/ Shutdown \/ Crash \/ Startup
  PROVE  FailedInv'
<1> USE DEF engine, db, process
<1>1. ASSUME NEW r \in Runs,
             \/ StopMark(r) \/ KillMark(r) \/ DeleteCheck(r) \/ KillSend(r) \/ KillFails(r)
             \/ DeleteFiles(r) \/ ShutdownKill(r)
      PROVE  FailedInv'
  BY <1>1, FailedStutters DEF StopMark, KillMark, DeleteCheck, KillSend, KillFails,
     DeleteFiles, ShutdownKill
<1>2. ASSUME NEW r \in Runs, StopNote(r) \/ KillNote(r)
      PROVE  FailedInv'
  BY <1>2, EventFailed DEF StopNote, KillNote
<1>3. ASSUME NEW r \in Runs, DeleteRun(r) \/ PruneRun(r)
      PROVE  FailedInv'
  <2>1. CASE Exists(r)
    BY <1>3, <2>1, DeleteFailed DEF DeleteRun, PruneRun
  <2>2. CASE ~Exists(r)
    BY <1>3, <2>2, FailedStutters DEF DeleteRun, PruneRun
  <2> QED
    BY <2>1, <2>2
<1>4. CASE Exit \/ ExitLate \/ Crash
  BY <1>4, LoseMemoryFailed DEF Exit, ExitLate, Crash
<1>5. CASE Signal
  BY <1>5 DEF FailedInv, Signal, Serving, Exists
<1>6. CASE Boot
  BY <1>6 DEF TypeOK, FailedInv, Boot
<1>7. ASSUME NEW r \in Runs, MarkFailed(r)
      PROVE  FailedInv'
  BY <1>7 DEF FailedInv, MarkFailed
<1>8. CASE MarkExplained
  BY <1>8, EventFailed DEF TypeOK, MarkExplained
<1>9. CASE MarkDone \/ CleanOrphans
  BY <1>9 DEF FailedInv, MarkDone, CleanOrphans
<1>10. CASE PruneSelect \/ PruneArtifacts
  BY <1>10, FailedStutters DEF PruneSelect, PruneArtifacts
<1> QED
  BY <1>1, <1>2, <1>3, <1>4, <1>5, <1>6, <1>7, <1>8, <1>9, <1>10
     DEF Answers, Sweep, Shutdown, Startup

\* FailedInv holds initially and every step preserves it.
LEMMA FailedInductive ==
  /\ Init => FailedInv
  /\ TypeOK /\ CompletionInv /\ FailedInv /\ [Next]_vars => FailedInv'
<1>1. Init => FailedInv
  BY DEF Init, FailedInv, Exists, Present, InFlight, Finished
<1>2. ASSUME TypeOK, CompletionInv, FailedInv, [Next]_vars
      PROVE  FailedInv'
  <2>1. CASE UNCHANGED vars
    BY <1>2, <2>1, FailedStutters DEF vars, db, engine, process
  <2>2. CASE Next
    BY <1>2, <2>2, StartFailed, GoroutineFailed, OthersFailed DEF Next, Requests
  <2> QED
    BY <1>2, <2>1, <2>2
<1> QED
  BY <1>1, <1>2

\* Before the first restart, a failed run says why: no handler, sweep or signal
\* comes between the event and the status the goroutine writes.
THEOREM FailuresExplained == Spec => []FailedIsExplained
<1>1. FailedInv => FailedIsExplained
  BY DEF FailedInv, FailedIsExplained
<1> QED
  BY <1>1, FailedInductive, CompletionInit, CompletionStep, TypeCorrect, PTL DEF Spec

\* A step that leaves alone what KillInv speaks of, except that k6 may end.
LEMMA KillStutters ==
  ASSUME KillInv, UNCHANGED <<row, start, comp, active, killed, outcome, killCall, killAck>>,
         \A r \in Runs : k6[r] = "exited" => k6'[r] = "exited"
  PROVE  KillInv'
BY DEF KillInv

\* A run that is deleted, or fails, is not one that completed.
LEMMA StatusKill ==
  ASSUME TypeOK, KillInv, NEW r \in Runs, NEW s \in {"running", "failed", "deleted"},
         row' \in {row, [row EXCEPT ![r] = s]},
         UNCHANGED <<k6, start, comp, active, killed, outcome, killCall, killAck>>
  PROVE  KillInv'
BY DEF TypeOK, KillInv

\* The process is lost: nothing is left that could complete a run.
LEMMA LoseMemoryKill ==
  ASSUME TypeOK, KillInv, LoseMemory
  PROVE  KillInv'
BY DEF TypeOK, KillInv, LoseMemory, db, k6vars, Unregistered, BeforeStatus

\* The Start handler preserves KillInv.
LEMMA StartKill ==
  ASSUME TypeOK, CompletionInv, KillInv, NEW r \in Runs, StartHandler(r) \/ Create(r)
  PROVE  KillInv'
<1> USE DEF StepStart, engine, db, calls, k6vars, Unregistered, BeforeStatus
<1>1. CASE Create(r)
  BY <1>1 DEF TypeOK, CompletionInv, KillInv, Create
<1>2. CASE Launch(r)
  BY <1>2 DEF TypeOK, KillInv, Launch
<1>3. CASE LaunchFails(r) \/ NoteStart(r) \/ Announce(r)
  BY <1>3 DEF TypeOK, KillInv, LaunchFails, NoteStart, Announce
<1>4. CASE Register(r)
  BY <1>4 DEF TypeOK, KillInv, Register
<1>5. CASE MarkRunning(r)
  BY <1>5 DEF TypeOK, KillInv, MarkRunning, SetStatus
<1>6. CASE AnnounceNil(r)
  BY <1>6, LoseMemoryKill DEF AnnounceNil
<1>7. CASE FailRow(r)
  BY <1>7 DEF TypeOK, KillInv, FailRow, SetStatus
<1>8. CASE ExplainFailure(r)
  BY <1>8 DEF TypeOK, KillInv, ExplainFailure
<1> QED
  BY <1>1, <1>2, <1>3, <1>4, <1>5, <1>6, <1>7, <1>8 DEF StartHandler

\* The completion goroutine and k6 preserve KillInv: complete finds the mark of
\* a kill that was answered before k6 could end.
LEMMA GoroutineKill ==
  ASSUME TypeOK, KillInv, Mode = "local", NEW r \in Runs,
         Completion(r) \/ K6Exit(r) \/ WatchGivesUp(r)
  PROVE  KillInv'
<1> USE DEF StepComp, engine, db, calls, k6vars, BeforeStatus
<1>1. CASE K6Exit(r)
  BY <1>1, KillStutters DEF TypeOK, K6Exit
<1>2. CASE WatchGivesUp(r)
  BY <1>2 DEF WatchGivesUp
<1>3. CASE WaitReturns(r)
  BY <1>3 DEF TypeOK, KillInv, WaitReturns
<1>4. CASE Decide(r)
  <2>1. r \in killed => Verdict(r) # "completed"
    BY DEF Verdict
  <2> QED
    BY <1>4, <2>1 DEF TypeOK, KillInv, Decide
<1>5. CASE StoreSummary(r) \/ StoreError(r) \/ StoreStop(r)
  BY <1>5 DEF TypeOK, KillInv, StoreSummary, StoreError, StoreStop
<1>6. CASE StoreStatus(r)
  <2>1. /\ k6[r] = "exited" /\ start[r] \notin Unregistered
        /\ r \in killAck => outcome[r] # "completed"
    BY <1>6 DEF KillInv, StoreStatus
  <2>2. /\ row' \in {row, [row EXCEPT ![r] = outcome[r]]}
        /\ comp' = [comp EXCEPT ![r] = "settled"]
        /\ UNCHANGED <<k6, start, active, killed, outcome, killCall, killAck>>
    BY <1>6 DEF StoreStatus, SetStatus
  <2> QED
    BY <2>1, <2>2 DEF TypeOK, KillInv, Unregistered
<1>7. CASE CloseRaw(r) \/ Unregister(r)
  BY <1>7 DEF TypeOK, KillInv, CloseRaw, Unregister
<1>8. CASE Cleanup(r)
  BY <1>8 DEF TypeOK, KillInv, Cleanup
<1> QED
  BY <1>1, <1>2, <1>3, <1>4, <1>5, <1>6, <1>7, <1>8 DEF Completion

\* The Stop, Kill and Delete handlers preserve KillInv: a local kill succeeds
\* only while k6 is alive, so the goroutine is still waiting for it.
LEMMA CallKill ==
  ASSUME TypeOK, KillInv, Mode = "local", NEW r \in Runs,
         StopMark(r) \/ KillMark(r) \/ DeleteCheck(r) \/ Answers(r)
  PROVE  KillInv'
<1> USE DEF engine, db, calls, k6vars
<1>1. CASE StopMark(r) \/ StopNote(r) \/ DeleteCheck(r) \/ DeleteFiles(r)
  BY <1>1, KillStutters DEF StopMark, StopNote, DeleteCheck, DeleteFiles
<1>2. CASE KillMark(r)
  BY <1>2 DEF TypeOK, KillInv, KillMark
<1>3. CASE KillSend(r)
  <2>1. /\ r \in killed /\ comp[r] = "waiting"
        /\ row[r] # "completed" /\ start[r] \notin Unregistered
    BY <1>3 DEF KillInv, KillSend, BeforeStatus
  <2>2. /\ killAck' = killAck \cup {r} /\ killCall' = [killCall EXCEPT ![r] = "noting"]
        /\ UNCHANGED <<row, start, comp, active, killed, outcome, k6>>
    BY <1>3 DEF KillSend
  <2> QED
    BY <2>1, <2>2 DEF TypeOK, KillInv
<1>4. CASE KillFails(r) \/ KillNote(r)
  BY <1>4 DEF TypeOK, KillInv, KillFails, KillNote
<1>5. CASE DeleteRun(r)
  BY <1>5, StatusKill DEF DeleteRun, DeleteRow
<1> QED
  BY <1>1, <1>2, <1>3, <1>4, <1>5 DEF Answers

\* Retention, shutdown, crashes and start-up preserve KillInv.
LEMMA ProcessKill ==
  ASSUME TypeOK, KillInv, Sweep \/ Shutdown \/ Crash \/ Startup
  PROVE  KillInv'
<1> USE DEF engine, db, calls, k6vars
<1>1. CASE PruneSelect \/ PruneArtifacts \/ Signal \/ Boot \/ MarkExplained \/ MarkDone
  BY <1>1, KillStutters DEF PruneSelect, PruneArtifacts, Signal, Boot, MarkExplained, MarkDone
<1>2. ASSUME NEW r \in Runs, PruneRun(r)
      PROVE  KillInv'
  BY <1>2, StatusKill DEF PruneRun, DeleteRow
<1>3. ASSUME NEW r \in Runs, ShutdownKill(r)
      PROVE  KillInv'
  BY <1>3 DEF TypeOK, KillInv, ShutdownKill
<1>4. CASE Exit \/ ExitLate \/ Crash
  BY <1>4, LoseMemoryKill DEF Exit, ExitLate, Crash
<1>5. ASSUME NEW r \in Runs, MarkFailed(r)
      PROVE  KillInv'
  BY <1>5, StatusKill DEF MarkFailed, SetStatus
<1>6. CASE CleanOrphans
  BY <1>6, KillStutters DEF TypeOK, CleanOrphans
<1> QED
  BY <1>1, <1>2, <1>3, <1>4, <1>5, <1>6 DEF Sweep, Shutdown, Startup

\* A local run whose kill was answered 200 is not recorded as one that
\* completed, whatever ends, crashes or restarts in between.
THEOREM KillsRecorded ==
  ASSUME Mode = "local"
  PROVE  Spec => []KillIsRecorded
<1>1. Init => KillInv
  BY DEF Init, KillInv, BeforeStatus
<1>2. TypeOK /\ CompletionInv /\ KillInv /\ [Next]_vars => KillInv'
  <2> SUFFICES ASSUME TypeOK, CompletionInv, KillInv, [Next]_vars
               PROVE  KillInv'
    OBVIOUS
  <2>1. CASE UNCHANGED vars
    BY <2>1, KillStutters DEF vars, db, engine, calls, k6vars
  <2>2. CASE Next
    BY <2>2, StartKill, GoroutineKill, CallKill, ProcessKill DEF Next, Requests
  <2> QED
    BY <2>1, <2>2
<1>3. TypeOK /\ KillInv => KillIsRecorded
  BY DEF TypeOK, KillInv, KillIsRecorded
<1> QED
  BY <1>1, <1>2, <1>3, CompletionInit, CompletionStep, TypeCorrect, PTL DEF Spec

\* Why a local run did not complete is on record.
THEOREM EndsRecorded ==
  ASSUME Mode = "local"
  PROVE  Spec => []EndsAreRecorded
BY FailuresExplained, KillsRecorded, PTL DEF EndsAreRecorded

-----------------------------------------------------------------------------
(* NoOrphans: a live k6 is known to the engine, unless start-up could not  *)
(* or does not clean up after the process that started it.                 *)

\* A step that leaves alone what LiveInv speaks of.
LEMMA LiveStutters ==
  ASSUME LiveInv, UNCHANGED <<k6, start, comp, phase, boots>>
  PROVE  LiveInv'
BY DEF LiveInv, Serving

\* The Start handler preserves LiveInv.
LEMMA StartLive ==
  ASSUME TypeOK, LiveInv, NEW r \in Runs, StartHandler(r) \/ Create(r)
  PROVE  LiveInv'
<1> USE DEF StepStart, engine, process, k6vars, Serving
<1>1. CASE Create(r) \/ LaunchFails(r) \/ MarkRunning(r) \/ NoteStart(r) \/ Announce(r)
           \/ FailRow(r) \/ ExplainFailure(r)
  BY <1>1 DEF TypeOK, LiveInv, Create, LaunchFails, MarkRunning, NoteStart, Announce,
     FailRow, ExplainFailure
<1>2. CASE Launch(r)
  BY <1>2 DEF TypeOK, LiveInv, Launch
<1>3. CASE Register(r)
  BY <1>3 DEF TypeOK, LiveInv, Register
<1>4. CASE AnnounceNil(r)
  BY <1>4 DEF LiveInv, AnnounceNil
<1> QED
  BY <1>1, <1>2, <1>3, <1>4 DEF StartHandler

\* The completion goroutine and k6 preserve LiveInv: the goroutine goes on when
\* k6 is over, unless the cluster's watcher gives up on it.
LEMMA GoroutineLive ==
  ASSUME TypeOK, LiveInv, Mode = "local" \/ "fault" \notin Ops, NEW r \in Runs,
         Completion(r) \/ K6Exit(r) \/ WatchGivesUp(r)
  PROVE  LiveInv'
<1> USE DEF StepComp, engine, process, k6vars, Serving
<1>1. CASE K6Exit(r)
  BY <1>1 DEF TypeOK, LiveInv, K6Exit
<1>2. CASE WatchGivesUp(r)
  BY <1>2, ModeAssumption DEF WatchGivesUp
<1>3. CASE WaitReturns(r) \/ Decide(r) \/ StoreSummary(r) \/ StoreError(r) \/ StoreStop(r)
           \/ StoreStatus(r) \/ CloseRaw(r) \/ Unregister(r)
  BY <1>3 DEF TypeOK, LiveInv, WaitReturns, Decide, StoreSummary, StoreError, StoreStop,
     StoreStatus, CloseRaw, Unregister
<1>4. CASE Cleanup(r)
  BY <1>4 DEF TypeOK, LiveInv, Cleanup
<1> QED
  BY <1>1, <1>2, <1>3, <1>4 DEF Completion

\* The other handlers, retention, shutdown, crashes and start-up preserve it: no
\* TestRun is left when a cluster's control plane serves again.
LEMMA OthersLive ==
  ASSUME TypeOK, FailedInv, LiveInv, Mode = "local" \/ "fault" \notin Ops,
         \/ \E r \in Runs : StopMark(r) \/ KillMark(r) \/ DeleteCheck(r) \/ Answers(r)
         \/ Sweep \/ Shutdown \/ Crash \/ Startup
  PROVE  LiveInv'
<1> USE DEF engine, process, k6vars
<1>1. ASSUME NEW r \in Runs,
             \/ StopMark(r) \/ KillMark(r) \/ DeleteCheck(r) \/ Answers(r) \/ PruneRun(r)
             \/ ShutdownKill(r) \/ MarkFailed(r)
      PROVE  LiveInv'
  BY <1>1, LiveStutters DEF StopMark, KillMark, DeleteCheck, Answers, StopNote, KillSend,
     KillFails, KillNote, DeleteRun, DeleteFiles, PruneRun, ShutdownKill, MarkFailed
<1>2. CASE PruneSelect \/ PruneArtifacts \/ MarkExplained
  BY <1>2, LiveStutters DEF PruneSelect, PruneArtifacts, MarkExplained
<1>3. CASE Signal
  BY <1>3 DEF LiveInv, Signal, Serving
<1>4. CASE Exit \/ ExitLate \/ Crash \/ Boot
  BY <1>4 DEF LiveInv, Exit, ExitLate, Crash, Boot, Serving
<1>5. CASE MarkDone
  BY <1>5, ModeAssumption DEF LiveInv, FailedInv, MarkDone, Serving
<1>6. CASE CleanOrphans
  BY <1>6, ModeAssumption DEF TypeOK, LiveInv, FailedInv, CleanOrphans, Serving
<1> QED
  BY <1>1, <1>2, <1>3, <1>4, <1>5, <1>6 DEF Sweep, Shutdown, Startup

\* LiveInv holds initially and every step preserves it.
LEMMA LiveInductive ==
  ASSUME Mode = "local" \/ "fault" \notin Ops
  PROVE  /\ Init => LiveInv
         /\ TypeOK /\ FailedInv /\ LiveInv /\ [Next]_vars => LiveInv'
<1>1. Init => LiveInv
  BY DEF Init, LiveInv
<1>2. ASSUME TypeOK, FailedInv, LiveInv, [Next]_vars
      PROVE  LiveInv'
  <2>1. CASE UNCHANGED vars
    BY <1>2, <2>1, LiveStutters DEF vars, engine, process, k6vars
  <2>2. CASE Next
    BY <1>2, <2>2, StartLive, GoroutineLive, OthersLive DEF Next, Requests
  <2> QED
    BY <1>2, <2>1, <2>2
<1> QED
  BY <1>1, <1>2

\* The invariants that the theorems on k6 rest on.
LEMMA LiveKnown ==
  ASSUME HandlerFirst = TRUE, Mode = "local" \/ "fault" \notin Ops
  PROVE  Spec => [](TypeOK /\ OwnerInv /\ LiveInv)
BY OwnersKnown, FailedInductive, LiveInductive, PTL DEF Spec

\* A k6 that is alive while requests are served can be reached through the
\* engine, or is about to be: in a cluster whose API answers also after crashes
\* and restarts, and with local runs up to the first restart.
THEOREM LiveFound ==
  ASSUME HandlerFirst = TRUE, Mode = "local" \/ "fault" \notin Ops
  PROVE  Spec => []((Mode = "local" => boots = 0) => LiveIsReachable)
<1>1. TypeOK /\ OwnerInv /\ LiveInv => ((Mode = "local" => boots = 0) => LiveIsReachable)
  BY DEF LiveInv, OwnerInv, LiveIsReachable, Held, BeforeStatus
<1> QED
  BY <1>1, LiveKnown, PTL

\* In a cluster whose API answers, no k6 lives on unknown, and none of a run
\* that a restart has marked failed is alive.
THEOREM NoneOrphaned ==
  ASSUME HandlerFirst = TRUE, Mode = "cluster", "fault" \notin Ops
  PROVE  Spec => []NoOrphans
<1>1. TypeOK /\ OwnerInv /\ LiveInv => NoOrphans
  <2> SUFFICES ASSUME TypeOK, OwnerInv, LiveInv
               PROVE  NoOrphans
    OBVIOUS
  <2>1. LiveIsReachable
    BY DEF LiveInv, OwnerInv, LiveIsReachable, Held, BeforeStatus
  <2>2. ASSUME phase = "up", NEW r \in Runs, k6[r] = "live"
        PROVE  row[r] # "failed"
    <3>1. start[r] = "launched" \/ comp[r] = "waiting"
      BY <2>2 DEF LiveInv, Serving
    <3> QED
      BY <3>1 DEF TypeOK, OwnerInv, StartSteps, BeforeStatus
  <2> QED
    BY <2>1, <2>2 DEF NoOrphans, InterruptedIsDead
<1> QED
  BY <1>1, LiveKnown, PTL

-----------------------------------------------------------------------------
(* ShutdownRecords and RetentionIsRight: what is over stays over.  The     *)
(* lemmas say what a step may do to one run.                               *)

\* A finished row changes no more, and a deleted one does not come back.
LEMMA FinishedStays ==
  ASSUME TypeOK, CompletionInv, OwnerInv, HandlerFirst = TRUE, [Next]_vars,
         NEW r \in Runs, row[r] \in Finished \cup {"deleted"}
  PROVE  row'[r] \in {row[r], "deleted"}
<1>1. [Status!Next]_row
  BY StatusStep
<1>2. row[r] \notin InFlight \cup {"none"}
  BY DEF Finished, InFlight
<1> QED
  BY <1>1, <1>2 DEF TypeOK, InFlight, Finished, Status!Next, Status!Settle, Status!Queue,
     Status!Begin, Status!Finish, Status!Reject, Status!Discard, Status!Delete, Status!Move,
     Status!InFlight, Status!Finished

\* An event that is stored leaves the database only with its row.
LEMMA EventsStay ==
  ASSUME TypeOK, [Next]_vars, NEW r \in Runs
  PROVE  events[r] \subseteq events'[r] \/ row'[r] = "deleted"
<1> USE DEF db, engine
<1>1. ASSUME NEW q \in Runs, NEW e, AddEvent(q, e)
      PROVE  events[r] \subseteq events'[r]
  BY <1>1 DEF TypeOK, AddEvent
<1>2. ASSUME NEW q \in Runs, DeleteRow(q)
      PROVE  events[r] \subseteq events'[r] \/ row'[r] = "deleted"
  BY <1>2 DEF TypeOK, DeleteRow
<1>3. ASSUME NEW q \in Runs, StartHandler(q) \/ Requests(q)
      PROVE  events[r] \subseteq events'[r]
  <2>1. UNCHANGED events \/ AddEvent(q, "start") \/ AddEvent(q, "error")
    BY <1>3 DEF StartHandler, Requests, Create, Launch, LaunchFails, Register, MarkRunning,
       NoteStart, Announce, AnnounceNil, LoseMemory, FailRow, ExplainFailure, StopMark,
       KillMark, DeleteCheck
  <2> QED
    BY <1>1, <2>1
<1>4. ASSUME NEW q \in Runs, Completion(q) \/ K6Exit(q) \/ WatchGivesUp(q)
      PROVE  events[r] \subseteq events'[r]
  <2>1. UNCHANGED events \/ AddEvent(q, "stop") \/ AddEvent(q, "error")
    BY <1>4 DEF Completion, K6Exit, WatchGivesUp, WaitReturns, Decide, StoreSummary,
       StoreError, StoreStop, StoreStatus, CloseRaw, Unregister, Cleanup
  <2> QED
    BY <1>1, <2>1
<1>5. ASSUME NEW q \in Runs, Answers(q) \/ PruneRun(q) \/ ShutdownKill(q) \/ MarkFailed(q)
      PROVE  events[r] \subseteq events'[r] \/ row'[r] = "deleted"
  <2>1. \/ UNCHANGED events \/ DeleteRow(q)
        \/ AddEvent(q, "stop_requested") \/ AddEvent(q, "kill")
    BY <1>5 DEF Answers, StopNote, KillSend, KillFails, KillNote, DeleteRun, DeleteFiles,
       PruneRun, ShutdownKill, MarkFailed
  <2> QED
    BY <1>1, <1>2, <2>1
<1>6. CASE MarkExplained
  BY <1>6, <1>1 DEF TypeOK, MarkExplained
<1>7. CASE \/ PruneSelect \/ PruneArtifacts \/ Signal \/ Exit \/ ExitLate \/ Crash \/ Boot
           \/ MarkDone \/ CleanOrphans \/ UNCHANGED vars
  BY <1>7 DEF PruneSelect, PruneArtifacts, Signal, Exit, ExitLate, Crash, Boot, MarkDone,
     CleanOrphans, LoseMemory, vars
<1> QED
  BY <1>3, <1>4, <1>5, <1>6, <1>7 DEF Next, Sweep, Shutdown, Startup

\* The goroutine passes its last statement by making it.
LEMMA StatusLast ==
  ASSUME TypeOK, [Next]_vars, NEW r \in Runs,
         comp'[r] \in AfterStatus, comp[r] \notin AfterStatus
  PROVE  StoreStatus(r)
<1> USE DEF engine, AfterStatus
<1>1. ASSUME NEW q \in Runs,
             StartHandler(q) \/ Requests(q) \/ Answers(q) \/ K6Exit(q) \/ PruneRun(q)
             \/ ShutdownKill(q) \/ MarkFailed(q)
      PROVE  FALSE
  <2>1. comp' \in {comp, [comp EXCEPT ![q] = "waiting"]} \/ comp' = [s \in Runs |-> "none"]
    BY <1>1 DEF StartHandler, Requests, Answers, Create, Launch, LaunchFails, Register,
       MarkRunning, NoteStart, Announce, AnnounceNil, LoseMemory, FailRow, ExplainFailure,
       StopMark, KillMark, DeleteCheck, StopNote, KillSend, KillFails, KillNote, DeleteRun,
       DeleteFiles, K6Exit, PruneRun, ShutdownKill, MarkFailed
  <2> QED
    BY <2>1 DEF TypeOK
<1>2. ASSUME NEW q \in Runs, Completion(q) \/ WatchGivesUp(q)
      PROVE  StoreStatus(r)
  <2>1. CASE WaitReturns(q) \/ WatchGivesUp(q) \/ Decide(q) \/ StoreSummary(q)
             \/ StoreError(q) \/ StoreStop(q)
    BY <2>1 DEF TypeOK, WaitReturns, WatchGivesUp, Decide, StoreSummary, StoreError,
       StoreStop, StepComp
  <2>2. CASE CloseRaw(q) \/ Unregister(q) \/ Cleanup(q)
    BY <2>2 DEF TypeOK, CloseRaw, Unregister, Cleanup, StepComp
  <2>3. CASE StoreStatus(q)
    BY <2>3 DEF TypeOK, StoreStatus, StepComp
  <2> QED
    BY <1>2, <2>1, <2>2, <2>3 DEF Completion
<1>3. CASE \/ PruneSelect \/ PruneArtifacts \/ Signal \/ Exit \/ ExitLate \/ Crash \/ Boot
           \/ MarkExplained \/ MarkDone \/ CleanOrphans \/ UNCHANGED vars
  BY <1>3 DEF PruneSelect, PruneArtifacts, Signal, Exit, ExitLate, Crash, Boot,
     MarkExplained, MarkDone, CleanOrphans, LoseMemory, vars
<1> QED
  BY <1>1, <1>2, <1>3 DEF Next, Sweep, Shutdown, Startup

\* SettledInv holds initially and every step preserves it.
LEMMA SettledInductive ==
  ASSUME HandlerFirst = TRUE
  PROVE  /\ Init => SettledInv
         /\ TypeOK /\ CompletionInv /\ OwnerInv /\ SettledInv /\ [Next]_vars => SettledInv'
<1>1. Init => SettledInv
  BY DEF Init, SettledInv, AfterStatus
<1>2. ASSUME TypeOK, CompletionInv, OwnerInv, SettledInv, [Next]_vars, NEW r \in Runs,
             comp'[r] \in AfterStatus
      PROVE  row'[r] \in Finished \cup {"deleted"}
  <2>1. CASE comp[r] \in AfterStatus
    BY <1>2, <2>1, FinishedStays DEF SettledInv
  <2>2. CASE comp[r] \notin AfterStatus
    <3>1. StoreStatus(r)
      BY <1>2, <2>2, StatusLast
    <3>2. /\ outcome[r] \in Finished
          /\ row[r] \in {"running", "deleted"}
      BY <1>2, <3>1 DEF TypeOK, CompletionInv, OwnerInv, StoreStatus, StepComp,
         AfterSummary, BeforeStatus, StartSteps
    <3> QED
      BY <1>2, <3>1, <3>2 DEF TypeOK, StoreStatus, SetStatus, Exists, Present, InFlight
  <2> QED
    BY <2>1, <2>2
<1>3. TypeOK /\ CompletionInv /\ OwnerInv /\ SettledInv /\ [Next]_vars => SettledInv'
  BY <1>2 DEF SettledInv
<1> QED
  BY <1>1, <1>3

\* How main returns, and that Shutdown's list is kept until the next start-up.
LEMMA ExitedStep ==
  ASSUME [Next]_vars, phase' = "exited"
  PROVE  Exit \/ (phase = "exited" /\ UNCHANGED victims)
<1> USE DEF process
<1>1. ASSUME NEW r \in Runs,
             StartHandler(r) \/ Requests(r) \/ Answers(r) \/ Completion(r)
      PROVE  phase = "exited" /\ UNCHANGED victims
  BY <1>1 DEF StartHandler, Requests, Answers, Completion, Create, Launch, LaunchFails,
     Register, MarkRunning, NoteStart, Announce, AnnounceNil, FailRow, ExplainFailure,
     StopMark, KillMark, DeleteCheck, StopNote, KillSend, KillFails, KillNote, DeleteRun,
     DeleteFiles, WaitReturns, Decide, StoreSummary, StoreError, StoreStop, StoreStatus,
     CloseRaw, Unregister, Cleanup
<1>2. ASSUME NEW r \in Runs,
             K6Exit(r) \/ WatchGivesUp(r) \/ PruneRun(r) \/ ShutdownKill(r) \/ MarkFailed(r)
      PROVE  phase = "exited" /\ UNCHANGED victims
  BY <1>2 DEF K6Exit, WatchGivesUp, PruneRun, ShutdownKill, MarkFailed
<1>3. CASE \/ PruneSelect \/ PruneArtifacts \/ Signal \/ ExitLate \/ Crash \/ Boot
           \/ MarkExplained \/ MarkDone \/ CleanOrphans \/ UNCHANGED vars
  BY <1>3 DEF PruneSelect, PruneArtifacts, Signal, ExitLate, Crash, Boot, MarkExplained,
     MarkDone, CleanOrphans, vars
<1> QED
  BY <1>1, <1>2, <1>3 DEF Next, Sweep, Shutdown, Startup

\* When Shutdown returns in time, the outcome of every process it waited for is
\* in the database with its stop event, and stays there.
THEOREM ShutdownRecorded ==
  ASSUME HandlerFirst = TRUE
  PROVE  Spec => []ShutdownRecords
<1> DEFINE Recorded(r) == row[r] = "deleted" \/ (row[r] \in Finished /\ "stop" \in events[r])
<1>1. Init => ShutdownRecords
  BY DEF Init, ShutdownRecords
<1>2. ASSUME TypeOK, CompletionInv, OwnerInv, SettledInv, ShutdownRecords, [Next]_vars
      PROVE  ShutdownRecords'
  <2> SUFFICES ASSUME phase' = "exited", NEW r \in victims'
               PROVE  Recorded(r)'
    BY DEF ShutdownRecords
  <2>1. CASE Exit
    <3>1. r \in Runs /\ comp[r] = "finished" /\ UNCHANGED <<row, events>>
      BY <1>2, <2>1 DEF TypeOK, Exit, LoseMemory, db
    <3>2. Recorded(r)
      BY <1>2, <3>1 DEF CompletionInv, SettledInv, AfterStatus, AfterStop, AfterSummary,
         Exists, Present
    <3> QED
      BY <3>1, <3>2
  <2>2. CASE phase = "exited" /\ UNCHANGED victims
    <3>1. r \in Runs /\ Recorded(r)
      BY <1>2, <2>2 DEF TypeOK, ShutdownRecords
    <3>2. row'[r] \in {row[r], "deleted"}
      BY <1>2, <3>1, FinishedStays
    <3>3. events[r] \subseteq events'[r] \/ row'[r] = "deleted"
      BY <1>2, <3>1, EventsStay
    <3> QED
      BY <3>1, <3>2, <3>3
  <2> QED
    BY <1>2, <2>1, <2>2, ExitedStep
<1>3. TypeOK /\ CompletionInv /\ OwnerInv /\ SettledInv /\ ShutdownRecords /\ [Next]_vars
        => ShutdownRecords'
  BY <1>2
<1> QED
  BY <1>1, <1>3, SettledInductive, OwnersKnown, PTL DEF Spec

\* A row is deleted by a Delete request that checked it, or by the sweep.
LEMMA DeletedBy ==
  ASSUME TypeOK, [Next]_vars, NEW r \in Runs, row[r] # "deleted", row'[r] = "deleted"
  PROVE  deleteCall[r] = "checked" \/ PruneRun(r)
<1> USE DEF db
<1>1. ASSUME NEW q \in Runs, NEW s \in Statuses \ {"deleted"}, SetStatus(q, s)
      PROVE  FALSE
  BY <1>1 DEF TypeOK, SetStatus
<1>2. ASSUME NEW q \in Runs, DeleteRow(q)
      PROVE  q = r
  BY <1>2 DEF TypeOK, DeleteRow
<1>3. ASSUME NEW q \in Runs, StartHandler(q) \/ Requests(q)
      PROVE  FALSE
  <2>1. CASE Create(q)
    BY <2>1 DEF TypeOK, Create
  <2>2. CASE StartHandler(q) \/ StopMark(q) \/ KillMark(q) \/ DeleteCheck(q)
    <3>1. UNCHANGED row \/ SetStatus(q, "running") \/ SetStatus(q, "failed")
      BY <2>2 DEF StartHandler, Launch, LaunchFails, Register, MarkRunning, NoteStart,
         Announce, AnnounceNil, LoseMemory, FailRow, ExplainFailure, StopMark, KillMark,
         DeleteCheck
    <3> QED
      BY <1>1, <3>1 DEF Statuses, Present, InFlight, Finished
  <2> QED
    BY <1>3, <2>1, <2>2 DEF Requests
<1>4. ASSUME NEW q \in Runs, Completion(q) \/ K6Exit(q) \/ WatchGivesUp(q)
      PROVE  FALSE
  <2>1. UNCHANGED row \/ SetStatus(q, outcome[q])
    BY <1>4 DEF Completion, K6Exit, WatchGivesUp, WaitReturns, Decide, StoreSummary,
       StoreError, StoreStop, StoreStatus, CloseRaw, Unregister, Cleanup
  <2> QED
    BY <1>1, <2>1 DEF TypeOK, Statuses, Present, InFlight, Finished
<1>5. ASSUME NEW q \in Runs, Answers(q) \/ ShutdownKill(q) \/ MarkFailed(q)
      PROVE  deleteCall[r] = "checked"
  <2>1. \/ UNCHANGED row \/ SetStatus(q, "failed")
        \/ DeleteRow(q) /\ deleteCall[q] = "checked"
    BY <1>5 DEF Answers, StopNote, KillSend, KillFails, KillNote, DeleteRun, DeleteFiles,
       ShutdownKill, MarkFailed
  <2> QED
    BY <1>1, <1>2, <2>1 DEF Statuses, Present, InFlight, Finished
<1>6. ASSUME NEW q \in Runs, PruneRun(q)
      PROVE  PruneRun(r)
  BY <1>2, <1>6 DEF PruneRun
<1>7. CASE \/ PruneSelect \/ PruneArtifacts \/ Signal \/ Exit \/ ExitLate \/ Crash \/ Boot
           \/ MarkExplained \/ MarkDone \/ CleanOrphans \/ UNCHANGED vars
  BY <1>7 DEF PruneSelect, PruneArtifacts, Signal, Exit, ExitLate, Crash, Boot,
     MarkExplained, MarkDone, CleanOrphans, LoseMemory, vars
<1> QED
  BY <1>3, <1>4, <1>5, <1>6, <1>7 DEF Next, Sweep, Shutdown, Startup

\* The list of the sweep only gets shorter, until it is made again.
LEMMA PruneStep ==
  ASSUME [Next]_vars
  PROVE  prune' \subseteq prune \/ PruneSelect
<1> USE DEF sweep
<1>1. ASSUME NEW r \in Runs, StartHandler(r) \/ Requests(r) \/ Answers(r) \/ Completion(r)
      PROVE  prune' \subseteq prune
  BY <1>1 DEF StartHandler, Requests, Answers, Completion, Create, Launch, LaunchFails,
     Register, MarkRunning, NoteStart, Announce, AnnounceNil, LoseMemory, FailRow,
     ExplainFailure, StopMark, KillMark, DeleteCheck, StopNote, KillSend, KillFails,
     KillNote, DeleteRun, DeleteFiles, WaitReturns, Decide, StoreSummary, StoreError,
     StoreStop, StoreStatus, CloseRaw, Unregister, Cleanup
<1>2. ASSUME NEW r \in Runs,
             K6Exit(r) \/ WatchGivesUp(r) \/ PruneRun(r) \/ ShutdownKill(r) \/ MarkFailed(r)
      PROVE  prune' \subseteq prune
  BY <1>2 DEF K6Exit, WatchGivesUp, PruneRun, ShutdownKill, MarkFailed
<1>3. CASE \/ PruneArtifacts \/ Signal \/ Exit \/ ExitLate \/ Crash \/ Boot
           \/ MarkExplained \/ MarkDone \/ CleanOrphans \/ UNCHANGED vars
  BY <1>3 DEF PruneArtifacts, Signal, Exit, ExitLate, Crash, Boot, MarkExplained, MarkDone,
     CleanOrphans, LoseMemory, vars
<1> QED
  BY <1>1, <1>2, <1>3 DEF Next, Sweep, Shutdown, Startup

\* A set of runs within another has no more elements.
LEMMA RunsCardinality ==
  ASSUME NEW T \in SUBSET Runs, NEW S \in SUBSET T, Cardinality(S) >= KeepN
  PROVE  Cardinality(T) >= KeepN
<1>1. IsFiniteSet(Runs)
  BY FS_Interval, RunsAssumption DEF Runs
<1>2. IsFiniteSet(T)
  BY <1>1, FS_Subset
<1>3. /\ Cardinality(S) <= Cardinality(T)
      /\ Cardinality(T) \in Nat
      /\ Cardinality(S) \in Nat
  BY <1>2, FS_Subset, FS_CardinalityType
<1> QED
  BY <1>3, RetentionAssumption

\* PruneInv holds initially and every step preserves it.
LEMMA PruneInductive ==
  ASSUME HandlerFirst = TRUE
  PROVE  /\ Init => PruneInv
         /\ TypeOK /\ CompletionInv /\ OwnerInv /\ PruneInv /\ [Next]_vars => PruneInv'
<1>1. Init => PruneInv
  BY DEF Init, PruneInv
<1>2. ASSUME TypeOK, CompletionInv, OwnerInv, PruneInv, [Next]_vars
      PROVE  PruneInv'
  <2>1. CASE prune' \subseteq prune
    <3> SUFFICES ASSUME NEW r \in prune'
                 PROVE  /\ row'[r] \in Finished \cup {"deleted"}
                        /\ Policy = "keep_last_n" => Cardinality(Newer(r)') >= KeepN
      BY DEF PruneInv
    <3>1. r \in prune /\ r \in Runs
      BY <1>2, <2>1 DEF TypeOK
    <3>2. Newer(r) \subseteq Newer(r)' /\ Newer(r)' \subseteq Runs
      BY <1>2, FinishedStays DEF Newer
    <3> QED
      BY <1>2, <3>1, <3>2, FinishedStays, RunsCardinality DEF PruneInv
  <2>2. CASE PruneSelect
    <3> SUFFICES ASSUME NEW r \in prune'
                 PROVE  /\ row[r] \in Finished
                        /\ Policy = "keep_last_n" => Cardinality(Newer(r)) >= KeepN
      BY <2>2 DEF PruneInv, PruneSelect, db, Newer
    <3>1. prune' \in RunsToPrune
      BY <2>2 DEF PruneSelect
    <3>2. row[r] \in Finished
      BY <3>1 DEF RunsToPrune
    <3>3. Policy = "keep_last_n" => Cardinality(NewerFinished(r)) >= KeepN
      BY <3>1 DEF RunsToPrune
    <3>4. NewerFinished(r) \subseteq Newer(r) /\ Newer(r) \subseteq Runs
      BY DEF NewerFinished, Newer
    <3> QED
      BY <3>2, <3>3, <3>4, RunsCardinality
  <2> QED
    BY <1>2, <2>1, <2>2, PruneStep
<1> QED
  BY <1>1, <1>2

\* The sweep works from a list it made earlier, and still deletes no run in
\* flight: only a Delete request does that.
THEOREM RetentionSpares ==
  ASSUME HandlerFirst = TRUE
  PROVE  Spec => RetentionSparesInFlight
<1>1. ASSUME TypeOK, PruneInv, [Next]_vars, NEW r \in Runs,
             row[r] \in InFlight, row'[r] = "deleted"
      PROVE  deleteCall[r] = "checked"
  <2>1. row[r] \notin Finished \cup {"deleted"}
    BY <1>1 DEF InFlight, Finished
  <2>2. ~PruneRun(r)
    BY <1>1, <2>1 DEF PruneInv, PruneRun
  <2> QED
    BY <1>1, <2>1, <2>2, DeletedBy
<1>2. TypeOK /\ PruneInv /\ [Next]_vars
        => [\A r \in Runs : row[r] \in InFlight /\ row'[r] = "deleted"
                              => deleteCall[r] = "checked"]_vars
  BY <1>1
<1> QED
  BY <1>2, PruneInductive, OwnersKnown, PTL DEF Spec, RetentionSparesInFlight

\* keep_last_n deletes a run only when KeepN newer ones are finished or deleted.
THEOREM RetentionKeeps ==
  ASSUME HandlerFirst = TRUE, Policy = "keep_last_n"
  PROVE  Spec => RetentionKeepsNewest
<1>1. ASSUME TypeOK, PruneInv, [Next]_vars, NEW r \in Runs,
             row[r] # "deleted", row'[r] = "deleted", deleteCall[r] # "checked"
      PROVE  Cardinality(Newer(r)) >= KeepN
  BY <1>1, DeletedBy DEF PruneInv, PruneRun
<1>2. TypeOK /\ PruneInv /\ [Next]_vars
        => [\A r \in Runs :
              (row[r] # "deleted" /\ row'[r] = "deleted" /\ deleteCall[r] # "checked")
                => Cardinality(Newer(r)) >= KeepN]_vars
  BY <1>1
<1> QED
  BY <1>2, PruneInductive, OwnersKnown, PTL DEF Spec, RetentionKeepsNewest

\* A step that neither deletes rows nor stores archives.
LEMMA FilesStutters ==
  ASSUME TypeOK, FilesInv, FailedInv,
         UNCHANGED <<archive, deleteCall, pruneFiles, boots>>,
         Serving' => Serving \/ phase \in {"marking", "cleaning"},
         \A r \in Runs : /\ row'[r] = "deleted" <=> row[r] = "deleted"
                         /\ start'[r] = "inserted" => start[r] = "inserted"
  PROVE  FilesInv'
BY DEF FilesInv, FailedInv

\* The process is lost: nothing is served before the next start-up.
LEMMA LoseMemoryFiles ==
  ASSUME TypeOK, FilesInv, LoseMemory, phase' \in {"down", "exited"}
  PROVE  FilesInv'
BY DEF TypeOK, FilesInv, LoseMemory, db, Serving

\* The Start handler preserves FilesInv: the archive is created while the row
\* is queued.
LEMMA StartFiles ==
  ASSUME TypeOK, CompletionInv, OwnerInv, FailedInv, FilesInv, Store = "dir",
         NEW r \in Runs, StartHandler(r) \/ Create(r)
  PROVE  FilesInv'
<1> USE DEF StepStart, db, process, calls, sweep
<1>1. CASE Create(r)
  BY <1>1 DEF TypeOK, FilesInv, Create, Serving
<1>2. CASE Launch(r)
  BY <1>2 DEF TypeOK, FilesInv, Launch, OpenArchive, Serving
<1>3. CASE LaunchFails(r)
  BY <1>3 DEF TypeOK, FilesInv, LaunchFails, Serving
<1>4. CASE Register(r) \/ NoteStart(r) \/ Announce(r) \/ ExplainFailure(r)
  BY <1>4, FilesStutters
     DEF TypeOK, Register, NoteStart, Announce, ExplainFailure, Serving
<1>5. CASE MarkRunning(r) \/ FailRow(r)
  <2>1. UNCHANGED <<archive, deleteCall, pruneFiles, boots, phase>>
    BY <1>5 DEF MarkRunning, FailRow
  <2>2. \A q \in Runs : row'[q] = "deleted" <=> row[q] = "deleted"
    BY <1>5 DEF TypeOK, MarkRunning, FailRow, SetStatus, Exists, Present, InFlight, Finished
  <2>3. \A q \in Runs : start'[q] = "inserted" => start[q] = "inserted"
    BY <1>5 DEF TypeOK, MarkRunning, FailRow
  <2> QED
    BY <2>1, <2>2, <2>3, FilesStutters DEF Serving
<1>6. CASE AnnounceNil(r)
  BY <1>6, LoseMemoryFiles DEF AnnounceNil
<1> QED
  BY <1>1, <1>2, <1>3, <1>4, <1>5, <1>6 DEF StartHandler

\* The goroutine and k6 preserve FilesInv: closing an archive that is a file
\* already does not bring it back.
LEMMA GoroutineFiles ==
  ASSUME TypeOK, CompletionInv, FailedInv, FilesInv, NEW r \in Runs,
         Completion(r) \/ K6Exit(r) \/ WatchGivesUp(r)
  PROVE  FilesInv'
<1> USE DEF StepComp, db, process, calls, sweep
<1>1. CASE StoreStatus(r)
  <2>1. UNCHANGED <<archive, deleteCall, pruneFiles, boots, phase, start>>
    BY <1>1 DEF StoreStatus
  <2>2. outcome[r] \in Finished
    BY <1>1 DEF TypeOK, CompletionInv, StoreStatus, AfterSummary
  <2>3. \A q \in Runs : row'[q] = "deleted" <=> row[q] = "deleted"
    BY <1>1, <2>2 DEF TypeOK, StoreStatus, SetStatus, Exists, Present, InFlight, Finished
  <2> QED
    BY <2>1, <2>3, FilesStutters DEF Serving
<1>2. CASE CloseRaw(r)
  BY <1>2 DEF TypeOK, FilesInv, CloseRaw, CloseArchive, Serving
<1>3. CASE \/ K6Exit(r) \/ WatchGivesUp(r) \/ WaitReturns(r) \/ Decide(r) \/ StoreSummary(r)
           \/ StoreError(r) \/ StoreStop(r) \/ Unregister(r) \/ Cleanup(r)
  BY <1>3, FilesStutters DEF K6Exit, WatchGivesUp, WaitReturns, Decide, StoreSummary,
     StoreError, StoreStop, Unregister, Cleanup, Serving
<1> QED
  BY <1>1, <1>2, <1>3 DEF Completion

\* The other handlers, the sweep, shutdown, crashes and start-up preserve it.
LEMMA OthersFiles ==
  ASSUME TypeOK, OwnerInv, FailedInv, PruneInv, FilesInv, "delete" \notin Ops,
         \/ \E r \in Runs : StopMark(r) \/ KillMark(r) \/ DeleteCheck(r) \/ Answers(r)
         \/ Sweep \/ Shutdown \/ Crash \/ Startup
  PROVE  FilesInv'
<1> USE DEF db, engine, process, calls, sweep
<1>1. ASSUME NEW r \in Runs,
             \/ StopMark(r) \/ KillMark(r) \/ StopNote(r) \/ KillSend(r) \/ KillFails(r)
             \/ KillNote(r) \/ ShutdownKill(r)
      PROVE  FilesInv'
  BY <1>1, FilesStutters DEF StopMark, KillMark, StopNote, KillSend, KillFails, KillNote,
     ShutdownKill, Serving
<1>2. ASSUME NEW r \in Runs, DeleteCheck(r) \/ DeleteRun(r) \/ DeleteFiles(r)
      PROVE  FALSE
  BY <1>2 DEF FilesInv, DeleteCheck, DeleteRun, DeleteFiles
<1>3. ASSUME NEW r \in Runs, PruneRun(r)
      PROVE  FilesInv'
  <2>1. CASE Exists(r)
    <3>1. row[r] \in Finished /\ start[r] # "inserted"
      BY <1>3, <2>1 DEF PruneInv, OwnerInv, PruneRun, Exists, Present, InFlight, Finished
    <3>2. /\ row' = [row EXCEPT ![r] = "deleted"] /\ pruneFiles = NoRun /\ pruneFiles' = r
          /\ UNCHANGED <<archive, deleteCall, start, phase, boots>>
      BY <1>3, <2>1 DEF PruneRun, DeleteRow
    <3> QED
      BY <3>1, <3>2 DEF TypeOK, FilesInv, Serving, NoRun, Runs
  <2>2. CASE ~Exists(r)
    BY <1>3, <2>2, FilesStutters DEF PruneRun, Serving
  <2> QED
    BY <2>1, <2>2
<1>4. CASE PruneSelect \/ Signal \/ MarkExplained \/ MarkDone \/ CleanOrphans
  BY <1>4, FilesStutters DEF PruneSelect, Signal, MarkExplained, MarkDone, CleanOrphans,
     Serving
<1>5. CASE PruneArtifacts
  BY <1>5 DEF TypeOK, FilesInv, PruneArtifacts, DeleteArtifacts, Serving, NoRun
<1>6. CASE Exit \/ ExitLate \/ Crash
  BY <1>6, LoseMemoryFiles DEF Exit, ExitLate, Crash
<1>7. CASE Boot
  BY <1>7 DEF TypeOK, FilesInv, Boot, Serving
<1>8. ASSUME NEW r \in Runs, MarkFailed(r)
      PROVE  FilesInv'
  <2>1. \A q \in Runs : row'[q] = "deleted" <=> row[q] = "deleted"
    BY <1>8 DEF TypeOK, MarkFailed, SetStatus, Exists, Present, InFlight, Finished
  <2> QED
    BY <1>8, <2>1, FilesStutters DEF MarkFailed, Serving
<1> QED
  BY <1>1, <1>2, <1>3, <1>4, <1>5, <1>6, <1>7, <1>8
     DEF Answers, Sweep, Shutdown, Startup

\* FilesInv holds initially and every step preserves it.
LEMMA FilesInductive ==
  ASSUME HandlerFirst = TRUE, Store = "dir", "delete" \notin Ops
  PROVE  /\ Init => FilesInv
         /\ TypeOK /\ CompletionInv /\ OwnerInv /\ FailedInv /\ PruneInv /\ FilesInv
              /\ [Next]_vars => FilesInv'
<1>1. Init => FilesInv
  BY DEF Init, FilesInv
<1>2. ASSUME TypeOK, CompletionInv, OwnerInv, FailedInv, PruneInv, FilesInv, [Next]_vars
      PROVE  FilesInv'
  <2>1. CASE UNCHANGED vars
    BY <1>2, <2>1, FilesStutters DEF vars, db, process, calls, sweep, Serving
  <2>2. CASE Next
    BY <1>2, <2>2, StartFiles, GoroutineFiles, OthersFiles DEF Next, Requests
  <2> QED
    BY <1>2, <2>1, <2>2
<1> QED
  BY <1>1, <1>2

\* With the directory store and no Delete request, keep_last_n deletes only
\* finished runs, only those beyond the KeepN newest, and their files too.
THEOREM RetentionCorrect ==
  ASSUME HandlerFirst = TRUE, Policy = "keep_last_n", Store = "dir", "delete" \notin Ops
  PROVE  Spec => RetentionIsRight
<1>1. FilesInv => PrunedLeavesNoFiles
  BY DEF FilesInv, PrunedLeavesNoFiles
<1>2. Spec => []PrunedLeavesNoFiles
  BY <1>1, FilesInductive, PruneInductive, FailedInductive, OwnersKnown, PTL DEF Spec
<1> QED
  BY <1>2, RetentionSpares, RetentionKeeps, PTL DEF RetentionIsRight
=============================================================================
