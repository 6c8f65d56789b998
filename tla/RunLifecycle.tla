---------------------------- MODULE RunLifecycle ----------------------------
(***************************************************************************)
(* The life of runs in the control plane, from POST /runs to the last      *)
(* write about them.  Every SQL statement is a step of its own (each is    *)
(* its own transaction), and these threads interleave between them:        *)
(*   - the Start, Stop, Kill and Delete handlers (handlers/runs.go),       *)
(*   - the goroutine StartRun leaves behind, which waits for k6 and then   *)
(*     runs complete and finishRun (engine/engine.go, handlers/runs.go),   *)
(*   - the retention sweep (handlers/settings.go),                         *)
(*   - shutdown, a crash at any point, and the next start-up, which marks  *)
(*     interrupted runs and, in cluster mode, removes orphaned TestRuns.   *)
(* The database and the object store survive a crash; everything else is   *)
(* lost with the process.  k6 is a process (or a TestRun) of its own.      *)
(***************************************************************************)
EXTENDS Naturals, FiniteSets

CONSTANTS
  NRuns,         \* runs 1..NRuns, numbered in the order of created_at
  Mode,          \* "local": a k6 subprocess; "cluster": a k6-operator TestRun
  Store,         \* the artifact store: "dir" or "s3"
  Policy,        \* retention: "keep_all", "keep_last_n" or "keep_days"
  KeepN,         \* retention_count of keep_last_n
  MaxBoots,      \* bound: restarts of the control plane
  Ops,           \* which of UserOps happen in this model
  HandlerFirst   \* environment: k6 outlives the handler that started it

UserOps == {"stop", "kill", "delete", "crash", "shutdown", "fault"}

ASSUME RunsAssumption == NRuns \in Nat \ {0}
ASSUME ModeAssumption == Mode \in {"local", "cluster"} /\ Store \in {"dir", "s3"}
ASSUME RetentionAssumption ==
  Policy \in {"keep_all", "keep_last_n", "keep_days"} /\ KeepN \in Nat \ {0}
ASSUME BoundsAssumption ==
  MaxBoots \in Nat /\ Ops \subseteq UserOps /\ HandlerFirst \in BOOLEAN

Runs     == 1 .. NRuns
NoRun    == 0
InFlight == {"queued", "running"}
Finished == {"completed", "failed", "aborted"}
Present  == InFlight \cup Finished
Statuses == Present \cup {"none", "deleted"}
EventTypes == {"start", "stop", "error", "kill", "stop_requested"}

\* k6 exit codes by what complete makes of them: 0, 99, those that mean
\* "stopped" (103, 105, 108 and negative), and the rest.
ExitCodes == {"zero", "thresholds", "stopped", "other"}

VARIABLES
  \* the database
  row,            \* runs.status, or "none" / "deleted" when there is no row
  events,         \* types in run_events
  summary,        \* runs.summary is set
  \* the artifact store
  archive,        \* the run's samples.jsonl.gz: "none", "open" or "stored"
  \* k6
  k6,             \* "none", "live" or "exited"
  exit,           \* its exit code once the backend's wait can return it
  \* the engine
  active,         \* the keys of Engine.active
  comp,           \* where the run's completion goroutine is
  killed,         \* runs with rp.killed
  stopRequested,  \* runs with rp.stopRequested
  outcome,        \* Result.Status
  \* requests being served
  start, stopCall, killCall, deleteCall,
  killAck,        \* history: runs whose kill was answered 200
  \* the retention sweep: IDs still to delete, and the run whose files are next
  prune, pruneFiles,
  \* the process
  phase,          \* see Phases
  boots,
  toMark, markNext,     \* MarkInterrupted: IDs left, and the one whose event is next
  victims, toKill       \* Shutdown: the processes it found, and those left to kill

db       == <<row, events, summary>>
k6vars   == <<k6, exit>>
engine   == <<active, comp, killed, stopRequested, outcome>>
calls    == <<stopCall, killCall, deleteCall>>
sweep    == <<prune, pruneFiles>>
process  == <<phase, boots, toMark, markNext, victims, toKill>>
vars     == <<db, archive, k6vars, engine, start, calls, killAck, sweep, process>>

Phases == {"marking", "cleaning", "up", "stopping", "exited", "down"}

StartSteps == {"idle", "inserted", "launched", "registered", "noting",
               "announcing", "failing", "explaining", "done"}
CompSteps  == {"none", "waiting", "exited", "decided", "summarised", "explained",
               "stopStored", "settled", "archived", "unregistered", "finished"}

TypeOK ==
  /\ row \in [Runs -> Statuses]
  /\ events \in [Runs -> SUBSET EventTypes]
  /\ summary \in [Runs -> BOOLEAN]
  /\ archive \in [Runs -> {"none", "open", "stored"}]
  /\ k6 \in [Runs -> {"none", "live", "exited"}]
  /\ exit \in [Runs -> ExitCodes \cup {"none"}]
  /\ active \in SUBSET Runs
  /\ comp \in [Runs -> CompSteps]
  /\ killed \in SUBSET Runs
  /\ stopRequested \in SUBSET Runs
  /\ outcome \in [Runs -> Finished \cup {"none"}]
  /\ start \in [Runs -> StartSteps]
  /\ stopCall \in [Runs -> {"idle", "noting"}]
  /\ killCall \in [Runs -> {"idle", "marked", "noting"}]
  /\ deleteCall \in [Runs -> {"idle", "checked", "files"}]
  /\ killAck \in SUBSET Runs
  /\ prune \in SUBSET Runs
  /\ pruneFiles \in Runs \cup {NoRun}
  /\ phase \in Phases
  /\ boots \in Nat
  /\ toMark \in SUBSET Runs
  /\ markNext \in Runs \cup {NoRun}
  /\ victims \in SUBSET Runs
  /\ toKill \in SUBSET Runs

Init ==
  /\ row = [r \in Runs |-> "none"]
  /\ events = [r \in Runs |-> {}]
  /\ summary = [r \in Runs |-> FALSE]
  /\ archive = [r \in Runs |-> "none"]
  /\ k6 = [r \in Runs |-> "none"]
  /\ exit = [r \in Runs |-> "none"]
  /\ active = {}
  /\ comp = [r \in Runs |-> "none"]
  /\ killed = {}
  /\ stopRequested = {}
  /\ outcome = [r \in Runs |-> "none"]
  /\ start = [r \in Runs |-> "idle"]
  /\ stopCall = [r \in Runs |-> "idle"]
  /\ killCall = [r \in Runs |-> "idle"]
  /\ deleteCall = [r \in Runs |-> "idle"]
  /\ killAck = {}
  /\ prune = {}
  /\ pruneFiles = NoRun
  /\ phase = "up"
  /\ boots = 0
  /\ toMark = {}
  /\ markNext = NoRun
  /\ victims = {}
  /\ toKill = {}

-----------------------------------------------------------------------------
(* The run store (db/runs.go).  A statement about a row that is gone       *)
(* changes nothing: UPDATE matches no row, and the foreign key refuses the *)
(* event.                                                                  *)

Exists(r) == row[r] \in Present

SetStatus(r, s) == row' = IF Exists(r) THEN [row EXCEPT ![r] = s] ELSE row

AddEvent(r, e) ==
  events' = IF Exists(r) THEN [events EXCEPT ![r] = @ \cup {e}] ELSE events

SetSummary(r) ==
  summary' = IF Exists(r) THEN [summary EXCEPT ![r] = TRUE] ELSE summary

\* DELETE FROM runs, with the ON DELETE CASCADE of run_events.
DeleteRow(r) ==
  /\ row' = [row EXCEPT ![r] = "deleted"]
  /\ events' = [events EXCEPT ![r] = {}]
  /\ summary' = [summary EXCEPT ![r] = FALSE]

(* The artifact store: an archive is stored when its writer is closed; the *)
(* directory store shows the file from the moment it is created.           *)

OpenArchive(r) ==
  archive' = [archive EXCEPT ![r] = IF Store = "dir" THEN "stored" ELSE "open"]

CloseArchive(r) == archive' = [archive EXCEPT ![r] = IF @ = "open" THEN "stored" ELSE @]

DeleteArtifacts(r) == archive' = [archive EXCEPT ![r] = IF @ = "stored" THEN "none" ELSE @]

-----------------------------------------------------------------------------
(* The process: what a crash leaves of it, and what it serves.             *)

Serving == phase \in {"up", "stopping"}

\* Only the database, the artifact store and k6 outlive the process.
LoseMemory ==
  /\ archive' = [r \in Runs |-> IF archive[r] = "open" THEN "none" ELSE archive[r]]
  /\ active' = {}
  /\ comp' = [r \in Runs |-> "none"]
  /\ killed' = {}
  /\ stopRequested' = {}
  /\ outcome' = [r \in Runs |-> "none"]
  /\ start' = [r \in Runs |-> IF start[r] = "idle" THEN "idle" ELSE "done"]
  /\ stopCall' = [r \in Runs |-> "idle"]
  /\ killCall' = [r \in Runs |-> "idle"]
  /\ deleteCall' = [r \in Runs |-> "idle"]
  /\ prune' = {}
  /\ pruneFiles' = NoRun
  /\ toMark' = {}
  /\ markNext' = NoRun
  /\ toKill' = {}
  /\ UNCHANGED <<db, k6vars, killAck, boots, victims>>

-----------------------------------------------------------------------------
(* The Start handler.                                                      *)

StepStart(r, from, to) ==
  /\ start[r] = from
  /\ start' = [start EXCEPT ![r] = to]

\* The request was valid and compiled: runs.Create inserts the row.
Create(r) ==
  /\ Serving
  /\ \A p \in 1 .. (r - 1) : row[p] # "none"
  /\ row[r] = "none"
  /\ row' = [row EXCEPT ![r] = "queued"]
  /\ StepStart(r, "idle", "inserted")
  /\ UNCHANGED <<events, summary, archive, k6vars, engine, calls, killAck, sweep, process>>

\* Engine.StartRun up to the backend's return: k6 is running, or the TestRun
\* is submitted.  An archive that cannot be opened is only logged.
Launch(r) ==
  /\ StepStart(r, "inserted", "launched")
  /\ k6' = [k6 EXCEPT ![r] = "live"]
  /\ OpenArchive(r) \/ ("fault" \in Ops /\ UNCHANGED archive)
  /\ UNCHANGED <<db, exit, engine, calls, killAck, sweep, process>>

\* StartRun refuses the number of instances, or the backend fails to start
\* (then closeRaw closes, and so stores, the empty archive).
LaunchFails(r) ==
  /\ "fault" \in Ops
  /\ StepStart(r, "inserted", "failing")
  /\ archive' \in {archive, [archive EXCEPT ![r] = "stored"]}
  /\ UNCHANGED <<db, k6vars, engine, calls, killAck, sweep, process>>

\* The end of StartRun: e.active[id] = rp, and the two goroutines.
Register(r) ==
  /\ StepStart(r, "launched", "registered")
  /\ active' = active \cup {r}
  /\ comp' = [comp EXCEPT ![r] = "waiting"]
  /\ UNCHANGED <<db, archive, k6vars, killed, stopRequested, outcome, calls, killAck,
                 sweep, process>>

MarkRunning(r) ==
  /\ StepStart(r, "registered", "noting")
  /\ SetStatus(r, "running")
  /\ UNCHANGED <<events, summary, archive, k6vars, engine, calls, killAck, sweep, process>>

NoteStart(r) ==
  /\ StepStart(r, "noting", "announcing")
  /\ AddEvent(r, "start")
  /\ UNCHANGED <<row, summary, archive, k6vars, engine, calls, killAck, sweep, process>>

\* The row is read again and the notifier told.  Get returns a nil run when
\* the row is gone, and the notifier's goroutine dereferences it: a panic
\* there ends the process.
Announce(r) ==
  /\ Exists(r)
  /\ StepStart(r, "announcing", "done")
  /\ UNCHANGED <<db, archive, k6vars, engine, calls, killAck, sweep, process>>

AnnounceNil(r) ==
  /\ start[r] = "announcing"
  /\ ~Exists(r)
  /\ phase' = "down"
  /\ LoseMemory

\* StartRun failed: the status, then the event that explains it.
FailRow(r) ==
  /\ StepStart(r, "failing", "explaining")
  /\ SetStatus(r, "failed")
  /\ UNCHANGED <<events, summary, archive, k6vars, engine, calls, killAck, sweep, process>>

ExplainFailure(r) ==
  /\ StepStart(r, "explaining", "done")
  /\ AddEvent(r, "error")
  /\ UNCHANGED <<row, summary, archive, k6vars, engine, calls, killAck, sweep, process>>

-----------------------------------------------------------------------------
(* k6, and the goroutine that waits for it.                                *)

\* k6 ends, by itself or because it was told to.  HandlerFirst states the
\* timing the Start handler relies on: its last statements are quicker than
\* the shortest k6 run.
K6Exit(r) ==
  /\ k6[r] = "live"
  /\ HandlerFirst => start[r] = "done"
  /\ k6' = [k6 EXCEPT ![r] = "exited"]
  /\ \E code \in ExitCodes : exit' = [exit EXCEPT ![r] = code]
  /\ UNCHANGED <<db, archive, engine, start, calls, killAck, sweep, process>>

StepComp(r, from, to) ==
  /\ comp[r] = from
  /\ comp' = [comp EXCEPT ![r] = to]

\* backend.wait returns and rp.exited is closed.
WaitReturns(r) ==
  /\ k6[r] = "exited"
  /\ StepComp(r, "waiting", "exited")
  /\ UNCHANGED <<db, archive, k6vars, active, killed, stopRequested, outcome, start,
                 calls, killAck, sweep, process>>

\* The cluster watcher gives up on workers that never started (StartTimeout):
\* wait returns -1 while the TestRun still exists.
WatchGivesUp(r) ==
  /\ Mode = "cluster" /\ "fault" \in Ops
  /\ k6[r] = "live"
  /\ HandlerFirst => start[r] = "done"
  /\ StepComp(r, "waiting", "exited")
  /\ exit' = [exit EXCEPT ![r] = "stopped"]
  /\ UNCHANGED <<db, archive, k6, active, killed, stopRequested, outcome, start, calls,
                 killAck, sweep, process>>

\* Mutants: the exit code is looked at before the kill; the code is stored raw.
Verdict_ExitFirst(r) ==
  IF exit[r] \in {"zero", "thresholds"} THEN "completed"
  ELSE IF r \in killed THEN "aborted" ELSE "failed"

Verdict_Raw(r) == exit[r]

\* Result.Status as complete computes it.
Verdict(r) ==
  IF r \in killed THEN "aborted"
  ELSE IF \/ exit[r] \in {"zero", "thresholds"}
          \/ exit[r] = "stopped" /\ r \in stopRequested
       THEN "completed"
       ELSE "failed"

\* complete reads rp.killed and rp.stopRequested, under the lock, and decides.
Decide(r) ==
  /\ StepComp(r, "exited", "decided")
  /\ outcome' = [outcome EXCEPT ![r] = Verdict(r)]
  /\ UNCHANGED <<db, archive, k6vars, active, killed, stopRequested, start, calls,
                 killAck, sweep, process>>

\* finishRun: the summary, the events, then the status.
StoreSummary(r) ==
  /\ StepComp(r, "decided", "summarised")
  /\ SetSummary(r)
  /\ UNCHANGED <<row, events, archive, k6vars, active, killed, stopRequested, outcome,
                 start, calls, killAck, sweep, process>>

\* Mutant: the status is written before the events.
StoreError_StatusFirst(r) ==
  /\ StepComp(r, "summarised", "explained")
  /\ SetStatus(r, outcome[r])
  /\ UNCHANGED <<events, summary, archive, k6vars, active, killed, stopRequested, outcome,
                 start, calls, killAck, sweep, process>>

\* Only a failed run has an error event.
StoreError(r) ==
  /\ StepComp(r, "summarised", "explained")
  /\ IF outcome[r] = "failed" THEN AddEvent(r, "error") ELSE UNCHANGED events
  /\ UNCHANGED <<row, summary, archive, k6vars, active, killed, stopRequested, outcome,
                 start, calls, killAck, sweep, process>>

StoreStop(r) ==
  /\ StepComp(r, "explained", "stopStored")
  /\ AddEvent(r, "stop")
  /\ UNCHANGED <<row, summary, archive, k6vars, active, killed, stopRequested, outcome,
                 start, calls, killAck, sweep, process>>

StoreStatus(r) ==
  /\ StepComp(r, "stopStored", "settled")
  /\ SetStatus(r, outcome[r])
  /\ UNCHANGED <<events, summary, archive, k6vars, active, killed, stopRequested, outcome,
                 start, calls, killAck, sweep, process>>

CloseRaw(r) ==
  /\ StepComp(r, "settled", "archived")
  /\ CloseArchive(r)
  /\ UNCHANGED <<db, k6vars, active, killed, stopRequested, outcome, start, calls, killAck,
                 sweep, process>>

\* Mutant: the run stays in the engine's map.
Unregister_Forgets(r) ==
  /\ StepComp(r, "archived", "unregistered")
  /\ UNCHANGED <<db, archive, k6vars, active, killed, stopRequested, outcome, start, calls,
                 killAck, sweep, process>>

Unregister(r) ==
  /\ StepComp(r, "archived", "unregistered")
  /\ active' = active \ {r}
  /\ UNCHANGED <<db, archive, k6vars, killed, stopRequested, outcome, start, calls,
                 killAck, sweep, process>>

\* backend.cleanup, then rp.finished is closed.  In a cluster it deletes the
\* TestRun; a failure to do so is only logged.
Cleanup(r) ==
  /\ StepComp(r, "unregistered", "finished")
  /\ \/ k6' = [k6 EXCEPT ![r] = "exited"]
     \/ "fault" \in Ops /\ UNCHANGED k6
  /\ UNCHANGED <<db, archive, exit, active, killed, stopRequested, outcome, start, calls,
                 killAck, sweep, process>>

-----------------------------------------------------------------------------
(* The Stop and Kill handlers.                                             *)

\* Engine.StopRun finds the run and sets rp.stopRequested.
StopMark(r) ==
  /\ "stop" \in Ops /\ Serving
  /\ r \in active /\ stopCall[r] = "idle" /\ r \notin stopRequested
  /\ stopRequested' = stopRequested \cup {r}
  /\ stopCall' = [stopCall EXCEPT ![r] = "noting"]
  /\ UNCHANGED <<db, archive, k6vars, active, comp, killed, outcome, start, killCall,
                 deleteCall, killAck, sweep, process>>

StopNote(r) ==
  /\ stopCall[r] = "noting"
  /\ AddEvent(r, "stop_requested")
  /\ stopCall' = [stopCall EXCEPT ![r] = "idle"]
  /\ UNCHANGED <<row, summary, archive, k6vars, engine, start, killCall, deleteCall,
                 killAck, sweep, process>>

\* Engine.KillRun finds the run and sets rp.killed ...
KillMark(r) ==
  /\ "kill" \in Ops /\ Serving
  /\ r \in active /\ killCall[r] = "idle" /\ r \notin killAck
  /\ killed' = killed \cup {r}
  /\ killCall' = [killCall EXCEPT ![r] = "marked"]
  /\ UNCHANGED <<db, archive, k6vars, active, comp, stopRequested, outcome, start,
                 stopCall, deleteCall, killAck, sweep, process>>

\* ... then kills: a local process must still be there, a TestRun that is
\* gone counts as deleted.
KillSend(r) ==
  /\ killCall[r] = "marked"
  /\ Mode = "local" => k6[r] = "live"
  /\ killAck' = killAck \cup {r}
  /\ killCall' = [killCall EXCEPT ![r] = "noting"]
  /\ UNCHANGED <<db, archive, k6vars, engine, start, stopCall, deleteCall, sweep, process>>

\* The backend's kill fails (the process is gone, the cluster's API does not
\* answer): 409, and rp.killed stays set.
KillFails(r) ==
  /\ killCall[r] = "marked"
  /\ IF Mode = "local" THEN k6[r] = "exited" ELSE "fault" \in Ops
  /\ killCall' = [killCall EXCEPT ![r] = "idle"]
  /\ UNCHANGED <<db, archive, k6vars, engine, start, stopCall, deleteCall, killAck, sweep,
                 process>>

KillNote(r) ==
  /\ killCall[r] = "noting"
  /\ AddEvent(r, "kill")
  /\ killCall' = [killCall EXCEPT ![r] = "idle"]
  /\ UNCHANGED <<row, summary, archive, k6vars, engine, start, stopCall, deleteCall,
                 killAck, sweep, process>>

-----------------------------------------------------------------------------
(* The Delete handler and the retention sweep.                             *)

DeleteCheck(r) ==
  /\ "delete" \in Ops /\ Serving
  /\ Exists(r) /\ deleteCall[r] = "idle"
  /\ r \notin active
  /\ deleteCall' = [deleteCall EXCEPT ![r] = "checked"]
  /\ UNCHANGED <<db, archive, k6vars, engine, start, stopCall, killCall, killAck, sweep,
                 process>>

\* runs.Delete; a row that is gone meanwhile is a 404.
DeleteRun(r) ==
  /\ deleteCall[r] = "checked"
  /\ IF Exists(r)
     THEN DeleteRow(r) /\ deleteCall' = [deleteCall EXCEPT ![r] = "files"]
     ELSE UNCHANGED db /\ deleteCall' = [deleteCall EXCEPT ![r] = "idle"]
  /\ UNCHANGED <<archive, k6vars, engine, start, stopCall, killCall, killAck, sweep, process>>

DeleteFiles(r) ==
  /\ deleteCall[r] = "files"
  /\ DeleteArtifacts(r)
  /\ deleteCall' = [deleteCall EXCEPT ![r] = "idle"]
  /\ UNCHANGED <<db, k6vars, engine, start, stopCall, killCall, killAck, sweep, process>>

NewerFinished(r) == {s \in Runs : s > r /\ row[s] \in Finished}

\* Mutant: one run too many.
RunsToPrune_OneMore ==
  {{r \in Runs : row[r] \in Finished /\ Cardinality(NewerFinished(r)) >= KeepN - 1}}

\* The sets RunsToPrune may return: all but the KeepN newest finished runs, or
\* the finished ones created before some cutoff.
RunsToPrune ==
  LET finished == {r \in Runs : row[r] \in Finished}
      beyond   == {r \in finished : Cardinality(NewerFinished(r)) >= KeepN}
      before   == {{r \in finished : r < cutoff} : cutoff \in 1 .. (NRuns + 1)}
  IN IF Policy = "keep_last_n" THEN {beyond}
     ELSE IF Policy = "keep_days" THEN before ELSE {}

\* ApplyRetention, hourly or by the Cleanup button.
PruneSelect ==
  /\ Serving
  /\ prune = {} /\ pruneFiles = NoRun
  /\ prune' \in RunsToPrune \ {{}}
  /\ UNCHANGED <<db, archive, k6vars, engine, start, calls, killAck, pruneFiles, process>>

PruneRun(r) ==
  /\ r \in prune /\ pruneFiles = NoRun
  /\ prune' = prune \ {r}
  /\ IF Exists(r)
     THEN DeleteRow(r) /\ pruneFiles' = r
     ELSE UNCHANGED db /\ UNCHANGED pruneFiles
  /\ UNCHANGED <<archive, k6vars, engine, start, calls, killAck, process>>

PruneArtifacts ==
  /\ pruneFiles # NoRun
  /\ DeleteArtifacts(pruneFiles)
  /\ pruneFiles' = NoRun
  /\ UNCHANGED <<db, k6vars, engine, start, calls, killAck, prune, process>>

-----------------------------------------------------------------------------
(* Shutdown, crashes and start-up (cmd/server/main.go).                    *)

\* SIGTERM: Engine.Shutdown lists the active processes; requests are still
\* served until it returns.
Signal ==
  /\ "shutdown" \in Ops /\ phase = "up" /\ boots < MaxBoots
  /\ phase' = "stopping"
  /\ victims' = active
  /\ toKill' = active
  /\ UNCHANGED <<db, archive, k6vars, engine, start, calls, killAck, sweep, boots, toMark,
                 markNext>>

ShutdownKill(r) ==
  /\ phase = "stopping" /\ r \in toKill
  /\ toKill' = toKill \ {r}
  /\ killed' = killed \cup {r}
  /\ UNCHANGED <<db, archive, k6vars, active, comp, stopRequested, outcome, start, calls,
                 killAck, sweep, phase, boots, toMark, markNext, victims>>

\* Mutant: Shutdown does not wait for the completion callbacks.
Exit_Early ==
  /\ phase = "stopping" /\ toKill = {}
  /\ phase' = "exited"
  /\ LoseMemory

\* Every process Shutdown waits for has finished: the server is closed and
\* main returns.
Exit ==
  /\ phase = "stopping" /\ toKill = {}
  /\ \A r \in victims : comp[r] = "finished"
  /\ phase' = "exited"
  /\ LoseMemory

\* Shutdown's deadline passes first.
ExitLate ==
  /\ phase = "stopping" /\ toKill = {}
  /\ phase' = "down"
  /\ LoseMemory

Crash ==
  /\ "crash" \in Ops /\ boots < MaxBoots
  /\ phase \notin {"down", "exited"}
  /\ phase' = "down"
  /\ LoseMemory

\* Mutants: queued runs are forgotten; finished runs are marked too.
Boot_Selecting(rows) ==
  /\ phase \in {"down", "exited"}
  /\ phase' = "marking"
  /\ boots' = boots + 1
  /\ toMark' = {r \in Runs : row[r] \in rows}
  /\ victims' = {}
  /\ UNCHANGED <<db, archive, k6vars, engine, start, calls, killAck, sweep, markNext, toKill>>

Boot_RunningOnly == Boot_Selecting({"running"})
Boot_EveryRow    == Boot_Selecting(Present)

\* MarkInterrupted selects the runs in flight ...
Boot ==
  /\ phase \in {"down", "exited"}
  /\ phase' = "marking"
  /\ boots' = boots + 1
  /\ toMark' = {r \in Runs : row[r] \in InFlight}
  /\ victims' = {}
  /\ UNCHANGED <<db, archive, k6vars, engine, start, calls, killAck, sweep, markNext, toKill>>

\* ... and for each writes the status, then the event that explains it.
MarkFailed(r) ==
  /\ r \in toMark /\ markNext = NoRun
  /\ SetStatus(r, "failed")
  /\ toMark' = toMark \ {r}
  /\ markNext' = r
  /\ UNCHANGED <<events, summary, archive, k6vars, engine, start, calls, killAck, sweep,
                 phase, boots, victims, toKill>>

MarkExplained ==
  /\ markNext # NoRun
  /\ AddEvent(markNext, "error")
  /\ markNext' = NoRun
  /\ UNCHANGED <<row, summary, archive, k6vars, engine, start, calls, killAck, sweep,
                 phase, boots, toMark, victims, toKill>>

MarkDone ==
  /\ phase = "marking" /\ toMark = {} /\ markNext = NoRun
  /\ phase' = IF Mode = "cluster" THEN "cleaning" ELSE "up"
  /\ UNCHANGED <<db, archive, k6vars, engine, start, calls, killAck, sweep, boots, toMark,
                 markNext, victims, toKill>>

\* Mutant: orphans are left alone.
CleanOrphans_Not ==
  /\ phase = "cleaning"
  /\ phase' = "up"
  /\ UNCHANGED <<db, archive, k6vars, engine, start, calls, killAck, sweep, boots, toMark,
                 markNext, victims, toKill>>

\* CleanupOrphans deletes the TestRuns of the last process; an error is only
\* logged.
CleanOrphans ==
  /\ phase = "cleaning"
  /\ phase' = "up"
  /\ \/ k6' = [r \in Runs |-> IF k6[r] = "live" THEN "exited" ELSE k6[r]]
     \/ "fault" \in Ops /\ UNCHANGED k6
  /\ UNCHANGED <<db, archive, exit, engine, start, calls, killAck, sweep, boots, toMark,
                 markNext, victims, toKill>>

-----------------------------------------------------------------------------

StartHandler(r) ==
  \/ Launch(r) \/ LaunchFails(r) \/ Register(r)
  \/ MarkRunning(r) \/ NoteStart(r) \/ Announce(r) \/ AnnounceNil(r)
  \/ FailRow(r) \/ ExplainFailure(r)

Completion(r) ==
  \/ WaitReturns(r) \/ Decide(r) \/ StoreSummary(r) \/ StoreError(r)
  \/ StoreStop(r) \/ StoreStatus(r) \/ CloseRaw(r) \/ Unregister(r) \/ Cleanup(r)

Requests(r) ==
  \/ Create(r) \/ StopMark(r) \/ KillMark(r) \/ DeleteCheck(r)

Answers(r) ==
  \/ StopNote(r) \/ KillSend(r) \/ KillFails(r) \/ KillNote(r)
  \/ DeleteRun(r) \/ DeleteFiles(r)

Sweep    == PruneSelect \/ PruneArtifacts \/ \E r \in Runs : PruneRun(r)
Shutdown == Signal \/ Exit \/ ExitLate \/ \E r \in Runs : ShutdownKill(r)
Startup  == Boot \/ MarkExplained \/ MarkDone \/ CleanOrphans \/ \E r \in Runs : MarkFailed(r)

Next ==
  \/ \E r \in Runs : \/ StartHandler(r) \/ Completion(r)
                     \/ K6Exit(r) \/ WatchGivesUp(r)
                     \/ Requests(r) \/ Answers(r)
  \/ Sweep \/ Shutdown \/ Crash \/ Startup

\* The scheduler runs every goroutine, k6 ends (every run has a duration or is
\* stopped), and the supervisor restarts the control plane.  Nothing is
\* assumed about users, signals or crashes.
Fairness ==
  /\ \A r \in Runs : /\ WF_vars(StartHandler(r))
                     /\ WF_vars(Completion(r))
                     /\ WF_vars(K6Exit(r))
                     /\ WF_vars(Answers(r))
  /\ WF_vars(PruneArtifacts \/ \E r \in Runs : PruneRun(r))
  /\ WF_vars(Exit \/ ExitLate \/ \E r \in Runs : ShutdownKill(r))
  /\ WF_vars(Startup)

Spec == Init /\ [][Next]_vars
FairSpec == Spec /\ Fairness
-----------------------------------------------------------------------------
(* Properties.                                                             *)

\* Whoever sees a run completed or aborted also sees its summary and its stop
\* event, whatever other handlers, sweeps and restarts did to it (finishRun
\* writes "events first, then the status").
FinishedIsExplained ==
  \A r \in Runs : row[r] \in {"completed", "aborted"} => summary[r] /\ "stop" \in events[r]

\* The inductive form of FinishedIsExplained: what the completion goroutine has
\* stored by each of its steps, for as long as the row exists.
AfterSummary == {"summarised", "explained", "stopStored", "settled", "archived",
                 "unregistered", "finished"}
AfterStop    == AfterSummary \ {"summarised", "explained"}

CompletionInv ==
  /\ FinishedIsExplained
  /\ \A r \in Runs :
       /\ row[r] = "none" => start[r] = "idle" /\ comp[r] = "none"
       /\ comp[r] \in AfterSummary \cup {"decided"} => outcome[r] # "none"
       /\ Exists(r) /\ comp[r] \in AfterSummary => summary[r]
       /\ Exists(r) /\ comp[r] \in AfterStop => "stop" \in events[r]

\* A run that failed says why, unless the process was lost between the two
\* statements that write the status and the reason (MarkInterrupted and the
\* failure path of Start write them in that order).
FailedIsExplained ==
  \A r \in Runs :
    (row[r] = "failed" /\ boots = 0 /\ Serving)
      => "error" \in events[r] \/ start[r] = "explaining"

\* The inductive form of FailedIsExplained: before the first restart no row is
\* being marked, and the goroutine stores the error before the status.
FailedInv ==
  boots = 0 =>
    /\ phase \notin {"marking", "cleaning"} /\ toMark = {}
    /\ Serving => \A r \in Runs :
         /\ row[r] = "failed" => "error" \in events[r] \/ start[r] = "explaining"
         /\ Exists(r) /\ outcome[r] = "failed" /\ comp[r] \in {"explained", "stopStored"}
              => "error" \in events[r]

\* While requests are served, a queued run has a Start handler that will move
\* it on, and a running one a process in the engine that will finish it: no
\* restart, deletion or failure leaves a row in flight that nobody owns.
InFlightIsOwned ==
  Serving => \A r \in Runs :
    /\ row[r] = "queued" => start[r] \in {"inserted", "launched", "registered", "failing"}
    /\ row[r] = "running" => r \in active

\* The inductive form of InFlightIsOwned, under HandlerFirst: how far the Start
\* handler, the completion goroutine and the row can be apart.
BeforeStatus == {"waiting", "exited", "decided", "summarised", "explained", "stopStored"}
Held         == BeforeStatus \cup {"settled", "archived"}

OwnerInv ==
  /\ phase # "marking" => toMark = {}
  /\ \A r \in Runs :
       /\ start[r] \notin {"idle", "done"} \/ comp[r] # "none" => Serving
       /\ start[r] = "idle" => row[r] = "none" /\ comp[r] = "none"
       /\ start[r] \in {"inserted", "launched", "failing"}
            => row[r] \in {"queued", "deleted"} /\ comp[r] = "none"
       /\ start[r] = "explaining" => row[r] \in {"failed", "deleted"} /\ comp[r] = "none"
       /\ start[r] = "registered" => row[r] \in {"queued", "deleted"}
       /\ start[r] \in {"registered", "noting", "announcing"} => comp[r] = "waiting"
       /\ start[r] \in {"launched", "registered", "noting", "announcing"} => k6[r] = "live"
       /\ start[r] \in {"noting", "announcing", "done"} /\ comp[r] \in BeforeStatus
            => row[r] \in {"running", "deleted"}
       /\ Serving /\ start[r] = "done" /\ row[r] \in InFlight => comp[r] \in BeforeStatus
       /\ r \in active <=> comp[r] \in Held
       /\ phase = "marking" /\ row[r] \in InFlight => r \in toMark
       /\ phase = "cleaning" => row[r] \notin InFlight
       /\ r \in toMark => row[r] \in InFlight \cup {"deleted"}

\* A k6 that is alive while requests are served can be found, and so stopped
\* and killed, through the engine (or is about to be registered).
LiveIsReachable ==
  Serving => \A r \in Runs : k6[r] = "live" => r \in active \/ start[r] = "launched"

\* Its inductive form: a live k6 has a Start handler that is about to register
\* it, or a goroutine that waits for it.  A local k6 outlives the control plane,
\* so for that mode it speaks of the time before the first restart.
LiveInv ==
  Serving /\ (Mode = "local" => boots = 0) =>
    \A r \in Runs : k6[r] = "live" => start[r] = "launched" \/ comp[r] = "waiting"

\* A kill that was answered 200 is not recorded as a run that completed.
KillIsRecorded == \A r \in killAck : row[r] # "completed"

\* The inductive form of KillIsRecorded for local runs: the kill found k6 alive,
\* so its mark was set before the goroutine could look at it.
Unregistered == {"idle", "inserted", "launched", "failing", "explaining"}

KillInv ==
  \A r \in Runs :
    /\ start[r] \in Unregistered => comp[r] = "none" /\ r \notin killAck
    /\ r \in active => comp[r] # "none"
    /\ comp[r] \notin {"none", "waiting"} => k6[r] = "exited"
    /\ comp[r] \in BeforeStatus \/ start[r] \in {"inserted", "launched"} => row[r] # "completed"
    /\ killCall[r] = "marked" => r \in killed /\ comp[r] # "none"
    /\ r \in killAck =>
         /\ comp[r] \in {"waiting", "exited"} => r \in killed
         /\ comp[r] \in BeforeStatus \ {"waiting", "exited"} => outcome[r] # "completed"
         /\ row[r] # "completed"

\* When Shutdown returns because every process it waited for has finished,
\* their outcome is in the database: none is left for MarkInterrupted.
ShutdownRecords ==
  phase = "exited" =>
    \A r \in victims : row[r] = "deleted" \/ (row[r] \in Finished /\ "stop" \in events[r])

\* What makes ShutdownRecords inductive: a goroutine that is past its last
\* statement has left a final status behind, and it stays.
AfterStatus == {"settled", "archived", "unregistered", "finished"}
SettledInv  == \A r \in Runs : comp[r] \in AfterStatus => row[r] \in Finished \cup {"deleted"}

\* Retention deletes only finished runs, never one in flight, although it
\* decided earlier, from a list that may be stale, what to delete.
RetentionSparesInFlight ==
  [][\A r \in Runs : row[r] \in InFlight /\ row'[r] = "deleted" => deleteCall[r] = "checked"]_vars

\* The runs after r that are finished, or were.
Newer(r) == {s \in Runs : s > r /\ row[s] \in Finished \cup {"deleted"}}

\* keep_last_n keeps what it says: when it deletes a run there are KeepN newer
\* runs that finished (or that a user deleted).
RetentionKeepsNewest ==
  [][\A r \in Runs :
       (row[r] # "deleted" /\ row'[r] = "deleted" /\ deleteCall[r] # "checked")
         => Cardinality(Newer(r)) >= KeepN]_vars

\* Why the stale list of the sweep is harmless: what was finished and beyond the
\* newest KeepN when it was listed still is.
PruneInv ==
  \A r \in prune : /\ row[r] \in Finished \cup {"deleted"}
                   /\ Policy = "keep_last_n" => Cardinality(Newer(r)) >= KeepN

\* What retention deleted is gone from the artifact store as well, once the
\* sweep has passed and unless the process was lost in the middle of it: with
\* the directory store the archive of a run that is still being closed does
\* not come back.
PrunedLeavesNoFiles ==
  Serving /\ boots = 0 =>
    \A r \in Runs : row[r] = "deleted" /\ pruneFiles # r => archive[r] = "none"

\* Its inductive form, with the directory store and no Delete request: an
\* archive is created before the run can finish, and so before it is deleted.
FilesInv ==
  \A r \in Runs :
    /\ archive[r] # "open" /\ deleteCall[r] = "idle"
    /\ start[r] = "inserted" => row[r] # "deleted"
    /\ boots = 0 /\ Serving /\ row[r] = "deleted" /\ pruneFiles # r => archive[r] = "none"

\* The sweep deletes what its policy says, no run in flight, and all of it.
RetentionIsRight == []PrunedLeavesNoFiles /\ RetentionKeepsNewest /\ RetentionSparesInFlight

\* Why a run did not complete is on record: the error of one that failed, the
\* kill of one that was killed.
EndsAreRecorded == FailedIsExplained /\ KillIsRecorded

\* A finished run is changed by nothing but its deletion, and a run that was
\* started ends: the statuses the handlers and the engine write behave as
\* RunStatus says.
Status == INSTANCE RunStatus WITH status <- row

StatusSpec   == Status!Spec
StatusSafety == Status!Init /\ [][Status!Next]_row

\* Every process the engine holds is let go: whatever users do meanwhile, its
\* completion goroutine reaches the end.
ActiveEnds == \A r \in Runs : r \in active ~> r \notin active

\* Every run that is started ends, in the eyes of its readers.
RunsEnd == \A r \in Runs : row[r] \in InFlight ~> row[r] \notin InFlight

\* RUN_ACTIVE (docs/error-codes.md): a run is stopped before it is deleted.
DeleteNeedsStopped == \A r \in Runs : row[r] = "deleted" => k6[r] # "live"

\* MarkInterrupted: "their k6 processes did not survive the restart".
InterruptedIsDead ==
  phase = "up" => \A r \in Runs : (k6[r] = "live" /\ boots > 0) => row[r] # "failed"

\* No k6 lives on unknown: the engine can reach those alive, and none of a run
\* that a restart has marked failed is.
NoOrphans == LiveIsReachable /\ InterruptedIsDead

\* Shutdown "kills every running k6 (on control-plane exit)".
ShutdownKillsAll == phase = "exited" => \A r \in Runs : k6[r] # "live"
=============================================================================
