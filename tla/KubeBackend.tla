---------------------------- MODULE KubeBackend -----------------------------
(***************************************************************************)
(* The engine's cluster backend (engine/kubernetes.go): a run is a TestRun *)
(* with its ConfigMap and Secret, executed by one runner pod per worker.   *)
(* The watch goroutine polls the TestRun and its pods once a second; for   *)
(* each pod whose container has started a goroutine follows its log,       *)
(* resuming when the API server closes the stream.                         *)
(*                                                                         *)
(* A container's log is Stamps[p]: line i was written at Stamps[p][i], in  *)
(* half seconds, so that sinceTime, which has second precision, is told    *)
(* apart from the timestamps in the log.  Time 0 is Go's zero time.        *)
(***************************************************************************)
EXTENDS Integers, Sequences, FiniteSets

CONSTANTS
  Pods,         \* the runner pods, one per worker
  Stamps,       \* the log each container would write, as timestamps
  Codes,        \* the exit codes each worker's k6 may end with
  MaxFailures,  \* 30 in the code: connection failures until a stream is given up
  Faults,       \* what goes wrong in this model, a subset of FaultKinds
  MaxFaults     \* bound: failed calls and closed streams

\* A call to the API fails ("api"), or creates its object and fails all the
\* same ("answer"); a delete fails ("delete"); the TestRun is deleted
\* ("kill") or goes to stage error ("error"); the API server closes a stream
\* between two lines ("cut") or within one ("tear"); workers do not start in
\* time ("late"); streams do not end within waitStreams' limit ("slow").
FaultKinds == {"api", "answer", "delete", "kill", "error", "cut", "tear", "late", "slow"}

Zero == 0
Sec(t) == t \div 2
Lines(p) == DOMAIN Stamps[p]

ASSUME StampsAssumption ==
  \A p \in Pods : /\ Stamps[p] \in Seq(Nat \ {Zero})
                  /\ \A i, j \in Lines(p) : i <= j => Stamps[p][i] <= Stamps[p][j]
ASSUME CodesAssumption == Codes \in [Pods -> SUBSET Nat]
ASSUME FaultsAssumption ==
  Faults \subseteq FaultKinds /\ MaxFailures \in Nat /\ MaxFaults \in Nat

Objects == <<"secret", "configmap", "testrun">>   \* in the order they are created
None == -2          \* no exit code yet
Lost == -1          \* finish(-1)

VARIABLES
  \* the cluster
  objects,    \* those of Objects that exist
  stage,      \* the TestRun's stage, as far as the code tells stages apart
  state,      \* of each runner's container
  written,    \* lines its container has written
  code,       \* the exit code of a container that has ended
  \* startKubernetes and watch
  watch,      \* see WatchSteps
  created,    \* objects whose creation was answered
  seen,       \* the stage read in this tick
  started,    \* rp.started
  verdict,    \* the code watch will finish with once the streams have ended
  exitCode,   \* b.exitCode once b.done is closed
  cancelled,  \* b.ctx
  logged,     \* cleanup logged an object it could not delete
  \* b.pods, and the goroutines that follow their logs
  pods,
  follow,
  pos,        \* the next line the open stream would deliver
  read,       \* the lines handed to handleLine, or Astray when one was not the next
  \* history
  hurt,       \* what may have cost a worker lines, see Hurts
  faults

cluster   == <<objects, stage, state, written, code>>
watcher   == <<watch, created, seen, started, verdict, exitCode, cancelled, logged>>
followers == <<follow, pos, read, hurt>>
vars == <<cluster, watcher, pods, followers, faults>>

WatchSteps  == {"create", "undo", "failed", "poll", "look", "wait", "done", "cleaned"}
FollowSteps == {"off", "open", "read", "check", "end"}
AllCodes == UNION {Codes[p] : p \in Pods}
Ended == {"exited", "removed"}
Hurts == {"no", "cut", "torn", "slow"}

TypeOK ==
  /\ objects \subseteq {Objects[i] : i \in DOMAIN Objects}
  /\ stage \in {"created", "started", "error"}
  /\ state \in [Pods -> {"none", "running", "exited", "removed"}]
  /\ written \in [Pods -> Nat] /\ \A p \in Pods : written[p] <= Len(Stamps[p])
  /\ code \in [Pods -> AllCodes \cup {None}]
  /\ watch \in WatchSteps /\ created \in 0 .. Len(Objects)
  /\ seen \in {"created", "started", "error"} /\ started \in BOOLEAN
  /\ {verdict, exitCode} \subseteq AllCodes \cup {0, 104, Lost, None}
  /\ {cancelled, logged} \subseteq BOOLEAN
  /\ pods \in [Pods -> [streaming : BOOLEAN, terminated : BOOLEAN, exitCode : AllCodes \cup {None}]]
  /\ follow \in [Pods -> [pc : FollowSteps, last : Nat, atLast : Nat,
                          resumeAt : Nat, skip : Nat, failures : 0 .. MaxFailures]]
  /\ pos \in [Pods -> Nat] /\ read \in [Pods -> Nat]
  /\ hurt \in [Pods -> Hurts] /\ faults \in 0 .. MaxFaults

Init ==
  /\ objects = {} /\ stage = "created"
  /\ state = [p \in Pods |-> "none"]
  /\ written = [p \in Pods |-> 0]
  /\ code = [p \in Pods |-> None]
  /\ watch = "create" /\ created = 0 /\ seen = "created" /\ started = FALSE
  /\ verdict = None /\ exitCode = None /\ cancelled = FALSE /\ logged = FALSE
  /\ pods = [p \in Pods |-> [streaming |-> FALSE, terminated |-> FALSE, exitCode |-> None]]
  /\ follow = [p \in Pods |-> [pc |-> "off", last |-> Zero, atLast |-> 0,
                               resumeAt |-> Zero, skip |-> 0, failures |-> 0]]
  /\ pos = [p \in Pods |-> 1]
  /\ read = [p \in Pods |-> 0]
  /\ hurt = [p \in Pods |-> "no"] /\ faults = 0

Fails(kind) == kind \in Faults /\ faults < MaxFaults /\ faults' = faults + 1
Succeeds == UNCHANGED faults

-----------------------------------------------------------------------------
(* The cluster: the operator, the pods and k6 in them.                     *)

Exists == "testrun" \in objects
ToPod(p, from, to) == state[p] = from /\ state' = [state EXCEPT ![p] = to]

PodUp(p) ==
  /\ Exists /\ stage # "error"
  /\ ToPod(p, "none", "running") /\ stage' = "started"
  /\ UNCHANGED <<objects, written, code, watcher, pods, followers, faults>>

WriteLine(p) ==
  /\ state[p] = "running" /\ written[p] < Len(Stamps[p])
  /\ written' = [written EXCEPT ![p] = @ + 1]
  /\ UNCHANGED <<objects, stage, state, code, watcher, pods, followers, faults>>

Exit(p) ==
  /\ ToPod(p, "running", "exited")
  /\ \E c \in Codes[p] : code' = [code EXCEPT ![p] = c]
  /\ UNCHANGED <<objects, stage, written, watcher, pods, followers, faults>>

\* The TestRun is gone, and Kubernetes removes what depends on it.
Collect(p) ==
  /\ ~Exists /\ state[p] \notin {"none", "removed"}
  /\ state' = [state EXCEPT ![p] = "removed"]
  /\ UNCHANGED <<objects, stage, written, code, watcher, pods, followers, faults>>

\* The initializer fails: the script does not load.
StageError ==
  /\ "error" \in Faults /\ Exists /\ stage = "created"
  /\ \A p \in Pods : state[p] = "none"
  /\ stage' = "error"
  /\ UNCHANGED <<objects, state, written, code, watcher, pods, followers, faults>>

\* kill and interrupt, which is kill, or a user of the cluster.
DeleteTestRun ==
  /\ Exists /\ Fails("kill")
  /\ objects' = objects \ {"testrun"}
  /\ UNCHANGED <<stage, state, written, code, watcher, pods, followers>>

-----------------------------------------------------------------------------
(* startKubernetes and cleanup.                                            *)

Creates(obj) == objects' = objects \cup {obj}

Create ==
  /\ watch = "create"
  /\ LET obj == Objects[created + 1] IN
       \/ /\ Creates(obj) /\ Succeeds
          /\ created' = created + 1
          /\ watch' = IF created + 1 = Len(Objects) THEN "poll" ELSE "create"
       \/ /\ \/ Fails("api") /\ UNCHANGED objects
             \/ Fails("answer") /\ Creates(obj)
          /\ watch' = "undo" /\ UNCHANGED created
  /\ UNCHANGED <<stage, state, written, code, seen, started, verdict, exitCode, cancelled,
                 logged, pods, followers>>

\* cleanup: every object, whether or not the one before could be deleted.
Deletes ==
  /\ cancelled' = TRUE
  /\ \/ objects' = {} /\ Succeeds /\ UNCHANGED logged
     \/ Fails("delete") /\ objects' \in SUBSET objects /\ logged' = TRUE

Undo ==
  /\ watch = "undo" /\ Deletes /\ watch' = "failed"
  /\ UNCHANGED <<stage, state, written, code, created, seen, started, verdict, exitCode,
                 pods, followers>>

\* StartRun's goroutine, once wait has returned and the run is complete.
Cleanup ==
  /\ watch = "done" /\ Deletes /\ watch' = "cleaned"
  /\ UNCHANGED <<stage, state, written, code, created, seen, started, verdict, exitCode,
                 pods, followers>>

-----------------------------------------------------------------------------
(* watch.                                                                  *)

Finish(c) == exitCode' = c /\ watch' = "done" /\ UNCHANGED verdict
FinishAfterStreams(c) == verdict' = c /\ watch' = "wait" /\ UNCHANGED exitCode

\* A tick: read the TestRun.
Poll ==
  /\ watch = "poll"
  /\ \/ ~Exists /\ Succeeds /\ FinishAfterStreams(Lost) /\ UNCHANGED seen
     \/ Fails("api") /\ UNCHANGED <<watch, verdict, exitCode, seen>>
     \/ /\ Exists /\ Succeeds
        /\ watch' = "look" /\ seen' = stage
        /\ UNCHANGED <<verdict, exitCode>>
  /\ UNCHANGED <<cluster, created, started, cancelled, logged, pods, followers>>

\* track, for the pods of one list.
Tracked(p) ==
  [streaming  |-> pods[p].streaming \/ state[p] \in {"running", "exited"},
   terminated |-> pods[p].terminated \/ state[p] = "exited",
   exitCode   |-> IF state[p] = "exited" THEN code[p] ELSE pods[p].exitCode]

Track ==
  /\ pods' = [p \in Pods |-> Tracked(p)]
  /\ follow' = [p \in Pods |-> IF pods'[p].streaming /\ ~pods[p].streaming
                               THEN [follow[p] EXCEPT !.pc = "open"] ELSE follow[p]]

Rank(c) == CASE c = 0 -> 0 [] c = 103 -> 1 [] c = 99 -> 2 [] OTHER -> 3

\* Mutant: any worker's code.
Combined_Any(codes, c) == IF codes = {} THEN c = 0 ELSE c \in codes

\* combineExitCodes: the first of the worst; the map has no order.
Combined(codes, c) ==
  IF codes = {} THEN c = 0 ELSE c \in codes /\ \A d \in codes : Rank(d) <= Rank(c)

Terminated == {p \in Pods : pods'[p].terminated}

\* The rest of the tick: list and track the pods, and decide.
Look ==
  /\ watch = "look"
  /\ \/ Track /\ Succeeds
     \/ Fails("api") /\ UNCHANGED <<pods, follow>>
  /\ started' = (started \/ seen = "started")
  /\ \/ seen = "error" /\ Finish(104)
     \/ seen # "error" /\ ~started' /\ "late" \in Faults /\ Finish(Lost)
     \/ /\ seen # "error" /\ Terminated = Pods
        /\ \E c \in AllCodes \cup {0} : /\ Combined({pods'[p].exitCode : p \in Terminated}, c)
                          /\ FinishAfterStreams(c)
     \/ /\ seen # "error" /\ Terminated # Pods
        /\ watch' = "poll" /\ UNCHANGED <<verdict, exitCode>>
  /\ UNCHANGED <<cluster, created, seen, cancelled, logged, pos, read, hurt>>

Reading == {p \in Pods : follow[p].pc \notin {"off", "end"}}

\* Mutant: the streams are not waited for.
WaitStreams_Not ==
  /\ watch = "wait" /\ Finish(verdict)
  /\ UNCHANGED <<cluster, created, seen, started, cancelled, logged, pods, followers, faults>>

\* waitStreams, within its limit or not, and the finish after it.
WaitStreams ==
  /\ watch = "wait" /\ Finish(verdict)
  /\ \/ Reading = {} /\ Succeeds /\ UNCHANGED hurt
     \/ Fails("slow") /\ hurt' = [p \in Pods |-> IF p \in Reading THEN "slow" ELSE hurt[p]]
  /\ UNCHANGED <<cluster, created, seen, started, cancelled, logged, pods, follow, pos, read>>

-----------------------------------------------------------------------------
(* follow.                                                                 *)

At(p, step) == follow[p].pc = step
Go(p, step) == follow' = [follow EXCEPT ![p].pc = step]

\* The stream is closed: what belongs to it goes.
Closed(f, step) == [f EXCEPT !.pc = step, !.resumeAt = Zero, !.skip = 0]
Close(p, step) ==
  /\ follow' = [follow EXCEPT ![p] = Closed(@, step)]
  /\ pos' = [pos EXCEPT ![p] = 1]

\* The line a stream that is to resume at time t begins with.
Since(p, t) ==
  CHOOSE i \in 1 .. Len(Stamps[p]) + 1 :
    /\ i \in Lines(p) => Sec(Stamps[p][i]) >= Sec(t)
    /\ \A j \in 1 .. i - 1 : Sec(Stamps[p][j]) < Sec(t)

\* Mutant: the context is not looked at.
Open_NoContext(p) ==
  /\ At(p, "open")
  /\ \/ state[p] = "removed" /\ Succeeds /\ Go(p, "end") /\ UNCHANGED pos
     \/ /\ Fails("api") /\ UNCHANGED pos
        /\ IF follow[p].failures = MaxFailures THEN Go(p, "end")
           ELSE follow' = [follow EXCEPT ![p].failures = @ + 1]
     \/ /\ state[p] # "removed" /\ Succeeds
        /\ follow' = [follow EXCEPT ![p].pc = "read", ![p].resumeAt = follow[p].last,
                                    ![p].skip = follow[p].atLast]
        /\ pos' = [pos EXCEPT ![p] = Since(p, follow[p].last)]
  /\ UNCHANGED <<cluster, watcher, pods, read, hurt>>

\* Mutant: one failure more is counted than allowed.
Open_OnceMore(p) ==
  /\ At(p, "open") /\ ~cancelled /\ state[p] # "removed" /\ UNCHANGED pos
  /\ Fails("api")
  /\ IF follow[p].failures > MaxFailures THEN Go(p, "end")
     ELSE follow' = [follow EXCEPT ![p].failures = @ + 1]
  /\ UNCHANGED <<cluster, watcher, pods, read, hurt>>

\* FollowLogs and what the loop does with its error.
Open(p) ==
  /\ At(p, "open")
  /\ \/ (cancelled \/ state[p] = "removed") /\ Succeeds /\ Go(p, "end") /\ UNCHANGED pos
     \/ /\ ~cancelled /\ Fails("api") /\ UNCHANGED pos
        /\ IF follow[p].failures = MaxFailures THEN Go(p, "end")
           ELSE follow' = [follow EXCEPT ![p].failures = @ + 1]
     \/ /\ ~cancelled /\ state[p] # "removed" /\ Succeeds
        /\ follow' = [follow EXCEPT ![p].pc = "read", ![p].resumeAt = follow[p].last,
                                    ![p].skip = follow[p].atLast]
        /\ pos' = [pos EXCEPT ![p] = Since(p, follow[p].last)]
  /\ UNCHANGED <<cluster, watcher, pods, read, hurt>>

\* What the loop body does with a line stamped t: skip it, or remember its
\* stamp and hand it on.
Skipped(f, t) == f.resumeAt # Zero /\ (t < f.resumeAt \/ (t = f.resumeAt /\ f.skip > 0))
AfterSkip(f, t) == IF t = f.resumeAt THEN [f EXCEPT !.skip = @ - 1] ELSE f
\* Mutant: lines that share a stamp are not counted.
AfterLine_NoCount(f, t) == [f EXCEPT !.last = t, !.atLast = 1]

AfterLine(f, t) ==
  IF t = f.last THEN [f EXCEPT !.atLast = @ + 1] ELSE [f EXCEPT !.last = t, !.atLast = 1]

HasLine(p) == pos[p] <= written[p] /\ state[p] # "removed" /\ ~cancelled
Stamp(p) == Stamps[p][pos[p]]
SkipsLine(p) == Skipped(follow[p], Stamp(p))
Handled(p) == IF SkipsLine(p) THEN AfterSkip(follow[p], Stamp(p)) ELSE AfterLine(follow[p], Stamp(p))
Astray(p) == Len(Stamps[p]) + 1
HandleLine(p) ==
  read' = IF SkipsLine(p) THEN read ELSE [read EXCEPT ![p] = IF pos[p] = @ + 1 THEN pos[p] ELSE Astray(p)]

ReadLine(p) ==
  /\ At(p, "read") /\ HasLine(p) /\ HandleLine(p)
  /\ follow' = [follow EXCEPT ![p] = Handled(p)]
  /\ pos' = [pos EXCEPT ![p] = @ + 1]
  /\ UNCHANGED <<cluster, watcher, pods, hurt, faults>>

\* The stream is closed within a line: ReadBytes returns what there is of it
\* together with the error.
TearLine(p) ==
  /\ At(p, "read") /\ HasLine(p) /\ Fails("tear") /\ HandleLine(p)
  /\ follow' = [follow EXCEPT ![p] = Closed(Handled(p), "check")]
  /\ pos' = [pos EXCEPT ![p] = 1]
  /\ hurt' = [hurt EXCEPT ![p] = IF ~SkipsLine(p) THEN "torn" ELSE IF @ = "no" THEN "cut" ELSE @]
  /\ UNCHANGED <<cluster, watcher, pods>>

\* The stream ends: the container has ended and all was read, or the API
\* server closed it.
StreamEnds(p) ==
  /\ At(p, "read") /\ Close(p, "check")
  /\ \/ /\ \/ cancelled \/ state[p] = "removed"
           \/ state[p] = "exited" /\ pos[p] > written[p]
        /\ Succeeds /\ UNCHANGED hurt
     \/ Fails("cut") /\ hurt' = [hurt EXCEPT ![p] = IF @ = "no" THEN "cut" ELSE @]
  /\ UNCHANGED <<cluster, watcher, pods, read>>

\* isTerminated, or another round, which makes up for a cut.
Check(p) ==
  /\ At(p, "check")
  /\ Go(p, IF pods[p].terminated THEN "end" ELSE "open")
  /\ hurt' = [hurt EXCEPT ![p] = IF @ = "cut" /\ ~pods[p].terminated THEN "no" ELSE @]
  /\ UNCHANGED <<cluster, watcher, pods, pos, read, faults>>

-----------------------------------------------------------------------------
Cluster == StageError \/ DeleteTestRun \/ \E p \in Pods : PodUp(p) \/ WriteLine(p) \/ Exit(p) \/ Collect(p)
Watch   == Create \/ Undo \/ Cleanup \/ Poll \/ Look \/ WaitStreams
Follow(p) == Open(p) \/ ReadLine(p) \/ TearLine(p) \/ StreamEnds(p) \/ Check(p)

Next == Cluster \/ Watch \/ \E p \in Pods : Follow(p)

Spec == Init /\ [][Next]_vars

\* The goroutines run, k6 ends and Kubernetes collects; faults are bounded.
Fairness ==
  /\ WF_vars(Watch)
  /\ \A p \in Pods : WF_vars(Follow(p)) /\ WF_vars(PodUp(p)) /\ WF_vars(Exit(p)) /\ WF_vars(Collect(p))
FairSpec == Spec /\ Fairness

-----------------------------------------------------------------------------
(* Properties.                                                             *)

\* Whatever happens to its connection, a worker's log is read line by line in
\* order: a resumed stream skips what was read, and nothing else, although
\* sinceTime has second precision and several lines may share a timestamp
\* (follow, kubernetes.go:314).
Stream == INSTANCE LineStream WITH Containers <- Pods
StreamSpec == Stream!Spec

Judged == verdict \notin {None, Lost} /\ exitCode = verdict
GaveUp(p) == follow[p].failures = MaxFailures

\* When a run ends because its workers have, and its TestRun is still there,
\* all they wrote has been read to the end, although the API server closes
\* streams; only a worker whose connection failed too often is left out, or
\* whose streams took too long (watch's waitStreams, follow).
ReadToTheEnd == watch = "done" /\ Judged /\ Exists =>
  \A p \in Pods : (read[p] = written[p] /\ hurt[p] # "torn") \/ GaveUp(p) \/ hurt[p] = "slow"

\* The same but for what ReadToTheEnd is wrong about: a line the connection was
\* lost in, and a connection lost with the container known to have ended.
NothingElseLost == watch = "done" /\ Judged /\ Exists =>
  \A p \in Pods : read[p] = written[p] \/ GaveUp(p) \/ hurt[p] # "no"

\* A worker is taken off the series' watermark, which the end of follow does,
\* only when it has ended or its log can no longer be read.
DoneIsDone == \A p \in Pods : At(p, "end") => state[p] \in Ended \/ GaveUp(p) \/ cancelled

\* A run that ends by itself ends when every worker has, and one worker's
\* failure is not hidden by the others' success, nor a threshold's by a stop
\* (combineExitCodes over the codes of all lists so far).
Worse == <<{0}, {103}, {99}>>
VerdictIsWorst == Judged =>
  /\ \A p \in Pods : state[p] \in Ended
  /\ exitCode \in {code[p] : p \in Pods}
  /\ \A n \in 1 .. 3 : exitCode \in Worse[n] =>
       \A p \in Pods : code[p] \in UNION {Worse[m] : m \in 1 .. n}

\* Unless Kubernetes refuses a delete, which is logged, neither a start that
\* failed half-way nor a finished run leaves objects in the cluster, although
\* a create may have been carried out and answered with an error
\* (startKubernetes, cleanup).
NothingLeft == watch \in {"failed", "cleaned"} /\ ~logged => objects = {}

\* Workers are left when they have ended, their verdict is the run's, and the
\* cluster is left clean.
EndIsClean == DoneIsDone /\ VerdictIsWorst /\ NothingLeft

\* Every backend comes to its end, and leaves no goroutine behind that
\* follows a log (watch, waitStreams, cleanup's cancel).
BackendEnds == <>[](watch \in {"failed", "cleaned"} /\ \A p \in Pods : At(p, "off") \/ At(p, "end"))
=============================================================================
