---------------------------- MODULE LiveControl -----------------------------
(***************************************************************************)
(* One executing run under live control (engine/engine.go): the loop that  *)
(* follows the VU schedule and enforces the end time once a second, the    *)
(* control calls of the users (SetVUs, ResumeSchedule, SetPaused,          *)
(* SetDuration, StopRun, KillRun), and the k6 instances, which all of them *)
(* reach through the same PATCH /v1/status.                                *)
(*                                                                         *)
(* runProcess.mu is held only for the sections between two calls to k6:    *)
(* each such section is one step here, each delivery of a PATCH to one     *)
(* instance another, and the answer of the last one a third.               *)
(***************************************************************************)
EXTENDS Integers, FiniteSets, LoadSchedule

CONSTANTS
  Instances,     \* the run's k6 instances
  Users,         \* control calls that may be in progress at once
  Plan,          \* spec.Schedule
  MaxVUs,        \* spec.MaxVUs
  MinBuffer,     \* how far any run can be extended: 5 minutes in the code
  MaxBuffer,     \* how far at most: 24 hours in the code
  VUChoices,     \* the counts a user asks for
  DurChoices,    \* the durations a user asks for
  Cluster,       \* instances become reachable one by one, kill may fail
  RestPause,     \* no control scenario: pauses go through k6's REST API
  Calls,         \* the control calls of this model, a subset of CallKinds
  Overlap,       \* FALSE: calls, ticks and seconds happen one at a time
  Faults,        \* PATCHes and their answers may be lost
  MaxClock       \* bound: the last second

CallKinds == {"vus", "resume", "pause", "duration", "stop", "kill"}

ASSUME PlanAssumption ==
  /\ Plan \in Schedules /\ Plan.start \in Nat
  /\ MaxVUs \in Nat /\ MaxVUs >= PeakVUs(Plan)
  /\ Duration(Plan) \in Nat \ {0}
  /\ MinBuffer \in Nat /\ MaxBuffer \in Nat
\* A run has an instance; outside a cluster it has one.
ASSUME EnvironmentAssumption ==
  /\ Instances # {}
  /\ Cluster \in BOOLEAN /\ RestPause \in BOOLEAN
  /\ ~Cluster => \E i \in Instances : Instances = {i}
  /\ Overlap \in BOOLEAN /\ Faults \in BOOLEAN
  /\ Calls \subseteq CallKinds /\ MaxClock \in Nat
  /\ VUChoices \subseteq Int /\ DurChoices \subseteq Int

\* spec.MaxDuration: live extensions cannot go past it.
MaxDuration == MaxDurationFor(Duration(Plan), MinBuffer, MaxBuffer)

Loop    == "loop"
Threads == Users \cup {Loop}
ASSUME ThreadsAssumption == Loop \notin Users
NoTick  == -1

VARIABLES
  now,      \* seconds since StartRun
  tick,     \* the tick waiting in the ticker's channel, or NoTick
  beat,     \* the tick the loop is handling
  rp,       \* the runProcess
  k6,       \* each instance: life, vus, max, paused
  at,       \* where each thread is
  call,     \* the PATCH each thread is sending
  grace,    \* the goroutine of requestStop that waits stopGrace
  drove,    \* the loop has read the schedule since the last call and second
  ran       \* history: seconds the started run was not paused
vars == <<now, tick, beat, rp, k6, at, call, grace, drove, ran>>

Steps == {"idle", "apply", "patching", "manual", "due", "overdue", "stopping"}

\* A PATCH: the attribute and its value, the instances it has not reached
\* yet, and whether every answer so far was a success.
Ops     == {"none", "vus-max", "vus", "paused", "stopped"}
Patches == [op: Ops, n: Int, todo: SUBSET Instances, ok: BOOLEAN]
NoCall  == [op |-> "none", n |-> 0, todo |-> {}, ok |-> TRUE]

RunProcesses ==
  [started: BOOLEAN, start: Nat, paused: BOOLEAN, pausedAt: Nat, pausedTotal: Nat,
   manualVUs: BOOLEAN, targetVUs: Int, sentVUs: Int, vusMax: Nat, plannedEnd: Nat,
   stopRequested: BOOLEAN]
Statuses ==
  [life: {"booting", "up", "stopping", "ended"}, vus: Nat, max: Nat, paused: BOOLEAN]

TypeOK ==
  /\ now \in 0 .. MaxClock
  /\ tick \in {NoTick} \cup 0 .. MaxClock
  /\ beat \in 0 .. MaxClock
  /\ rp \in RunProcesses
  /\ k6 \in [Instances -> Statuses]
  /\ at \in [Threads -> Steps]
  /\ call \in [Threads -> Patches]
  /\ grace \in {"off", "waiting", "over"}
  /\ drove \in BOOLEAN
  /\ ran \in Nat

\* StartRun: k6 starts with the options the compiler emitted, and the engine
\* takes the schedule's first target as sent.
Init ==
  /\ now = 0 /\ tick = NoTick /\ beat = 0
  /\ rp = [started |-> ~Cluster, start |-> 0, paused |-> FALSE, pausedAt |-> 0,
           pausedTotal |-> 0, manualVUs |-> FALSE,
           targetVUs |-> TargetAt(Plan, 0), sentVUs |-> TargetAt(Plan, 0),
           vusMax |-> MaxVUs, plannedEnd |-> Duration(Plan), stopRequested |-> FALSE]
  /\ k6 = [i \in Instances |->
             [life |-> "booting", vus |-> Plan.start, max |-> MaxVUs, paused |-> FALSE]]
  /\ at = [t \in Threads |-> "idle"]
  /\ call = [t \in Threads |-> NoCall]
  /\ grace = "off" /\ drove = FALSE /\ ran = 0

-----------------------------------------------------------------------------
(* What the code reads                                                     *)

\* Mutant: the start-up of the instances counts.
Elapsed_FromLaunch(time) ==
  time - rp.pausedTotal - (IF rp.paused THEN time - rp.pausedAt ELSE 0)

\* elapsed: the time the run has really run.
Elapsed(time) ==
  IF ~rp.started THEN 0
  ELSE time - rp.start - rp.pausedTotal - (IF rp.paused THEN time - rp.pausedAt ELSE 0)

Live(i)  == k6[i].life \in {"up", "stopping"}
Ended    == \A i \in Instances : k6[i].life = "ended"
Quiet    == \A t \in Threads : at[t] = "idle"

\* The instances a PATCH is sent to.  A local engine always has its one
\* address; a cluster's pods have theirs while they run.
Apis == IF Cluster THEN {i \in Instances : Live(i)} ELSE Instances

\* A user's call may begin, unless the model keeps calls apart.
MayBegin(u) == at[u] = "idle" /\ ~Ended /\ (Overlap \/ Quiet)

Goto(t, step) == at' = [at EXCEPT ![t] = step]

Send(t, op, n) ==
  /\ Goto(t, "patching")
  /\ call' = [call EXCEPT ![t] = [op |-> op, n |-> n, todo |-> Apis, ok |-> Apis # {}]]

Return(t, step) ==
  /\ Goto(t, step)
  /\ call' = [call EXCEPT ![t] = NoCall]

-----------------------------------------------------------------------------
(* PATCH /v1/status on one instance                                        *)

\* k6 takes a VU count up to its maximum, and a maximum that the active VUs
\* fit in.
Accepts(i, op, n) ==
  /\ Live(i)
  /\ op = "vus" => n >= 0 /\ n <= k6[i].max
  /\ op = "vus-max" => n >= k6[i].vus

Applied(i, op, n) ==
  CASE op = "vus"     -> [k6[i] EXCEPT !.vus = n]
    [] op = "vus-max" -> [k6[i] EXCEPT !.max = n]
    [] op = "paused"  -> [k6[i] EXCEPT !.paused = n = 1]
    [] op = "stopped" -> [k6[i] EXCEPT !.life = "stopping"]

\* The request of thread t reaches instance i, and its answer comes back.
Deliver(t, i) ==
  LET c == call[t]
      answered(good) == call' = [call EXCEPT ![t].todo = @ \ {i}, ![t].ok = @ /\ good]
  IN  /\ at[t] = "patching" /\ i \in c.todo
      /\ \/ /\ Accepts(i, c.op, c.n)
            /\ k6' = [k6 EXCEPT ![i] = Applied(i, c.op, c.n)]
            /\ \/ answered(TRUE)
               \/ Faults /\ answered(FALSE)
         \/ /\ ~Accepts(i, c.op, c.n) \/ Faults
            /\ answered(FALSE)
            /\ UNCHANGED k6
      /\ UNCHANGED <<now, tick, beat, rp, at, grace, drove, ran>>

\* patchStatus returns: every instance has answered.
Answered(t, op) == at[t] = "patching" /\ call[t].op = op /\ call[t].todo = {}

\* Mutant: SetVUs takes control although k6 refused the count.
AfterApply_Anyway(t, ok) == IF t = Loop THEN "due" ELSE "manual"

\* Where a thread goes on after applyVUs.
AfterApply(t, ok) == IF t = Loop THEN "due" ELSE IF ok THEN "manual" ELSE "idle"

-----------------------------------------------------------------------------
(* applyVUs, called by the loop and by SetVUs                              *)

Apply(t) ==
  /\ at[t] = "apply"
  /\ Send(t, IF call[t].n > rp.vusMax THEN "vus-max" ELSE "vus", call[t].n)
  /\ UNCHANGED <<now, tick, beat, rp, k6, grace, drove, ran>>

Raised(t) ==
  /\ Answered(t, "vus-max") /\ call[t].ok
  /\ rp' = [rp EXCEPT !.vusMax = call[t].n]
  /\ Send(t, "vus", call[t].n)
  /\ UNCHANGED <<now, tick, beat, k6, grace, drove, ran>>

Sent(t) ==
  /\ Answered(t, "vus") /\ call[t].ok
  /\ rp' = [rp EXCEPT !.sentVUs = call[t].n]
  /\ Goto(t, AfterApply(t, TRUE))
  /\ UNCHANGED <<now, tick, beat, k6, call, grace, drove, ran>>

NotSent(t) ==
  /\ Answered(t, "vus") \/ Answered(t, "vus-max")
  /\ ~call[t].ok
  /\ Return(t, AfterApply(t, FALSE))
  /\ UNCHANGED <<now, tick, beat, rp, k6, grace, drove, ran>>

-----------------------------------------------------------------------------
(* The loop                                                                *)

\* Whether the plan is in control.
Follows == rp.started /\ ~rp.manualVUs /\ ~rp.paused /\ ~rp.stopRequested

\* driveSchedule: what the schedule calls for at this tick, sent if it is not
\* what was sent last.
Drive(time) ==
  LET target == TargetAt(Plan, Elapsed(time))
      need   == Follows /\ target # rp.sentVUs
  IN  /\ rp' = IF Follows THEN [rp EXCEPT !.targetVUs = target] ELSE rp
      /\ Goto(Loop, IF need THEN "apply" ELSE "due")
      /\ call' = [call EXCEPT ![Loop] = [NoCall EXCEPT !.n = IF need THEN target ELSE 0]]

TakeTick ==
  /\ at[Loop] = "idle" /\ ~Ended /\ (Overlap \/ Quiet)
  /\ tick # NoTick
  /\ beat' = tick /\ tick' = NoTick
  /\ Drive(tick)
  /\ drove' = (tick = now)
  /\ UNCHANGED <<now, k6, grace, ran>>

\* Mutant: the run ends only after its planned end.
EnforceDeadline_Later(t) ==
  LET time == IF t = Loop THEN beat ELSE now
      due  == rp.started /\ ~rp.stopRequested /\ Elapsed(time) > rp.plannedEnd
  IN  /\ at[t] = "due"
      /\ Return(t, IF due THEN "overdue" ELSE "idle")
      /\ UNCHANGED <<now, tick, beat, rp, k6, grace, drove, ran>>
\* enforceDeadline, at the end of a tick and of SetDuration.
EnforceDeadline(t) ==
  LET time == IF t = Loop THEN beat ELSE now
      due  == rp.started /\ rp.plannedEnd > 0 /\ ~rp.stopRequested
              /\ Elapsed(time) >= rp.plannedEnd
  IN  /\ at[t] = "due"
      /\ Return(t, IF due THEN "overdue" ELSE "idle")
      /\ UNCHANGED <<now, tick, beat, rp, k6, grace, drove, ran>>

-----------------------------------------------------------------------------
(* requestStop, called by the deadline and by StopRun                      *)

RequestStop(t) ==
  /\ at[t] \in {"overdue", "stopping"}
  /\ IF rp.stopRequested
     THEN Return(t, "idle") /\ UNCHANGED rp
     ELSE rp' = [rp EXCEPT !.stopRequested = TRUE] /\ Send(t, "stopped", 1)
  /\ UNCHANGED <<now, tick, beat, k6, grace, drove, ran>>

\* backend.kill.  In a cluster it deletes the TestRun, which may fail.
Kill ==
  k6' = [i \in Instances |-> [k6[i] EXCEPT !.life = "ended"]]
KillMayFail == Kill \/ (Cluster /\ Faults /\ UNCHANGED k6)

\* backend.interrupt, and kill when it fails: the deletion in a cluster; a
\* signal to the local k6, or its end where there are no signals (Windows).
Interrupt ==
  \/ KillMayFail
  \/ /\ ~Cluster
     /\ k6' = [i \in Instances |->
                 IF k6[i].life = "ended" THEN k6[i] ELSE [k6[i] EXCEPT !.life = "stopping"]]

\* Mutant: the grace period is only watched when the PATCH failed.
StopSent_Trusting(t) ==
  /\ Answered(t, "stopped")
  /\ IF call[t].ok THEN UNCHANGED <<k6, grace>> ELSE Interrupt /\ grace' = "waiting"
  /\ Return(t, "idle")
  /\ UNCHANGED <<now, tick, beat, rp, drove, ran>>

\* Every instance has answered the stop; the ones that could not are
\* interrupted, and stopGrace starts.
StopSent(t) ==
  /\ Answered(t, "stopped")
  /\ IF call[t].ok THEN UNCHANGED k6 ELSE Interrupt
  /\ grace' = "waiting"
  /\ Return(t, "idle")
  /\ UNCHANGED <<now, tick, beat, rp, drove, ran>>

\* stopGrace has passed, or the instances have all exited.
GraceOver ==
  /\ grace = "waiting"
  /\ grace' = "over"
  /\ IF Ended THEN UNCHANGED k6 ELSE KillMayFail
  /\ UNCHANGED <<now, tick, beat, rp, at, call, drove, ran>>

-----------------------------------------------------------------------------
(* The control calls                                                       *)

SetVUs(u, n) ==
  /\ "vus" \in Calls /\ MayBegin(u) /\ n >= 0
  /\ Goto(u, "apply")
  /\ call' = [call EXCEPT ![u] = [NoCall EXCEPT !.n = n]]
  /\ drove' = FALSE
  /\ UNCHANGED <<now, tick, beat, rp, k6, grace, ran>>

TakeManual(u) ==
  /\ at[u] = "manual"
  /\ rp' = [rp EXCEPT !.manualVUs = TRUE, !.targetVUs = call[u].n]
  /\ Return(u, "idle")
  /\ drove' = FALSE
  /\ UNCHANGED <<now, tick, beat, k6, grace, ran>>

ResumeSchedule(u) ==
  /\ "resume" \in Calls /\ MayBegin(u)
  /\ rp' = [rp EXCEPT !.manualVUs = FALSE]
  /\ drove' = FALSE
  /\ UNCHANGED <<now, tick, beat, k6, at, call, grace, ran>>

\* Mutants: the pause is not added up, or added with the wrong sign.
SetPausedNow_Forgets(paused) ==
  /\ rp' = IF paused THEN [rp EXCEPT !.paused = TRUE, !.pausedAt = now]
           ELSE [rp EXCEPT !.paused = FALSE]
  /\ drove' = FALSE
SetPausedNow_Swapped(paused) ==
  /\ rp' = IF paused = rp.paused THEN rp
           ELSE IF paused THEN [rp EXCEPT !.paused = TRUE, !.pausedAt = now]
           ELSE [rp EXCEPT !.paused = FALSE, !.pausedTotal = @ + rp.pausedAt - now]
  /\ drove' = FALSE

\* The part of SetPaused under the lock: how long the run has been paused is
\* added up when it resumes.
SetPausedNow(paused) ==
  /\ rp' = IF paused /\ ~rp.paused
           THEN [rp EXCEPT !.paused = TRUE, !.pausedAt = now]
           ELSE IF ~paused /\ rp.paused
           THEN [rp EXCEPT !.paused = FALSE, !.pausedTotal = @ + now - rp.pausedAt]
           ELSE rp
  /\ drove' = FALSE

\* With the control scenario the instances poll the pause; without it k6 is
\* paused first.
SetPaused(u, paused) ==
  /\ "pause" \in Calls /\ MayBegin(u)
  /\ IF RestPause
     THEN Send(u, "paused", IF paused THEN 1 ELSE 0) /\ UNCHANGED <<rp, drove>>
     ELSE SetPausedNow(paused) /\ UNCHANGED <<at, call>>
  /\ UNCHANGED <<now, tick, beat, k6, grace, ran>>

PausedSent(u) ==
  /\ Answered(u, "paused")
  /\ IF call[u].ok THEN SetPausedNow(call[u].n = 1) ELSE UNCHANGED <<rp, drove>>
  /\ Return(u, "idle")
  /\ UNCHANGED <<now, tick, beat, k6, grace, ran>>

\* A longer or shorter run; a shorter one may be over already.
SetDuration(u, d) ==
  /\ "duration" \in Calls /\ MayBegin(u)
  /\ d > 0 /\ d <= MaxDuration
  /\ rp' = [rp EXCEPT !.plannedEnd = d]
  /\ Goto(u, "due")
  /\ drove' = FALSE
  /\ UNCHANGED <<now, tick, beat, k6, call, grace, ran>>

StopRun(u) ==
  /\ "stop" \in Calls /\ MayBegin(u)
  /\ Goto(u, "stopping")
  /\ UNCHANGED <<now, tick, beat, rp, k6, call, grace, drove, ran>>

\* The mark it leaves for the run's verdict is in RunLifecycle.
KillRun(u) ==
  /\ "kill" \in Calls /\ MayBegin(u)
  /\ KillMayFail
  /\ UNCHANGED <<now, tick, beat, rp, at, call, grace, drove, ran>>

-----------------------------------------------------------------------------
(* k6, the backend and time                                                *)

K6Up(i) ==
  /\ k6[i].life = "booting"
  /\ k6' = [k6 EXCEPT ![i].life = "up"]
  /\ drove' = FALSE
  /\ UNCHANGED <<now, tick, beat, rp, at, call, grace, ran>>

\* k6 exits by itself: when it was asked to, at its own hard bound, or failing.
K6Ends(i) ==
  /\ k6[i].life # "ended"
  /\ k6' = [k6 EXCEPT ![i].life = "ended"]
  /\ UNCHANGED <<now, tick, beat, rp, at, call, grace, drove, ran>>

\* watch has seen the TestRun started: the operator starts the instances
\* together, when every one of them is there.
MarkStarted ==
  /\ Cluster /\ ~rp.started
  /\ \A i \in Instances : k6[i].life # "booting"
  /\ rp' = [rp EXCEPT !.started = TRUE, !.start = now]
  /\ drove' = FALSE
  /\ UNCHANGED <<now, tick, beat, k6, at, call, grace, ran>>

\* The run's seconds pass unless it is paused: by k6 itself, or by the
\* control state every iteration reads.
Held == IF RestPause THEN \E i \in Instances : k6[i].paused ELSE rp.paused

\* A second passes.  A tick the loop has no time for is dropped, as Go's
\* tickers do; the last one of the model is not, since the code has others
\* after it.
Clock ==
  /\ now < MaxClock /\ ~Ended
  /\ Overlap \/ (Quiet /\ tick = NoTick)
  /\ now + 1 = MaxClock => tick = NoTick
  /\ now' = now + 1
  /\ tick' = IF tick = NoTick THEN now + 1 ELSE tick
  /\ ran' = IF rp.started /\ ~Held THEN ran + 1 ELSE ran
  /\ drove' = FALSE
  /\ UNCHANGED <<beat, rp, k6, at, call, grace>>

-----------------------------------------------------------------------------
PatchStep(t) == (\E i \in Instances : Deliver(t, i)) \/ StopSent(t)
                \/ Raised(t) \/ Sent(t) \/ NotSent(t)
StopStep(t)  == EnforceDeadline(t) \/ RequestStop(t)
ThreadStep(t) == Apply(t) \/ PatchStep(t) \/ StopStep(t)
UserStep(u)  == TakeManual(u) \/ PausedSent(u)
Begin(u) ==
  \/ \E n \in VUChoices : SetVUs(u, n)
  \/ ResumeSchedule(u)
  \/ \E paused \in BOOLEAN : SetPaused(u, paused)
  \/ \E d \in DurChoices : SetDuration(u, d)
  \/ StopRun(u)
  \/ KillRun(u)

Next ==
  \/ Clock \/ TakeTick \/ MarkStarted \/ GraceOver
  \/ \E t \in Threads : ThreadStep(t)
  \/ \E u \in Users : Begin(u) \/ UserStep(u)
  \/ \E i \in Instances : K6Up(i) \/ K6Ends(i)

\* The engine's goroutines run, its HTTP client gives up after 3 seconds, and
\* time passes.  Users need not call, and k6 need not exit.
Fairness ==
  /\ WF_vars(Clock) /\ WF_vars(TakeTick) /\ WF_vars(GraceOver)
  /\ \A t \in Threads : WF_vars(ThreadStep(t))
  /\ \A u \in Users : WF_vars(UserStep(u))

Spec     == Init /\ [][Next]_vars
FairSpec == Spec /\ Fairness

-----------------------------------------------------------------------------
(* What every reachable state satisfies: the inductive invariants the      *)
(* properties below rest on (LiveControlProofs).                           *)

\* A pause began in the past, a PATCH has something to say, and k6 is never
\* told a negative maximum.
TypeInv ==
  /\ TypeOK
  /\ rp.paused => rp.pausedAt <= now
  /\ \A t \in Threads :
       /\ at[t] = "patching" => call[t].op # "none"
       /\ call[t].op = "vus-max" => call[t].n \in Nat

\* In a model that keeps calls apart, one thread is busy at a time.
OneAtATime == ~Overlap => \A t, u \in Threads : at[t] # "idle" /\ at[u] # "idle" => t = u

\* Thread t has sent op to its instances, and all of them took it.
Taken(t, op) == Answered(t, op) /\ call[t].ok

\* Runs whose pauses the engine can measure: nobody pauses; or the one local
\* k6 reads the pause from the engine; or the engine alone pauses it, one call
\* at a time and with every answer.
PausesMeasured ==
  \/ "pause" \notin Calls
  \/ ~Cluster /\ ~RestPause
  \/ ~Cluster /\ ~Overlap /\ ~Faults

NoPauses ==
  /\ ~rp.paused /\ rp.pausedTotal = 0
  /\ \A i \in Instances : ~k6[i].paused
  /\ \A t \in Threads : call[t].op # "paused"

\* The engine's measure of the run is the history's.
TimeInv ==
  /\ ran = Elapsed(now)
  /\ "pause" \notin Calls => NoPauses

\* A thread that found the run overdue stays right, however long it takes to
\* stop it.
DueInv ==
  /\ tick <= now /\ beat <= now
  /\ "duration" \notin Calls \/ ~Overlap =>
       \A t \in Threads :
         at[t] = "overdue" => rp.started /\ Elapsed(now) >= rp.plannedEnd

\* A loop that has looked at the run as it is has stopped it if it was over.
DeadlineInv ==
  /\ rp.plannedEnd > 0
  /\ \A t \in Threads : at[t] = "patching" /\ call[t].op = "stopped" => rp.stopRequested
  /\ drove => beat = now
  /\ drove /\ at[Loop] = "idle" /\ rp.started /\ Elapsed(now) >= rp.plannedEnd
       => rp.stopRequested

\* One local k6 that answers every PATCH: what it was told is what the engine
\* noted, or what the call in progress is about to note.
AgreeInv ==
  /\ \A t \in Threads :
       at[t] = "patching" =>
         /\ call[t].todo \in {{}, Instances}
         /\ call[t].todo # {} => call[t].ok
         /\ call[t].op = "vus-max" => call[t].n > rp.vusMax
  /\ rp.manualVUs =>
       /\ at[Loop] # "apply"
       /\ at[Loop] = "patching" => call[Loop].op \notin {"vus", "vus-max"}
  /\ \A i \in Instances :
       /\ \A t \in Threads :
            /\ Taken(t, "vus") \/ at[t] = "manual" => k6[i].vus = call[t].n
            /\ Taken(t, "vus-max") => k6[i].max = call[t].n
            /\ Taken(t, "paused")  => k6[i].paused = (call[t].n = 1)
       /\ rp.manualVUs /\ (\A t \in Threads : ~Taken(t, "vus") /\ at[t] # "manual")
            => k6[i].vus = rp.targetVUs
       /\ (\A t \in Threads : ~Taken(t, "paused")) /\ RestPause
            => k6[i].paused = rp.paused
       /\ k6[i].max >= rp.vusMax

\* Nothing is in progress, and the loop has acted on the run as it is.
Settled == Quiet /\ drove /\ tick = NoTick
AllUp   == \A i \in Instances : k6[i].life = "up"

\* No instance has been stopped or has ended; none can come back from that.
Whole == \A i \in Instances : k6[i].life \in {"booting", "up"}

\* The loop is about to send a VU count, or sending it.
Sending(op) == at[Loop] = "patching" /\ call[Loop].op = op
Changing    == at[Loop] = "apply" \/ Sending("vus") \/ Sending("vus-max")
Arrived(i, op) == Sending(op) /\ i \notin call[Loop].todo /\ call[Loop].ok

\* The plan asks for no negative numbers, and begins where k6 starts.
PlanIsSound ==
  /\ \A i \in 1 .. Len(Plan.stages) : Plan.stages[i].len >= 0 /\ Plan.stages[i].target >= 0
  /\ TargetAt(Plan, 0) = Plan.start

\* Only the loop changes the VUs, and the instances, which it reaches alike,
\* are where it has noted or where it is sending them.
VUsInv ==
  /\ ~rp.manualVUs
  /\ \A u \in Users :
       at[u] \notin {"apply", "manual"}
       /\ (at[u] = "patching" => call[u].op \notin {"vus", "vus-max"})
  /\ rp.started \/ at[Loop] \in {"idle", "due"}
  /\ ~Cluster \/ ~rp.started \/ \A i \in Instances : k6[i].life # "booting"
  /\ MaxVUs <= rp.vusMax
  /\ Sending("vus") => call[Loop].n <= rp.vusMax
  /\ Sending("vus-max") => call[Loop].n > rp.vusMax
  /\ \A i \in Instances : k6[i].vus <= k6[i].max
  /\ Whole =>
       /\ Changing /\ at[Loop] # "apply" =>
            LET c == call[Loop]
            IN  IF Cluster
                THEN c.ok = (c.todo = Instances \/ c.n >= 0)
                ELSE c.todo \in {{}, Instances} /\ (c.todo = Instances => c.ok)
       /\ \A i \in Instances :
            /\ k6[i].max = IF Arrived(i, "vus-max") THEN call[Loop].n ELSE rp.vusMax
            /\ k6[i].vus = IF Arrived(i, "vus") THEN call[Loop].n ELSE rp.sentVUs

\* A loop that has looked at the run as it is has sent what the plan asks for
\* now, or is sending it, and nothing was refused.
FollowInv ==
  drove /\ Follows /\ AllUp =>
    IF Changing
    THEN /\ call[Loop].n = TargetAt(Plan, Elapsed(now))
         /\ at[Loop] # "apply" => call[Loop].ok
    ELSE rp.sentVUs = TargetAt(Plan, Elapsed(now))

-----------------------------------------------------------------------------
(* Properties                                                              *)

\* While the plan is in control, every instance runs the VUs the schedule
\* calls for after the time the run has really run (schedule.go: the engine
\* "reproduces the semantics of k6's ramping-vus executor").
PlanFollowed ==
  Settled /\ Follows /\ AllUp =>
    \A i \in Instances : k6[i].vus = TargetAt(Plan, ran)

\* Once the schedule's target counts as sent, and so is not sent again, it is
\* what every instance runs, also when PATCHes and answers get lost.
SentIsActual ==
  Settled /\ Follows /\ AllUp /\ rp.sentVUs = rp.targetVUs =>
    \A i \in Instances : k6[i].vus = rp.sentVUs

\* The time the engine measures schedule and deadline by is the time the run
\* has not been paused, whatever the users do when (elapsed).
ElapsedIsRan ==
  rp.started /\ ~RestPause => Elapsed(now) = ran

\* A VU count the engine shows as set by hand is the one k6 runs, until the
\* plan gets control back (SetVUs "overrides the VU schedule with a fixed
\* count").
ManualSticks ==
  Quiet /\ rp.manualVUs /\ ~rp.stopRequested =>
    \A i \in Instances : k6[i].life = "up" => k6[i].vus = rp.targetVUs

\* The engine and k6 agree whether the run is paused (SetPaused without the
\* control scenario).
PauseAgrees ==
  Quiet /\ RestPause =>
    \A i \in Instances : k6[i].life = "up" => k6[i].paused = rp.paused

\* No instance's maximum is below the one applyVUs compares with, or it would
\* not raise it when it has to.
MaxAgrees ==
  Quiet => \A i \in Instances : k6[i].life = "up" => k6[i].max >= rp.vusMax

\* What the engine shows of a run is what k6 does: VUs set by hand, the pause
\* and the maximum.
K6Agrees == ManualSticks /\ PauseAgrees /\ MaxAgrees

\* A run that has run as long as planned, pauses not counted, is stopping
\* (SetDuration: "moves the run's end to `seconds` after it started").
EndsOnTime ==
  Settled /\ rp.started /\ ran >= rp.plannedEnd => rp.stopRequested

\* The deadline never stops a run before its planned end.
NeverStopsEarly ==
  [][\A t \in Threads :
       at[t] = "overdue" /\ rp'.stopRequested /\ ~rp.stopRequested
         => ran >= rp.plannedEnd]_vars

\* A local run that is asked to stop ends, even when k6 does not answer or
\* does not exit by itself (requestStop "kills it if that hangs").
StopEnds == rp.stopRequested ~> Ended

\* A run past its planned end is stopped, unless it is extended in time.
DeadlineStops ==
  (rp.started /\ Elapsed(now) >= rp.plannedEnd)
    ~> (rp.stopRequested \/ Ended \/ Elapsed(now) < rp.plannedEnd)

\* Runs come to their end: at their deadline, and when they are told to.
RunsAreStopped == StopEnds /\ DeadlineStops
=============================================================================
