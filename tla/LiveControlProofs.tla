------------------------- MODULE LiveControlProofs --------------------------
(***************************************************************************)
(* What LiveControl promises, for any number of users and instances, any   *)
(* plan and any interleaving: the engine measures the time the run was not *)
(* paused, a run ends at its planned end and not before, the plan is       *)
(* followed, and what the engine shows of a local run is what k6 does.     *)
(***************************************************************************)
EXTENDS LiveControl, PlanPartsProofs, TLAPS

-----------------------------------------------------------------------------
(* Types                                                                   *)

LEMMA ElapsedType ==
  ASSUME rp \in RunProcesses, NEW time \in Int
  PROVE  Elapsed(time) \in Int
  BY DEF RunProcesses, Elapsed

LEMMA TargetType ==
  ASSUME rp \in RunProcesses, NEW time \in Int
  PROVE  TargetAt(Plan, Elapsed(time)) \in Int
  BY ElapsedType, TargetAtType, PlanAssumption

\* The part of TypeInv about the threads and their PATCHes.
CallsType ==
  /\ at \in [Threads -> Steps]
  /\ call \in [Threads -> Patches]
  /\ \A t \in Threads :
       /\ at[t] = "patching" => call[t].op # "none"
       /\ call[t].op = "vus-max" => call[t].n \in Nat

\* The part about the runProcess and time.
RunType ==
  /\ now \in 0 .. MaxClock
  /\ tick \in {NoTick} \cup 0 .. MaxClock
  /\ beat \in 0 .. MaxClock
  /\ rp \in RunProcesses
  /\ ran \in Nat
  /\ rp.paused => rp.pausedAt <= now

LEMMA TypeParts ==
  /\ TypeInv <=> /\ CallsType /\ RunType
                 /\ k6 \in [Instances -> Statuses]
                 /\ grace \in {"off", "waiting", "over"}
                 /\ drove \in BOOLEAN
  /\ TypeInv' <=> /\ CallsType' /\ RunType'
                  /\ k6' \in [Instances -> Statuses]
                  /\ grace' \in {"off", "waiting", "over"}
                  /\ drove' \in BOOLEAN
  BY DEF TypeInv, TypeOK, CallsType, RunType

\* A new PATCH, or none, for one thread.
LEMMA CallTyped ==
  ASSUME CallsType, NEW t \in Threads, NEW step \in Steps, NEW c \in Patches,
         step = "patching" => c.op # "none", c.op = "vus-max" => c.n \in Nat,
         at' = [at EXCEPT ![t] = step], call' = [call EXCEPT ![t] = c]
  PROVE  CallsType'
  BY DEF CallsType

LEMMA SendTyped ==
  ASSUME CallsType, NEW t \in Threads, NEW op \in Ops, NEW n \in Int,
         op # "none", op = "vus-max" => n \in Nat, Send(t, op, n)
  PROVE  CallsType'
<1>1. PICK c : c = [op |-> op, n |-> n, todo |-> Apis, ok |-> Apis # {}]
  OBVIOUS
<1>2. c \in Patches /\ c.op = op /\ c.n = n
  BY <1>1 DEF Patches, Apis
<1>3. "patching" \in Steps
  BY DEF Steps
<1>4. at' = [at EXCEPT ![t] = "patching"] /\ call' = [call EXCEPT ![t] = c]
  BY <1>1 DEF Send, Goto
<1> QED
  BY <1>2, <1>3, <1>4, CallTyped

LEMMA ReturnTyped ==
  ASSUME CallsType, NEW t \in Threads, NEW step \in Steps, step # "patching", Return(t, step)
  PROVE  CallsType'
<1>1. NoCall \in Patches /\ NoCall.op # "vus-max"
  BY DEF NoCall, Patches, Ops
<1> QED
  BY <1>1, CallTyped DEF Return, Goto

LEMMA GotoTyped ==
  ASSUME CallsType, NEW t \in Threads, NEW step \in Steps, step # "patching",
         Goto(t, step), UNCHANGED call
  PROVE  CallsType'
  BY DEF CallsType, Goto

\* Where threads go is a step they can be at.
LEMMA StepsAre ==
  ASSUME NEW t, NEW ok
  PROVE  /\ AfterApply(t, ok) \in Steps \ {"patching", "apply", "overdue", "stopping"}
         /\ {"idle", "apply", "patching", "manual", "due", "overdue", "stopping"} \subseteq Steps
  BY DEF AfterApply, Steps

\* A PATCH leaves a k6 in one of its states.
LEMMA AppliedTyped ==
  ASSUME k6 \in [Instances -> Statuses], NEW i \in Instances, NEW op \in Ops, NEW n \in Int,
         op # "none", op = "vus-max" => n \in Nat, Accepts(i, op, n)
  PROVE  Applied(i, op, n) \in Statuses
<1>1. k6[i] \in Statuses
  OBVIOUS
<1>2. op = "vus" => n \in Nat
  BY DEF Accepts
<1> QED
  BY <1>1, <1>2 DEF Applied, Statuses, Ops

LEMMA LifeTyped ==
  ASSUME NEW k \in Statuses, NEW life \in {"booting", "up", "stopping", "ended"}
  PROVE  [k EXCEPT !.life = life] \in Statuses
  BY DEF Statuses

LEMMA KillTyped ==
  ASSUME k6 \in [Instances -> Statuses], KillMayFail \/ Interrupt
  PROVE  k6' \in [Instances -> Statuses]
<1>1. ASSUME KillMayFail
      PROVE  k6' \in [Instances -> Statuses]
  BY <1>1, LifeTyped DEF KillMayFail, Kill
<1>2. ASSUME Interrupt
      PROVE  k6' \in [Instances -> Statuses]
  BY <1>1, <1>2, LifeTyped DEF Interrupt
<1> QED
  BY <1>1, <1>2

\* SetPaused under the lock.
LEMMA PausedTyped ==
  ASSUME RunType, NEW p \in BOOLEAN, SetPausedNow(p), UNCHANGED <<now, tick, beat, ran>>
  PROVE  RunType' /\ drove' \in BOOLEAN
<1>1. now \in Nat /\ rp \in RunProcesses /\ (rp.paused => now - rp.pausedAt \in Nat)
  BY EnvironmentAssumption DEF RunType, RunProcesses
<1>2. rp' \in RunProcesses /\ (rp'.paused => rp'.pausedAt <= now)
  <2>1. CASE p /\ ~rp.paused
    <3>1. rp' = [rp EXCEPT !.paused = TRUE, !.pausedAt = now]
      BY <2>1 DEF SetPausedNow
    <3>2. rp' \in RunProcesses /\ rp'.pausedAt = now
      BY <1>1, <3>1 DEF RunProcesses
    <3> QED
      BY <1>1, <3>2
  <2>2. CASE ~p /\ rp.paused
    <3>1. PICK total : total = rp.pausedTotal + now - rp.pausedAt
      OBVIOUS
    <3>2. total \in Nat
      BY <1>1, <2>2, <3>1 DEF RunProcesses
    <3>3. rp' = [rp EXCEPT !.paused = FALSE, !.pausedTotal = total]
      BY <2>2, <3>1 DEF SetPausedNow
    <3> QED
      BY <1>1, <3>2, <3>3 DEF RunProcesses
  <2>3. CASE ~(p /\ ~rp.paused) /\ ~(~p /\ rp.paused)
    BY <1>1, <2>3 DEF SetPausedNow, RunType
  <2> QED
    BY <2>1, <2>2, <2>3
<1> QED
  BY <1>2 DEF RunType, SetPausedNow

\* Other writes to the runProcess.
LEMMA RunTyped ==
  ASSUME RunType, UNCHANGED <<now, tick, beat, ran>>, rp' \in RunProcesses,
         rp'.paused = rp.paused, rp'.pausedAt = rp.pausedAt
  PROVE  RunType'
  BY DEF RunType

LEMMA TypeInit == Init => TypeInv
<1> SUFFICES ASSUME Init
             PROVE  TypeInv
  OBVIOUS
<1>1. TargetAt(Plan, 0) \in Int
  BY TargetAtType, PlanAssumption
<1>2. PICK first : first = TargetAt(Plan, 0)
  OBVIOUS
<1>3. /\ MaxVUs \in Nat /\ Plan.start \in Nat /\ Duration(Plan) \in Nat
      /\ MaxClock \in Nat /\ Cluster \in BOOLEAN
  BY PlanAssumption, EnvironmentAssumption
<1>4. RunType
  BY <1>1, <1>2, <1>3 DEF Init, RunType, RunProcesses
<1>5. CallsType
  <2>1. NoCall \in Patches /\ NoCall.op = "none"
    BY DEF NoCall, Patches, Ops
  <2> QED
    BY <2>1, StepsAre DEF Init, CallsType
<1>6. k6 \in [Instances -> Statuses]
  BY <1>3 DEF Init, Statuses
<1> QED
  BY <1>4, <1>5, <1>6, TypeParts DEF Init

LEMMA TypeStep == TypeInv /\ [Next]_vars => TypeInv'
<1> SUFFICES ASSUME TypeInv, [Next]_vars
             PROVE  TypeInv'
  OBVIOUS
<1>0. CallsType /\ RunType /\ k6 \in [Instances -> Statuses]
      /\ grace \in {"off", "waiting", "over"} /\ drove \in BOOLEAN /\ rp \in RunProcesses
  BY TypeParts DEF RunType
<1>00. /\ (UNCHANGED <<at, call>> => CallsType')
       /\ (UNCHANGED <<now, tick, beat, rp, ran>> => RunType')
  BY <1>0 DEF CallsType, RunType
<1>000. \A t \in Threads : call[t].n \in Int /\ call[t].op \in Ops /\ call[t] \in Patches
  BY <1>0 DEF CallsType, Patches
<1>1. CASE Clock
  <2>1. now' \in 0 .. MaxClock /\ tick' \in {NoTick} \cup 0 .. MaxClock /\ ran' \in Nat /\ now <= now'
    BY <1>0, <1>1, EnvironmentAssumption DEF Clock, RunType
  <2>2. RunType'
    <3>1. UNCHANGED <<beat, rp>>
      BY <1>1 DEF Clock
    <3>2. now \in Int /\ now' \in Int /\ rp.pausedAt \in Int
      BY <1>0, <2>1, EnvironmentAssumption DEF RunType, RunProcesses
    <3> QED
      BY <1>0, <2>1, <3>1, <3>2 DEF RunType
  <2> QED
    BY <1>0, <1>00, <1>1, <2>2, TypeParts DEF Clock
<1>2. CASE TakeTick
  <2>1. tick \in 0 .. MaxClock /\ tick \in Int
    BY <1>0, <1>2, EnvironmentAssumption DEF TakeTick, RunType
  <2>2. PICK target : target = TargetAt(Plan, Elapsed(tick))
    OBVIOUS
  <2>3. target \in Int
    BY <1>0, <2>1, <2>2, TargetType
  <2>4. RunType'
    <3>1. rp' \in {rp, [rp EXCEPT !.targetVUs = target]}
      BY <1>2, <2>2 DEF TakeTick, Drive
    <3>2. rp' \in RunProcesses /\ rp'.paused = rp.paused /\ rp'.pausedAt = rp.pausedAt
      BY <1>0, <2>3, <3>1 DEF RunProcesses
    <3> QED
      BY <1>0, <1>2, <2>1, <3>2 DEF RunType, TakeTick
  <2>5. CallsType'
    <3>1. PICK step \in {"apply", "due"}, n \in {target, 0} :
            Goto(Loop, step) /\ call' = [call EXCEPT ![Loop] = [NoCall EXCEPT !.n = n]]
      BY <1>2, <2>2 DEF TakeTick, Drive
    <3>3. n \in Int
      BY <2>3
    <3>2. [NoCall EXCEPT !.n = n] \in Patches /\ [NoCall EXCEPT !.n = n].op = "none"
      BY <3>3 DEF NoCall, Patches, Ops
    <3> QED
      BY <1>0, <3>1, <3>2, CallTyped, StepsAre DEF Goto, Threads
  <2> QED
    BY <1>0, <1>2, <2>4, <2>5, TypeParts DEF TakeTick
<1>3. CASE MarkStarted
  <2>1. rp' \in RunProcesses /\ rp'.paused = rp.paused /\ rp'.pausedAt = rp.pausedAt
    <3>1. now \in Nat
      BY <1>0, EnvironmentAssumption DEF RunType
    <3> QED
      BY <1>0, <1>3, <3>1 DEF MarkStarted, RunProcesses
  <2> QED
    BY <1>0, <1>00, <1>3, <2>1, RunTyped, TypeParts DEF MarkStarted
<1>4. CASE GraceOver
  <2>1. k6' \in [Instances -> Statuses]
    BY <1>0, <1>4, KillTyped DEF GraceOver
  <2> QED
    BY <1>00, <1>0, <1>4, <2>1, TypeParts DEF GraceOver
<1>5. ASSUME NEW t \in Threads, ThreadStep(t)
      PROVE  TypeInv'
  <2>1. CASE Apply(t)
    <3>1. PICK op \in {"vus-max", "vus"} : Send(t, op, call[t].n) /\ (op = "vus-max" => call[t].n > rp.vusMax)
      BY <2>1 DEF Apply
    <3>2. op = "vus-max" => call[t].n \in Nat
      BY <1>0, <1>000, <3>1 DEF RunProcesses
    <3>3. CallsType'
      BY <1>0, <1>000, <3>1, <3>2, SendTyped DEF Ops
    <3> QED
      BY <1>0, <1>00, <2>1, <3>3, TypeParts DEF Apply
  <2>2. CASE \E i \in Instances : Deliver(t, i)
    <3>1. PICK i \in Instances : Deliver(t, i)
      BY <2>2
    <3>2. PICK c : c = call[t]
      OBVIOUS
    <3>3. c \in Patches /\ c.op \in Ops /\ c.n \in Int /\ (c.op = "vus-max" => c.n \in Nat) /\ c.op # "none"
      BY <1>0, <1>000, <3>1, <3>2 DEF CallsType, Deliver
    <3>4. CallsType'
      <4>1. PICK good \in BOOLEAN :
              call' = [call EXCEPT ![t] = [c EXCEPT !.todo = c.todo \ {i}, !.ok = c.ok /\ good]]
        BY <3>1, <3>2 DEF Deliver
      <4>2. PICK d : d = [c EXCEPT !.todo = c.todo \ {i}, !.ok = c.ok /\ good]
        OBVIOUS
      <4>3. d \in Patches /\ d.op = c.op /\ d.n = c.n
        BY <3>3, <4>2 DEF Patches
      <4>4. call' = [call EXCEPT ![t] = d] /\ at' = at
        BY <3>1, <4>1, <4>2 DEF Deliver
      <4> QED
        BY <1>0, <3>3, <4>3, <4>4 DEF CallsType
    <3>5. k6' \in [Instances -> Statuses]
      <4>1. k6' = k6 \/ (Accepts(i, c.op, c.n) /\ k6' = [k6 EXCEPT ![i] = Applied(i, c.op, c.n)])
        BY <3>1, <3>2 DEF Deliver
      <4> QED
        BY <1>0, <3>3, <4>1, AppliedTyped
    <3> QED
      BY <1>0, <1>00, <3>1, <3>4, <3>5, TypeParts DEF Deliver
  <2>3. CASE StopSent(t)
    <3>1. CallsType' /\ k6' \in [Instances -> Statuses]
      BY <1>0, <2>3, KillTyped, ReturnTyped, StepsAre DEF StopSent
    <3> QED
      BY <1>0, <1>00, <2>3, <3>1, TypeParts DEF StopSent
  <2>4. CASE Raised(t)
    <3>1. call[t].n \in Nat
      BY <1>0, <2>4 DEF Raised, Answered, CallsType
    <3>2. rp' \in RunProcesses /\ rp'.paused = rp.paused /\ rp'.pausedAt = rp.pausedAt
      BY <1>0, <2>4, <3>1 DEF Raised, RunProcesses
    <3>3. RunType'
      BY <1>0, <2>4, <3>2, RunTyped DEF Raised
    <3>4. CallsType'
      BY <1>0, <2>4, <3>1, SendTyped DEF Raised, Ops
    <3> QED
      BY <1>0, <2>4, <3>3, <3>4, TypeParts DEF Raised
  <2>5. CASE Sent(t)
    <3>1. rp' \in RunProcesses /\ rp'.paused = rp.paused /\ rp'.pausedAt = rp.pausedAt
      BY <1>0, <1>000, <2>5 DEF Sent, RunProcesses
    <3>2. RunType'
      BY <1>0, <2>5, <3>1, RunTyped DEF Sent
    <3>3. CallsType'
      BY <1>0, <2>5, StepsAre, GotoTyped DEF Sent
    <3> QED
      BY <1>0, <2>5, <3>2, <3>3, TypeParts DEF Sent
  <2>6. CASE NotSent(t)
    <3>1. CallsType'
      BY <1>0, <2>6, StepsAre, ReturnTyped DEF NotSent
    <3> QED
      BY <1>0, <1>00, <2>6, <3>1, TypeParts DEF NotSent
  <2>7. CASE EnforceDeadline(t)
    <3>1. CallsType'
      <4>1. PICK step \in {"overdue", "idle"} : Return(t, step)
        BY <2>7 DEF EnforceDeadline
      <4> QED
        BY <1>0, <4>1, StepsAre, ReturnTyped
    <3> QED
      BY <1>0, <1>00, <2>7, <3>1, TypeParts DEF EnforceDeadline
  <2>8. CASE RequestStop(t)
    <3>1. rp' \in RunProcesses /\ rp'.paused = rp.paused /\ rp'.pausedAt = rp.pausedAt
      BY <1>0, <2>8 DEF RequestStop, RunProcesses
    <3>2. RunType'
      BY <1>0, <2>8, <3>1, RunTyped DEF RequestStop
    <3>3. CallsType'
      <4>1. Return(t, "idle") \/ Send(t, "stopped", 1)
        BY <2>8 DEF RequestStop
      <4> QED
        BY <1>0, <4>1, StepsAre, ReturnTyped, SendTyped DEF Ops
    <3> QED
      BY <1>0, <2>8, <3>2, <3>3, TypeParts DEF RequestStop
  <2> QED
    BY <1>5, <2>1, <2>2, <2>3, <2>4, <2>5, <2>6, <2>7, <2>8 DEF ThreadStep, PatchStep, StopStep
<1>6. ASSUME NEW u \in Users, Begin(u)
      PROVE  TypeInv'
  <2>0. u \in Threads
    BY DEF Threads
  <2>1. ASSUME NEW n \in VUChoices, SetVUs(u, n)
        PROVE  TypeInv'
    <3>1. n \in Int
      BY EnvironmentAssumption
    <3>2. [NoCall EXCEPT !.n = n] \in Patches /\ [NoCall EXCEPT !.n = n].op = "none"
      BY <3>1 DEF NoCall, Patches, Ops
    <3>3. CallsType'
      BY <1>0, <2>0, <2>1, <3>2, CallTyped, StepsAre DEF SetVUs, Goto
    <3> QED
      BY <1>0, <1>00, <2>1, <3>3, TypeParts DEF SetVUs
  <2>2. CASE ResumeSchedule(u)
    <3>1. rp' \in RunProcesses /\ rp'.paused = rp.paused /\ rp'.pausedAt = rp.pausedAt
      BY <1>0, <2>2 DEF ResumeSchedule, RunProcesses
    <3> QED
      BY <1>0, <1>00, <2>2, <3>1, RunTyped, TypeParts DEF ResumeSchedule
  <2>3. ASSUME NEW paused \in BOOLEAN, SetPaused(u, paused)
        PROVE  TypeInv'
    <3>1. CASE RestPause
      <4>1. PICK n \in {0, 1} : Send(u, "paused", n)
        BY <2>3, <3>1 DEF SetPaused
      <4>2. CallsType'
        BY <1>0, <2>0, <4>1, SendTyped DEF Ops
      <4> QED
        BY <1>0, <1>00, <2>3, <3>1, <4>2, TypeParts DEF SetPaused
    <3>2. CASE ~RestPause
      <4>1. RunType' /\ drove' \in BOOLEAN
        BY <1>0, <2>3, <3>2, PausedTyped DEF SetPaused
      <4> QED
        BY <1>0, <1>00, <2>3, <3>2, <4>1, TypeParts DEF SetPaused
    <3> QED
      BY <3>1, <3>2
  <2>4. ASSUME NEW d \in DurChoices, SetDuration(u, d)
        PROVE  TypeInv'
    <3>1. d \in Nat
      BY <2>4, EnvironmentAssumption DEF SetDuration
    <3>2. rp' \in RunProcesses /\ rp'.paused = rp.paused /\ rp'.pausedAt = rp.pausedAt
      BY <1>0, <2>4, <3>1 DEF SetDuration, RunProcesses
    <3>3. RunType'
      BY <1>0, <2>4, <3>2, RunTyped DEF SetDuration
    <3>4. CallsType'
      BY <1>0, <2>0, <2>4, StepsAre, GotoTyped DEF SetDuration
    <3> QED
      BY <1>0, <2>4, <3>3, <3>4, TypeParts DEF SetDuration
  <2>5. CASE StopRun(u)
    <3>1. CallsType'
      BY <1>0, <2>0, <2>5, StepsAre, GotoTyped DEF StopRun
    <3> QED
      BY <1>0, <1>00, <2>5, <3>1, TypeParts DEF StopRun
  <2>6. CASE KillRun(u)
    BY <1>0, <1>00, <2>6, KillTyped, TypeParts DEF KillRun
  <2> QED
    BY <1>6, <2>1, <2>2, <2>3, <2>4, <2>5, <2>6 DEF Begin
<1>7. ASSUME NEW u \in Users, UserStep(u)
      PROVE  TypeInv'
  <2>0. u \in Threads
    BY DEF Threads
  <2>1. CASE TakeManual(u)
    <3>1. rp' \in RunProcesses /\ rp'.paused = rp.paused /\ rp'.pausedAt = rp.pausedAt
      BY <1>0, <1>000, <2>0, <2>1 DEF TakeManual, RunProcesses
    <3>2. RunType'
      BY <1>0, <2>1, <3>1, RunTyped DEF TakeManual
    <3>3. CallsType'
      BY <1>0, <2>0, <2>1, StepsAre, ReturnTyped DEF TakeManual
    <3> QED
      BY <1>0, <2>1, <3>2, <3>3, TypeParts DEF TakeManual
  <2>2. CASE PausedSent(u)
    <3>1. CallsType'
      BY <1>0, <2>0, <2>2, StepsAre, ReturnTyped DEF PausedSent
    <3>2. RunType' /\ drove' \in BOOLEAN
      <4>1. CASE call[u].ok
        <5>1. (call[u].n = 1) \in BOOLEAN /\ SetPausedNow(call[u].n = 1)
          BY <2>2, <4>1 DEF PausedSent
        <5> QED
          BY <1>0, <2>2, <5>1, PausedTyped DEF PausedSent
      <4>2. CASE ~call[u].ok
        BY <1>0, <1>00, <2>2, <4>2 DEF PausedSent
      <4> QED
        BY <4>1, <4>2
    <3> QED
      BY <1>0, <2>2, <3>1, <3>2, TypeParts DEF PausedSent
  <2> QED
    BY <1>7, <2>1, <2>2 DEF UserStep
<1>8. ASSUME NEW i \in Instances, K6Up(i) \/ K6Ends(i)
      PROVE  TypeInv'
  <2>1. k6' \in [Instances -> Statuses] /\ drove' \in BOOLEAN
    <3>1. PICK life \in {"up", "ended"} : k6' = [k6 EXCEPT ![i] = [k6[i] EXCEPT !.life = life]]
      BY <1>8 DEF K6Up, K6Ends
    <3>2. [k6[i] EXCEPT !.life = life] \in Statuses
      BY <1>0, LifeTyped
    <3> QED
      BY <1>0, <1>8, <3>1, <3>2 DEF K6Up, K6Ends
  <2> QED
    BY <1>0, <1>00, <1>8, <2>1, TypeParts DEF K6Up, K6Ends
<1>9. CASE UNCHANGED vars
  BY <1>0, <1>00, <1>9, TypeParts DEF vars
<1> QED
  BY <1>1, <1>2, <1>3, <1>4, <1>5, <1>6, <1>7, <1>8, <1>9 DEF Next

\* Every variable keeps its type, for every value of the constants.
THEOREM TypeCorrect == Spec => []TypeOK
<1>1. TypeInv => TypeOK
  BY DEF TypeInv
<1> QED
  BY <1>1, TypeInit, TypeStep, PTL DEF Spec
-----------------------------------------------------------------------------
(* Who does what in a step                                                 *)

\* Thread t takes a step.
Moves(t) ==
  \/ ThreadStep(t)
  \/ t = Loop /\ TakeTick
  \/ t \in Users /\ (Begin(t) \/ UserStep(t))

\* One thread moves at a time.
LEMMA OneMoves ==
  ASSUME TypeInv, [Next]_vars
  PROVE  \/ UNCHANGED <<at, call>>
         \/ \E t \in Threads :
              Moves(t) /\ \A u \in Threads \ {t} : at'[u] = at[u] /\ call'[u] = call[u]
<1>0. at \in [Threads -> Steps] /\ call \in [Threads -> Patches]
  BY DEF TypeInv, TypeOK
<1>1. ASSUME NEW t \in Threads,
             \/ at' = at \/ \E s : at' = [at EXCEPT ![t] = s],
             \/ call' = call \/ \E c : call' = [call EXCEPT ![t] = c]
      PROVE  \A u \in Threads \ {t} : at'[u] = at[u] /\ call'[u] = call[u]
  BY <1>0, <1>1
<1>2. CASE Clock \/ MarkStarted \/ GraceOver \/ (\E i \in Instances : K6Up(i) \/ K6Ends(i)) \/ UNCHANGED vars
  BY <1>2 DEF Clock, MarkStarted, GraceOver, K6Up, K6Ends, vars
<1>3. CASE TakeTick
  <2>1. Loop \in Threads /\ Moves(Loop)
    BY <1>3 DEF Threads, Moves
  <2>2. /\ \E s : at' = [at EXCEPT ![Loop] = s]
        /\ \E c : call' = [call EXCEPT ![Loop] = c]
    BY <1>3 DEF TakeTick, Drive, Goto
  <2> QED
    BY <1>1, <2>1, <2>2
<1>4. ASSUME NEW t \in Threads, ThreadStep(t)
      PROVE  \A u \in Threads \ {t} : at'[u] = at[u] /\ call'[u] = call[u]
  <2>1. ASSUME NEW i \in Instances, Deliver(t, i)
        PROVE  at' = at /\ \E c : call' = [call EXCEPT ![t] = c]
    <3>1. at' = at
      BY <2>1 DEF Deliver
    <3>2. \E good : call' = [call EXCEPT ![t] = [call[t] EXCEPT !.todo = call[t].todo \ {i}, !.ok = call[t].ok /\ good]]
      BY <2>1 DEF Deliver
    <3> QED
      BY <3>1, <3>2
  <2>2. CASE Apply(t) \/ Raised(t) \/ NotSent(t) \/ StopSent(t) \/ EnforceDeadline(t) \/ RequestStop(t)
    <3>1. /\ \E s : at' = [at EXCEPT ![t] = s]
          /\ \E c : call' = [call EXCEPT ![t] = c]
      BY <2>2 DEF Apply, Raised, NotSent, StopSent, EnforceDeadline, RequestStop, Send, Return, Goto
    <3> QED
      BY <1>1, <3>1
  <2>3. CASE Sent(t)
    <3>1. (\E s : at' = [at EXCEPT ![t] = s]) /\ call' = call
      BY <2>3 DEF Sent, Goto
    <3> QED
      BY <1>1, <3>1
  <2> QED
    BY <1>1, <1>4, <2>1, <2>2, <2>3 DEF ThreadStep, PatchStep, StopStep
<1>5. ASSUME NEW u \in Users, Begin(u) \/ UserStep(u)
      PROVE  u \in Threads /\ \A t \in Threads \ {u} : at'[t] = at[t] /\ call'[t] = call[t]
  <2>1. \/ at' = at \/ \E s : at' = [at EXCEPT ![u] = s]
    BY <1>5 DEF Begin, UserStep, SetVUs, ResumeSchedule, SetPaused, SetDuration, StopRun, KillRun,
                TakeManual, PausedSent, Send, Return, Goto
  <2>2. \/ call' = call \/ \E c : call' = [call EXCEPT ![u] = c]
    BY <1>5 DEF Begin, UserStep, SetVUs, ResumeSchedule, SetPaused, SetDuration, StopRun, KillRun,
                TakeManual, PausedSent, Send, Return
  <2> QED
    BY <1>1, <2>1, <2>2 DEF Threads
<1>6. CASE \E t \in Threads : ThreadStep(t)
  BY <1>4, <1>6 DEF Moves
<1>7. CASE \E u \in Users : Begin(u) \/ UserStep(u)
  BY <1>5, <1>7 DEF Moves
<1> QED
  BY <1>2, <1>3, <1>6, <1>7 DEF Next

\* A thread that does not move stays where it is.
LEMMA OthersStay ==
  ASSUME TypeInv, [Next]_vars, NEW t \in Threads, ~Moves(t)
  PROVE  at'[t] = at[t] /\ call'[t] = call[t]
  BY OneMoves

\* Unless calls overlap, a thread begins when all are idle.
LEMMA TurnTaken ==
  ASSUME ~Overlap, NEW t \in Threads, Moves(t), at[t] = "idle"
  PROVE  Quiet
<1>1. ThreadStep(t) => at[t] # "idle"
  BY DEF ThreadStep, PatchStep, StopStep, Apply, Deliver, StopSent, Raised, Sent, NotSent, Answered,
         EnforceDeadline, RequestStop
<1>2. UserStep(t) => at[t] # "idle"
  BY DEF UserStep, TakeManual, PausedSent, Answered
<1>3. Begin(t) => Quiet
  BY DEF Begin, SetVUs, ResumeSchedule, SetPaused, SetDuration, StopRun, KillRun, MayBegin
<1>4. TakeTick => Quiet
  BY DEF TakeTick
<1> QED
  BY <1>1, <1>2, <1>3, <1>4 DEF Moves

LEMMA TurnsInit == Init => OneAtATime
  BY DEF Init, OneAtATime

LEMMA TurnsStep == TypeInv /\ OneAtATime /\ [Next]_vars => OneAtATime'
<1> SUFFICES ASSUME TypeInv, OneAtATime, [Next]_vars, ~Overlap,
                    NEW t \in Threads, NEW u \in Threads,
                    at'[t] # "idle", at'[u] # "idle", t # u
             PROVE  FALSE
  BY DEF OneAtATime
<1>1. at[t] # "idle" /\ at[u] # "idle" => FALSE
  BY DEF OneAtATime
<1> QED
  BY <1>1, OneMoves, TurnTaken DEF Quiet

\* An answer changes how far the PATCH has got.
LEMMA Answer ==
  ASSUME TypeInv, NEW t \in Threads, NEW i \in Instances, Deliver(t, i)
  PROVE  /\ UNCHANGED at
         /\ call'[t].op = call[t].op /\ call'[t].n = call[t].n /\ call'[t].todo = call[t].todo \ {i}
<1>1. \E good : call' = [call EXCEPT ![t] = [call[t] EXCEPT !.todo = call[t].todo \ {i}, !.ok = call[t].ok /\ good]]
  BY DEF Deliver
<1>2. call \in [Threads -> Patches]
  BY DEF TypeInv, TypeOK
<1> QED
  BY <1>1, <1>2 DEF Deliver, Patches

\* The PATCH a moving thread has afterwards.
LEMMA NewPatch ==
  ASSUME TypeInv, [Next]_vars, NEW t \in Threads
  PROVE  \/ call'[t].op = call[t].op
         \/ call'[t].op = "none"
         \/ Apply(t) /\ call'[t].op \in {"vus", "vus-max"}
         \/ Raised(t) /\ call'[t].op = "vus"
         \/ RequestStop(t) /\ call'[t].op = "stopped"
         \/ t \in Users /\ "pause" \in Calls
<1>0. call \in [Threads -> Patches] /\ NoCall.op = "none"
  BY DEF TypeInv, TypeOK, NoCall
<1>1. CASE ~Moves(t)
  BY <1>1, OthersStay
<1>2. CASE ThreadStep(t)
  <2>1. ASSUME NEW i \in Instances, Deliver(t, i)
        PROVE  call'[t].op = call[t].op
    BY <2>1, Answer
  <2>2. CASE Apply(t)
    BY <1>0, <2>2 DEF Apply, Send
  <2>3. CASE Raised(t)
    BY <1>0, <2>3 DEF Raised, Send
  <2>4. CASE NotSent(t) \/ StopSent(t) \/ EnforceDeadline(t)
    BY <1>0, <2>4 DEF NotSent, StopSent, EnforceDeadline, Return
  <2>5. CASE Sent(t)
    BY <2>5 DEF Sent
  <2>6. CASE RequestStop(t)
    BY <1>0, <2>6 DEF RequestStop, Send, Return
  <2> QED
    BY <1>2, <2>1, <2>2, <2>3, <2>4, <2>5, <2>6 DEF ThreadStep, PatchStep, StopStep
<1>3. CASE t = Loop /\ TakeTick
  <2>1. \E n : call' = [call EXCEPT ![t] = [NoCall EXCEPT !.n = n]]
    BY <1>3 DEF TakeTick, Drive
  <2> QED
    BY <1>0, <2>1 DEF NoCall
<1>4. CASE t \in Users /\ Begin(t)
  <2>1. CASE \E n \in VUChoices : SetVUs(t, n)
    <3>1. \E n : call' = [call EXCEPT ![t] = [NoCall EXCEPT !.n = n]]
      BY <2>1 DEF SetVUs
    <3> QED
      BY <1>0, <3>1 DEF NoCall
  <2>2. CASE ResumeSchedule(t) \/ (\E d \in DurChoices : SetDuration(t, d)) \/ StopRun(t) \/ KillRun(t)
    BY <2>2 DEF ResumeSchedule, SetDuration, StopRun, KillRun
  <2>3. CASE \E p \in BOOLEAN : SetPaused(t, p)
    BY <1>4, <2>3 DEF SetPaused
  <2> QED
    BY <1>4, <2>1, <2>2, <2>3 DEF Begin
<1>5. CASE t \in Users /\ UserStep(t)
  BY <1>0, <1>5 DEF UserStep, TakeManual, PausedSent, Return
<1> QED
  BY <1>1, <1>2, <1>3, <1>4, <1>5 DEF Moves

\* What a step can do to the k6 instances: a PATCH reaches one of them, one
\* of them comes up, or some of them stop or end.
LEMMA StatusKinds ==
  ASSUME TypeInv, [Next]_vars
  PROVE  \/ \E t \in Threads, i \in Instances : Deliver(t, i)
         \/ \E i \in Instances : K6Up(i)
         \/ \A i \in Instances :
              /\ k6'[i].vus = k6[i].vus /\ k6'[i].max = k6[i].max /\ k6'[i].paused = k6[i].paused
              /\ k6'[i].life \in {k6[i].life, "stopping", "ended"}
<1>0. k6 \in [Instances -> Statuses]
  BY DEF TypeInv, TypeOK
<1> DEFINE Goal ==
      \A i \in Instances :
        /\ k6'[i].vus = k6[i].vus /\ k6'[i].max = k6[i].max /\ k6'[i].paused = k6[i].paused
        /\ k6'[i].life \in {k6[i].life, "stopping", "ended"}
<1>1. (UNCHANGED k6) => Goal
  OBVIOUS
<1>2. Kill => Goal
  BY <1>0 DEF Kill, Statuses
<1>3. KillMayFail => Goal
  BY <1>1, <1>2 DEF KillMayFail
<1>4. Interrupt => Goal
  <2>1. ASSUME k6' = [i \in Instances |->
                        IF k6[i].life = "ended" THEN k6[i] ELSE [k6[i] EXCEPT !.life = "stopping"]]
        PROVE  Goal
    BY <1>0, <2>1 DEF Statuses
  <2> QED
    BY <1>3, <2>1 DEF Interrupt
<1>5. (\E i \in Instances : K6Ends(i)) => Goal
  BY <1>0 DEF K6Ends, Statuses
<1> SUFFICES Goal \/ (\E t \in Threads, i \in Instances : Deliver(t, i)) \/ \E i \in Instances : K6Up(i)
  OBVIOUS
<1> HIDE DEF Goal
<1>6. CASE Clock \/ TakeTick \/ MarkStarted \/ UNCHANGED vars
  BY <1>1, <1>6 DEF Clock, TakeTick, MarkStarted, vars
<1>7. CASE GraceOver
  <2>1. (UNCHANGED k6) \/ KillMayFail
    BY <1>7 DEF GraceOver
  <2> QED
    BY <1>1, <1>3, <2>1
<1>8. ASSUME NEW t \in Threads, ThreadStep(t)
      PROVE  Goal \/ \E i \in Instances : Deliver(t, i)
  <2>1. CASE Apply(t) \/ Raised(t) \/ Sent(t) \/ NotSent(t) \/ EnforceDeadline(t) \/ RequestStop(t)
    BY <1>1, <2>1 DEF Apply, Raised, Sent, NotSent, EnforceDeadline, RequestStop
  <2>2. CASE StopSent(t)
    BY <1>1, <1>4, <2>2 DEF StopSent
  <2> QED
    BY <1>8, <2>1, <2>2 DEF ThreadStep, PatchStep, StopStep
<1>9. ASSUME NEW u \in Users, Begin(u) \/ UserStep(u)
      PROVE  Goal
  BY <1>1, <1>3, <1>9 DEF Begin, UserStep, SetVUs, ResumeSchedule, SetPaused, SetDuration, StopRun, KillRun,
                TakeManual, PausedSent
<1>10. CASE \E i \in Instances : K6Up(i) \/ K6Ends(i)
  BY <1>5, <1>10
<1>11. CASE \E t \in Threads : ThreadStep(t)
  BY <1>8, <1>11
<1>12. CASE \E u \in Users : Begin(u) \/ UserStep(u)
  BY <1>9, <1>12
<1> QED
  BY <1>6, <1>7, <1>10, <1>11, <1>12 DEF Next
-----------------------------------------------------------------------------
(* Time                                                                    *)

\* The fields of the runProcess that time is measured with stay.
SameClocks ==
  /\ rp'.started = rp.started /\ rp'.start = rp.start /\ rp'.paused = rp.paused
  /\ rp'.pausedAt = rp.pausedAt /\ rp'.pausedTotal = rp.pausedTotal

\* What a step can do to the time of the run.
LEMMA TimeKinds ==
  ASSUME TypeInv, [Next]_vars
  PROVE  \/ UNCHANGED <<now, ran>> /\ SameClocks
         \/ Clock
         \/ MarkStarted
         \/ /\ \E p \in BOOLEAN : SetPausedNow(p) /\ UNCHANGED <<now, ran>>
            /\ "pause" \in Calls \/ \E t \in Threads : call[t].op = "paused"
<1> USE DEF SameClocks
<1>0. rp \in RunProcesses
  BY DEF TypeInv, TypeOK
<1>1. CASE TakeTick
  BY <1>0, <1>1 DEF TakeTick, Drive, RunProcesses
<1>2. CASE GraceOver
  BY <1>2 DEF GraceOver
<1>3. ASSUME NEW t \in Threads, ThreadStep(t)
      PROVE  UNCHANGED <<now, ran>> /\ SameClocks
  <2>1. CASE Apply(t) \/ NotSent(t) \/ StopSent(t) \/ EnforceDeadline(t) \/ (\E i \in Instances : Deliver(t, i))
    BY <2>1 DEF Apply, NotSent, StopSent, EnforceDeadline, Deliver
  <2>2. CASE Raised(t)
    BY <1>0, <2>2 DEF Raised, RunProcesses
  <2>3. CASE Sent(t)
    BY <1>0, <2>3 DEF Sent, RunProcesses
  <2>4. CASE RequestStop(t)
    BY <1>0, <2>4 DEF RequestStop, RunProcesses
  <2> QED
    BY <1>3, <2>1, <2>2, <2>3, <2>4 DEF ThreadStep, PatchStep, StopStep
<1>4. ASSUME NEW u \in Users, Begin(u)
      PROVE  \/ UNCHANGED <<now, ran>> /\ SameClocks
             \/ /\ \E p \in BOOLEAN : SetPausedNow(p) /\ UNCHANGED <<now, ran>>
                /\ "pause" \in Calls \/ \E t \in Threads : call[t].op = "paused"
  <2>1. CASE (\E n \in VUChoices : SetVUs(u, n)) \/ StopRun(u) \/ KillRun(u)
    BY <2>1 DEF SetVUs, StopRun, KillRun
  <2>2. CASE ResumeSchedule(u)
    BY <1>0, <2>2 DEF ResumeSchedule, RunProcesses
  <2>3. CASE \E p \in BOOLEAN : SetPaused(u, p)
    BY <2>3 DEF SetPaused
  <2>4. CASE \E d \in DurChoices : SetDuration(u, d)
    BY <1>0, <2>4 DEF SetDuration, RunProcesses
  <2> QED
    BY <1>4, <2>1, <2>2, <2>3, <2>4 DEF Begin
<1>5. ASSUME NEW u \in Users, UserStep(u)
      PROVE  \/ UNCHANGED <<now, ran>> /\ SameClocks
             \/ /\ \E p \in BOOLEAN : SetPausedNow(p) /\ UNCHANGED <<now, ran>>
                /\ "pause" \in Calls \/ \E t \in Threads : call[t].op = "paused"
  <2>1. CASE TakeManual(u)
    BY <1>0, <2>1 DEF TakeManual, RunProcesses
  <2>2. CASE PausedSent(u)
    <3>1. (call[u].n = 1) \in BOOLEAN
      OBVIOUS
    <3> QED
      BY <2>2, <3>1 DEF PausedSent, Answered, Threads
  <2> QED
    BY <1>5, <2>1, <2>2 DEF UserStep
<1>6. CASE \E i \in Instances : K6Up(i) \/ K6Ends(i)
  BY <1>6 DEF K6Up, K6Ends
<1>7. CASE UNCHANGED vars
  BY <1>7 DEF vars
<1> QED
  BY <1>1, <1>2, <1>3, <1>4, <1>5, <1>6, <1>7 DEF Next

\* The elapsed time of a started run grows with the clock, while the run is
\* not paused, and only then; before the start it is nothing.
LEMMA ElapsedKinds ==
  ASSUME TypeInv, TypeInv', [Next]_vars
  PROVE  /\ Elapsed(now) \in Int
         /\ rp.started => /\ rp'.started
                          /\ Elapsed(now)' = Elapsed(now) + IF Clock /\ ~rp.paused THEN 1 ELSE 0
         /\ ~rp.started /\ ~MarkStarted => Elapsed(now)' = 0 /\ ~rp'.started
<1>0. rp \in RunProcesses /\ now \in Int /\ rp' \in RunProcesses
  BY EnvironmentAssumption DEF TypeInv, TypeOK
<1>1. Elapsed(now) \in Int
  BY <1>0, ElapsedType
<1>2. CASE Clock
  BY <1>0, <1>2 DEF Clock, Elapsed, RunProcesses
<1>3. CASE ~Clock /\ UNCHANGED <<now, ran>> /\ SameClocks
  BY <1>0, <1>1, <1>3 DEF SameClocks, Elapsed, RunProcesses
<1>4. CASE MarkStarted
  BY <1>1, <1>4 DEF MarkStarted, Clock
<1>5. ASSUME NEW p \in BOOLEAN, SetPausedNow(p), UNCHANGED <<now, ran>>
      PROVE  Elapsed(now)' = Elapsed(now) /\ rp'.started = rp.started
  <2>1. CASE p /\ ~rp.paused
    <3>1. rp' = [rp EXCEPT !.paused = TRUE, !.pausedAt = now]
      BY <1>5, <2>1 DEF SetPausedNow
    <3> QED
      BY <1>0, <1>5, <2>1, <3>1 DEF Elapsed, RunProcesses
  <2>2. CASE ~p /\ rp.paused
    <3>1. rp' = [rp EXCEPT !.paused = FALSE, !.pausedTotal = rp.pausedTotal + now - rp.pausedAt]
      BY <1>5, <2>2 DEF SetPausedNow
    <3> QED
      BY <1>0, <1>5, <2>2, <3>1 DEF Elapsed, RunProcesses
  <2>3. CASE ~(p /\ ~rp.paused) /\ ~(~p /\ rp.paused)
    BY <1>5, <2>3 DEF SetPausedNow, Elapsed
  <2> QED
    BY <2>1, <2>2, <2>3
<1>6. UNCHANGED <<now, ran>> => ~Clock
  BY <1>0 DEF Clock
<1>7. ~rp.started => Elapsed(now) = 0
  BY DEF Elapsed
<1> QED
  BY <1>1, <1>2, <1>3, <1>4, <1>5, <1>6, <1>7, TimeKinds
-----------------------------------------------------------------------------
(* The engine and a local k6                                               *)

\* One k6 that answers every PATCH, and calls that are made one at a time.
OneByOne == ~Cluster /\ ~Overlap /\ ~Faults

\* The parts of AgreeInv: about a call, the loop, and an instance.
CallAgrees(t) ==
  at[t] = "patching" =>
    /\ call[t].todo \in {{}, Instances}
    /\ call[t].todo # {} => call[t].ok
    /\ call[t].op = "vus-max" => call[t].n > rp.vusMax
LoopYields ==
  rp.manualVUs =>
    /\ at[Loop] # "apply"
    /\ at[Loop] = "patching" => call[Loop].op \notin {"vus", "vus-max"}
K6Knows(i) ==
  /\ \A t \in Threads :
       /\ Taken(t, "vus") \/ at[t] = "manual" => k6[i].vus = call[t].n
       /\ Taken(t, "vus-max") => k6[i].max = call[t].n
       /\ Taken(t, "paused")  => k6[i].paused = (call[t].n = 1)
  /\ rp.manualVUs /\ (\A t \in Threads : ~Taken(t, "vus") /\ at[t] # "manual")
       => k6[i].vus = rp.targetVUs
  /\ (\A t \in Threads : ~Taken(t, "paused")) /\ RestPause
       => k6[i].paused = rp.paused
  /\ k6[i].max >= rp.vusMax

LEMMA AgreeParts ==
  /\ AgreeInv <=> /\ \A t \in Threads : CallAgrees(t)
                  /\ LoopYields
                  /\ \A i \in Instances : K6Knows(i)
  /\ AgreeInv' <=> /\ \A t \in Threads : CallAgrees(t)'
                   /\ LoopYields'
                   /\ \A i \in Instances : K6Knows(i)'
<1>1. AgreeInv <=> (\A t \in Threads : CallAgrees(t)) /\ LoopYields /\ \A i \in Instances : K6Knows(i)
  BY DEF AgreeInv, CallAgrees, LoopYields, K6Knows
<1>2. AgreeInv' <=> (\A t \in Threads : CallAgrees(t)') /\ LoopYields' /\ \A i \in Instances : K6Knows(i)'
  BY DEF AgreeInv, CallAgrees, LoopYields, K6Knows
<1> QED
  BY <1>1, <1>2

LEMMA AgreeInit == OneByOne /\ Init => AgreeInv
<1> SUFFICES ASSUME OneByOne, Init
             PROVE  AgreeInv
  OBVIOUS
<1>1. \A t \in Threads : at[t] = "idle"
  BY DEF Init
<1>2. \A i \in Instances : k6[i].max = MaxVUs /\ k6[i].paused = FALSE
  BY DEF Init
<1>3. rp.manualVUs = FALSE /\ rp.paused = FALSE /\ rp.vusMax = MaxVUs /\ MaxVUs \in Nat
  BY PlanAssumption DEF Init
<1>4. \A t \in Threads : CallAgrees(t)
  BY <1>1 DEF CallAgrees
<1>5. LoopYields
  BY <1>3 DEF LoopYields
<1>6. \A i \in Instances : K6Knows(i)
  <2>1. \A t \in Threads : at[t] # "manual" /\ (\A op : ~Taken(t, op))
    BY <1>1 DEF Taken, Answered
  <2>2. MaxVUs >= MaxVUs
    BY <1>3
  <2>3. ASSUME NEW i \in Instances
        PROVE  K6Knows(i)
    <3>1. k6[i].max >= rp.vusMax /\ k6[i].paused = rp.paused
      BY <1>2, <1>3, <2>2
    <3> QED
      BY <1>3, <2>1, <3>1 DEF K6Knows
  <2> QED
    BY <2>3
<1> QED
  BY <1>4, <1>5, <1>6, AgreeParts

\* What the engine notes of k6 stays.
SameNotes ==
  /\ rp'.manualVUs = rp.manualVUs /\ rp'.vusMax = rp.vusMax
  /\ rp.manualVUs => rp'.targetVUs = rp.targetVUs
  /\ RestPause => rp'.paused = rp.paused

\* What k6 was told stays.
SameStatus ==
  \A i \in Instances :
    k6'[i].vus = k6[i].vus /\ k6'[i].max = k6[i].max /\ k6'[i].paused = k6[i].paused

\* Thread t has told k6 something the engine has not noted yet.
Carries(t) ==
  Taken(t, "vus") \/ Taken(t, "vus-max") \/ Taken(t, "paused") \/ at[t] = "manual"

LEMMA CarriesNothing ==
  ASSUME NEW t, at[t] \notin {"patching", "manual"}
  PROVE  ~Carries(t)
  BY DEF Carries, Taken, Answered

\* A step of one thread.
LEMMA OnlyOne ==
  ASSUME TypeInv, NEW t \in Threads,
         UNCHANGED at \/ \E s : Goto(t, s),
         UNCHANGED call \/ \E c : call' = [call EXCEPT ![t] = c]
  PROVE  \A u \in Threads \ {t} : at'[u] = at[u] /\ call'[u] = call[u]
  BY DEF TypeInv, TypeOK, Goto

\* The end of a k6 changes nothing it was told.
LEMMA KillKeeps ==
  ASSUME TypeInv, KillMayFail \/ Interrupt
  PROVE  SameStatus
<1>0. k6 \in [Instances -> Statuses]
  BY DEF TypeInv, TypeOK
<1>1. (UNCHANGED k6) \/ Kill => SameStatus
  BY <1>0 DEF Kill, SameStatus, Statuses
<1>2. Interrupt => KillMayFail \/ SameStatus
  BY <1>0 DEF Interrupt, SameStatus, Statuses
<1> QED
  BY <1>1, <1>2 DEF KillMayFail

\* A step of thread t that tells k6 nothing and has nothing to note.
LEMMA KeepsKnowing ==
  ASSUME NEW t \in Threads, \A u \in Threads \ {t} : at'[u] = at[u] /\ call'[u] = call[u],
         ~Carries(t), ~Carries(t)', SameNotes, SameStatus,
         NEW i \in Instances, K6Knows(i)
  PROVE  K6Knows(i)'
<1>1. ASSUME NEW u \in Threads, u # t
      PROVE  /\ at'[u] = at[u] /\ call'[u] = call[u]
             /\ \A op : Taken(u, op)' = Taken(u, op)
  BY <1>1 DEF Taken, Answered
<1>2. \A op \in {"vus", "vus-max", "paused"} : ~Taken(t, op) /\ ~Taken(t, op)'
  BY DEF Carries
<1>3. at[t] # "manual" /\ at'[t] # "manual"
  BY DEF Carries
<1> QED
  BY <1>1, <1>2, <1>3 DEF K6Knows, SameNotes, SameStatus

LEMMA AgreeKeeps ==
  ASSUME AgreeInv, UNCHANGED <<at, call>>, SameNotes, SameStatus
  PROVE  AgreeInv'
<1>1. \A t \in Threads : CallAgrees(t)'
  BY AgreeParts DEF CallAgrees, SameNotes
<1>2. LoopYields'
  BY AgreeParts DEF LoopYields, SameNotes
<1>3. ASSUME NEW i \in Instances
      PROVE  K6Knows(i)'
  <2>1. K6Knows(i)
    BY AgreeParts
  <2>2. \A t \in Threads, op \in {"vus", "vus-max", "paused"} : Taken(t, op)' = Taken(t, op)
    BY DEF Taken, Answered
  <2> QED
    BY <2>1, <2>2 DEF K6Knows, SameNotes, SameStatus
<1> QED
  BY <1>1, <1>2, <1>3, AgreeParts

\* A step of thread t that ends, begins or sends a call.
LEMMA AgreeMoves ==
  ASSUME AgreeInv, NEW t \in Threads,
         \A u \in Threads \ {t} : at'[u] = at[u] /\ call'[u] = call[u],
         ~Carries(t), ~Carries(t)', CallAgrees(t)', LoopYields', SameNotes, SameStatus
  PROVE  AgreeInv'
<1>1. \A u \in Threads : CallAgrees(u)'
  BY AgreeParts DEF CallAgrees, SameNotes
<1>2. \A i \in Instances : K6Knows(i)'
  BY AgreeParts, KeepsKnowing
<1> QED
  BY <1>1, <1>2, AgreeParts

\* A PATCH that is being sent to the one k6 has not been taken by it.
LEMMA SendAgrees ==
  ASSUME OneByOne, NEW t \in Threads, NEW op, NEW n, Send(t, op, n),
         at \in [Threads -> Steps], call \in [Threads -> Patches],
         op = "vus-max" => n > rp'.vusMax
  PROVE  /\ ~Carries(t)' /\ CallAgrees(t)'
         /\ at'[t] = "patching" /\ call'[t].op = op
<1>1. PICK apis : apis = Apis
  OBVIOUS
<1>2. apis = Instances /\ apis # {}
  BY <1>1, EnvironmentAssumption DEF Apis, OneByOne
<1>3. PICK c : c = [op |-> op, n |-> n, todo |-> apis, ok |-> apis # {}]
  OBVIOUS
<1>4. at'[t] = "patching" /\ call'[t] = c
  BY <1>1, <1>3 DEF Send, Goto
<1>5. c.op = op /\ c.n = n /\ c.todo = apis /\ c.ok
  BY <1>2, <1>3
<1> QED
  BY <1>2, <1>4, <1>5 DEF Carries, Taken, Answered, CallAgrees

\* A thread that goes on to something else carries nothing.
LEMMA GoesOn ==
  ASSUME NEW t \in Threads, at'[t] \notin {"patching", "manual"}
  PROVE  ~Carries(t)' /\ CallAgrees(t)'
  BY DEF Carries, Taken, Answered, CallAgrees

\* What a thread says to k6 arrives, or is refused.
LEMMA DeliverAgrees ==
  ASSUME OneByOne, TypeInv, OneAtATime, AgreeInv,
         NEW t \in Threads, NEW i \in Instances, Deliver(t, i)
  PROVE  AgreeInv'
<1>0. /\ k6 \in [Instances -> Statuses] /\ call \in [Threads -> Patches] /\ at \in [Threads -> Steps]
      /\ \A u \in Threads : CallAgrees(u)
      /\ LoopYields /\ K6Knows(i) /\ Instances = {i}
      /\ UNCHANGED <<rp, at>> /\ at[t] = "patching"
  BY AgreeParts, EnvironmentAssumption DEF TypeInv, TypeOK, OneByOne, Deliver
<1>1. PICK c : c = call[t]
  OBVIOUS
<1>2. c \in Patches /\ c.todo = Instances /\ c.ok
  <2>1. i \in c.todo /\ CallAgrees(t)
    BY <1>0, <1>1 DEF Deliver
  <2> QED
    BY <1>0, <1>1, <2>1 DEF CallAgrees
<1>3. PICK good \in BOOLEAN :
        /\ call' = [call EXCEPT ![t] = [c EXCEPT !.todo = c.todo \ {i}, !.ok = c.ok /\ good]]
        /\ IF good THEN Accepts(i, c.op, c.n) /\ k6' = [k6 EXCEPT ![i] = Applied(i, c.op, c.n)]
           ELSE k6' = k6
  BY <1>1 DEF Deliver, OneByOne
<1>4. PICK d : d = [c EXCEPT !.todo = c.todo \ {i}, !.ok = c.ok /\ good]
  OBVIOUS
<1>5. call'[t] = d /\ d.op = c.op /\ d.n = c.n /\ d.todo = {} /\ d.ok = good
  BY <1>0, <1>2, <1>3, <1>4 DEF Patches
<1>6. \A u \in Threads \ {t} : at[u] = "idle" /\ at'[u] = "idle" /\ call'[u] = call[u]
  BY <1>0, <1>3 DEF OneAtATime, OneByOne
<1>7. \A u \in Threads : CallAgrees(u)'
  BY <1>0, <1>1, <1>2, <1>5, <1>6 DEF CallAgrees
<1>8. LoopYields'
  BY <1>0, <1>1, <1>5, <1>6 DEF LoopYields, Threads
<1>9. K6Knows(i)'
  <2>1. \A op : /\ Taken(t, op)' = (op = c.op /\ good) /\ ~Taken(t, op)
                /\ \A u \in Threads \ {t} : ~Taken(u, op) /\ ~Taken(u, op)'
    BY <1>0, <1>1, <1>2, <1>5, <1>6, EnvironmentAssumption DEF Taken, Answered
  <2>2. \A u \in Threads : at[u] # "manual" /\ at'[u] # "manual"
    BY <1>0, <1>6
  <2>3. CASE ~good
    <3>1. k6' = k6
      BY <1>3, <2>3
    <3> QED
      BY <1>0, <2>1, <2>2, <2>3, <3>1 DEF K6Knows
  <2>4. CASE good
    <3>1. Accepts(i, c.op, c.n) /\ k6'[i] = Applied(i, c.op, c.n)
      BY <1>0, <1>3, <2>4
    <3>2. c.op \in Ops \ {"none"} /\ c.n \in Int /\ rp.vusMax \in Int /\ k6[i] \in Statuses
      BY <1>0, <1>1, <1>2 DEF TypeInv, TypeOK, Patches, RunProcesses
    <3>3. CASE c.op = "vus"
      <4>1. k6'[i] = [k6[i] EXCEPT !.vus = c.n]
        BY <3>1, <3>3 DEF Applied
      <4>2. k6'[i].vus = c.n /\ k6'[i].max = k6[i].max /\ k6'[i].paused = k6[i].paused
        BY <3>2, <4>1 DEF Statuses
      <4> QED
        BY <1>0, <1>5, <2>1, <2>2, <2>4, <3>3, <4>2 DEF K6Knows
    <3>4. CASE c.op = "vus-max"
      <4>1. k6'[i] = [k6[i] EXCEPT !.max = c.n]
        BY <3>1, <3>4 DEF Applied
      <4>2. k6'[i].vus = k6[i].vus /\ k6'[i].max = c.n /\ k6'[i].paused = k6[i].paused
        BY <3>2, <4>1 DEF Statuses
      <4>3. c.n > rp.vusMax
        BY <1>0, <1>1, <3>4 DEF CallAgrees
      <4>4. k6'[i].max >= rp'.vusMax
        BY <1>0, <3>2, <4>2, <4>3
      <4> QED
        BY <1>0, <1>5, <2>1, <2>2, <2>4, <3>4, <4>2, <4>4 DEF K6Knows
    <3>5. CASE c.op = "paused"
      <4>1. k6'[i] = [k6[i] EXCEPT !.paused = (c.n = 1)]
        BY <3>1, <3>5 DEF Applied
      <4>2. k6'[i].vus = k6[i].vus /\ k6'[i].max = k6[i].max /\ k6'[i].paused = (c.n = 1)
        BY <3>2, <4>1 DEF Statuses
      <4> QED
        BY <1>0, <1>5, <2>1, <2>2, <2>4, <3>5, <4>2 DEF K6Knows
    <3>6. CASE c.op = "stopped"
      <4>1. k6'[i] = [k6[i] EXCEPT !.life = "stopping"]
        BY <3>1, <3>6 DEF Applied
      <4>2. k6'[i].vus = k6[i].vus /\ k6'[i].max = k6[i].max /\ k6'[i].paused = k6[i].paused
        BY <3>2, <4>1 DEF Statuses
      <4> QED
        BY <1>0, <1>5, <2>1, <2>2, <2>4, <3>6, <4>2 DEF K6Knows
    <3> QED
      BY <3>2, <3>3, <3>4, <3>5, <3>6 DEF Ops
  <2> QED
    BY <2>3, <2>4
<1> QED
  BY <1>0, <1>7, <1>8, <1>9, AgreeParts

\* The engine notes what k6 has taken: a VU count,
LEMMA SentAgrees ==
  ASSUME OneByOne, TypeInv, OneAtATime, AgreeInv, NEW t \in Threads, Sent(t)
  PROVE  AgreeInv'
<1>0. /\ rp \in RunProcesses /\ call \in [Threads -> Patches] /\ at \in [Threads -> Steps]
      /\ \A u \in Threads : CallAgrees(u)
      /\ LoopYields /\ \A i \in Instances : K6Knows(i)
      /\ UNCHANGED <<k6, call>> /\ at[t] = "patching" /\ Taken(t, "vus")
  BY AgreeParts DEF TypeInv, TypeOK, Sent, Answered, Taken
<1>1. /\ rp'.manualVUs = rp.manualVUs /\ rp'.vusMax = rp.vusMax /\ rp'.paused = rp.paused
      /\ rp'.targetVUs = rp.targetVUs
  BY <1>0 DEF Sent, RunProcesses
<1>2. \A u \in Threads \ {t} : at[u] = "idle" /\ at'[u] = "idle"
  BY <1>0 DEF OneAtATime, OneByOne, Sent, Goto
<1>3. at'[t] = IF t = Loop THEN "due" ELSE "manual"
  BY <1>0 DEF Sent, Goto, AfterApply
<1>4. call[t].op = "vus"
  BY <1>0 DEF Taken, Answered
<1>5. \A u \in Threads : at'[u] # "patching"
  BY <1>2, <1>3
<1>6. (\A u \in Threads : CallAgrees(u)') /\ LoopYields'
  BY <1>2, <1>3, <1>5 DEF CallAgrees, LoopYields, Threads
<1>7. ASSUME NEW i \in Instances
      PROVE  K6Knows(i)'
  <2>1. K6Knows(i) /\ k6[i].vus = call[t].n
    BY <1>0 DEF K6Knows
  <2>2. \A u \in Threads : \A op : ~Taken(u, op)'
    BY <1>5 DEF Taken, Answered
  <2>3. \A u \in Threads : ~Taken(u, "paused")
    BY <1>2, <1>4 DEF Taken, Answered
  <2>4. t = Loop => ~rp.manualVUs
    BY <1>0, <1>4 DEF LoopYields
  <2> QED
    BY <1>0, <1>1, <1>2, <1>3, <2>1, <2>2, <2>3, <2>4 DEF K6Knows
<1> QED
  BY <1>6, <1>7, AgreeParts

\* the maximum, before the VU count that needs it is sent,
LEMMA RaisedAgrees ==
  ASSUME OneByOne, TypeInv, OneAtATime, AgreeInv, NEW t \in Threads, Raised(t)
  PROVE  AgreeInv'
<1>0. /\ rp \in RunProcesses /\ call \in [Threads -> Patches] /\ at \in [Threads -> Steps]
      /\ \A u \in Threads : CallAgrees(u)
      /\ LoopYields /\ \A i \in Instances : K6Knows(i)
      /\ UNCHANGED k6 /\ at[t] = "patching" /\ Taken(t, "vus-max")
  BY AgreeParts DEF TypeInv, TypeOK, Raised, Answered, Taken
<1>1. /\ rp'.manualVUs = rp.manualVUs /\ rp'.vusMax = call[t].n /\ rp'.paused = rp.paused
      /\ rp'.targetVUs = rp.targetVUs
  BY <1>0 DEF Raised, RunProcesses
<1>2. Send(t, "vus", call[t].n)
  BY DEF Raised
<1>3. \A u \in Threads \ {t} : at[u] = "idle" /\ at'[u] = "idle"
  BY <1>0, <1>2 DEF OneAtATime, OneByOne, Send, Goto
<1>4. ~Carries(t)' /\ CallAgrees(t)' /\ at'[t] = "patching"
  BY <1>0, <1>2, SendAgrees
<1>5. call[t].op = "vus-max" /\ call[t].n \in Int
  BY <1>0 DEF Taken, Answered, Patches
<1>6. \A u \in Threads : CallAgrees(u)'
  BY <1>3, <1>4 DEF CallAgrees
<1>7. LoopYields'
  BY <1>0, <1>1, <1>3, <1>5 DEF LoopYields, Threads
<1>8. ASSUME NEW i \in Instances
      PROVE  K6Knows(i)'
  <2>1. K6Knows(i) /\ k6[i].max = call[t].n
    BY <1>0 DEF K6Knows
  <2>2. \A u \in Threads : ~Carries(u)'
    <3>1. \A u \in Threads \ {t} : ~Carries(u)'
      BY <1>3 DEF Carries, Taken, Answered
    <3> QED
      BY <1>4, <3>1
  <2>3. \A u \in Threads : ~Taken(u, "paused") /\ ~Taken(u, "vus") /\ at[u] # "manual"
    BY <1>0, <1>3, <1>5 DEF Taken, Answered
  <2>4. k6'[i].max >= rp'.vusMax
    BY <1>0, <1>1, <1>5, <2>1
  <2> QED
    BY <1>0, <1>1, <2>1, <2>2, <2>3, <2>4 DEF K6Knows, Carries
<1> QED
  BY <1>6, <1>7, <1>8, AgreeParts

\* control by hand,
LEMMA ManualAgrees ==
  ASSUME OneByOne, TypeInv, OneAtATime, AgreeInv, NEW t \in Users, TakeManual(t)
  PROVE  AgreeInv'
<1>0. /\ rp \in RunProcesses /\ call \in [Threads -> Patches] /\ at \in [Threads -> Steps]
      /\ \A i \in Instances : K6Knows(i)
      /\ UNCHANGED k6 /\ at[t] = "manual" /\ t \in Threads /\ t # Loop
  BY AgreeParts, ThreadsAssumption DEF TypeInv, TypeOK, TakeManual, Threads
<1>1. /\ rp'.manualVUs = TRUE /\ rp'.vusMax = rp.vusMax /\ rp'.paused = rp.paused
      /\ rp'.targetVUs = call[t].n
  BY <1>0 DEF TakeManual, RunProcesses
<1>2. \A u \in Threads : at'[u] = "idle" /\ (u # t => at[u] = "idle")
  BY <1>0 DEF OneAtATime, OneByOne, TakeManual, Return, Goto
<1>3. (\A u \in Threads : CallAgrees(u)') /\ LoopYields'
  BY <1>2 DEF CallAgrees, LoopYields, Threads
<1>4. ASSUME NEW i \in Instances
      PROVE  K6Knows(i)'
  <2>1. \A u \in Threads : \A op : ~Taken(u, op) /\ ~Taken(u, op)'
    BY <1>0, <1>2 DEF Taken, Answered
  <2> QED
    BY <1>0, <1>1, <1>2, <2>1 DEF K6Knows
<1> QED
  BY <1>3, <1>4, AgreeParts

\* and a pause.
LEMMA PausedAgrees ==
  ASSUME OneByOne, TypeInv, OneAtATime, AgreeInv, NEW t \in Users, PausedSent(t)
  PROVE  AgreeInv'
<1>0. /\ rp \in RunProcesses /\ call \in [Threads -> Patches] /\ at \in [Threads -> Steps]
      /\ LoopYields /\ \A i \in Instances : K6Knows(i)
      /\ UNCHANGED k6 /\ at[t] = "patching" /\ call[t].op = "paused" /\ t \in Threads /\ t # Loop
  BY AgreeParts, ThreadsAssumption DEF TypeInv, TypeOK, PausedSent, Answered, Threads
<1>1. /\ rp'.manualVUs = rp.manualVUs /\ rp'.vusMax = rp.vusMax /\ rp'.targetVUs = rp.targetVUs
      /\ rp'.paused = IF call[t].ok THEN call[t].n = 1 ELSE rp.paused
  <2>1. CASE call[t].ok
    <3>1. PICK p \in BOOLEAN : p = (call[t].n = 1)
      OBVIOUS
    <3>2. SetPausedNow(p)
      BY <2>1, <3>1 DEF PausedSent
    <3>3. rp'.manualVUs = rp.manualVUs /\ rp'.vusMax = rp.vusMax /\ rp'.targetVUs = rp.targetVUs
          /\ rp'.paused = p
      BY <1>0, <3>2 DEF SetPausedNow, RunProcesses
    <3> QED
      BY <2>1, <3>1, <3>3
  <2>2. CASE ~call[t].ok
    BY <2>2 DEF PausedSent
  <2> QED
    BY <2>1, <2>2
<1>2. \A u \in Threads : at'[u] = "idle" /\ (u # t => at[u] = "idle")
  BY <1>0 DEF OneAtATime, OneByOne, PausedSent, Return, Goto
<1>3. (\A u \in Threads : CallAgrees(u)') /\ LoopYields'
  BY <1>2 DEF CallAgrees, LoopYields, Threads
<1>4. ASSUME NEW i \in Instances
      PROVE  K6Knows(i)'
  <2>1. \A u \in Threads : \A op : ~Taken(u, op)' /\ (Taken(u, op) <=> u = t /\ op = "paused" /\ call[t].ok)
    BY <1>0, <1>2 DEF Taken, Answered, PausedSent
  <2>2. \A u \in Threads : at[u] # "manual"
    BY <1>0, <1>2
  <2> QED
    BY <1>0, <1>1, <1>2, <2>1, <2>2 DEF K6Knows
<1> QED
  BY <1>3, <1>4, AgreeParts

LEMMA AgreeStep ==
  ASSUME OneByOne, TypeInv, OneAtATime, AgreeInv, [Next]_vars
  PROVE  AgreeInv'
<1>0. /\ rp \in RunProcesses /\ k6 \in [Instances -> Statuses]
      /\ call \in [Threads -> Patches] /\ at \in [Threads -> Steps]
      /\ LoopYields /\ \A i \in Instances : K6Knows(i)
  BY AgreeParts DEF TypeInv, TypeOK
<1>1. Loop \in Threads /\ Loop \notin Users /\ Users \subseteq Threads
  BY ThreadsAssumption DEF Threads
<1>2. CASE Clock \/ MarkStarted \/ GraceOver \/ (\E i \in Instances : K6Up(i) \/ K6Ends(i)) \/ UNCHANGED vars
  <2>1. UNCHANGED <<at, call>> /\ SameNotes
    BY <1>0, <1>2 DEF Clock, MarkStarted, GraceOver, K6Up, K6Ends, vars, RunProcesses, SameNotes
  <2>2. SameStatus
    <3>1. CASE \E i \in Instances : K6Up(i) \/ K6Ends(i)
      BY <1>0, <3>1 DEF K6Up, K6Ends, Statuses, SameStatus
    <3>2. CASE Clock \/ MarkStarted \/ UNCHANGED vars
      BY <3>2 DEF Clock, MarkStarted, vars, SameStatus
    <3>3. CASE GraceOver
      <4>1. (UNCHANGED k6) \/ KillMayFail
        BY <3>3 DEF GraceOver
      <4> QED
        BY <4>1, KillKeeps DEF SameStatus
    <3> QED
      BY <1>2, <3>1, <3>2, <3>3
  <2> QED
    BY <2>1, <2>2, AgreeKeeps
<1>3. CASE TakeTick
  <2>1. \A u \in Threads \ {Loop} : at'[u] = at[u] /\ call'[u] = call[u]
    BY <1>1, <1>3, OnlyOne DEF TakeTick, Drive
  <2>2. at[Loop] = "idle" /\ at'[Loop] \in {"apply", "due"} /\ (at'[Loop] = "apply" => ~rp'.manualVUs)
    BY <1>0, <1>1, <1>3 DEF TakeTick, Drive, Goto, Follows, RunProcesses
  <2>3. SameNotes /\ SameStatus /\ LoopYields'
    BY <1>0, <1>3, <2>2 DEF TakeTick, Drive, Follows, RunProcesses, SameNotes, SameStatus, LoopYields
  <2> QED
    BY <1>1, <2>1, <2>2, <2>3, CarriesNothing, GoesOn, AgreeMoves
<1>4. ASSUME NEW t \in Threads, ThreadStep(t)
      PROVE  AgreeInv'
  <2>1. CASE Apply(t)
    <3>1. PICK op \in {"vus-max", "vus"} : Send(t, op, call[t].n) /\ (op = "vus-max" => call[t].n > rp.vusMax)
      BY <2>1 DEF Apply
    <3>2. \A u \in Threads \ {t} : at'[u] = at[u] /\ call'[u] = call[u]
      BY <3>1, OnlyOne DEF Send
    <3>3. SameNotes /\ SameStatus /\ ~Carries(t) /\ UNCHANGED rp
      BY <2>1, CarriesNothing DEF Apply, SameNotes, SameStatus
    <3>4. LoopYields'
      BY <1>0, <1>1, <2>1, <3>2, <3>3 DEF LoopYields, Apply
    <3>5. ~Carries(t)' /\ CallAgrees(t)'
      BY <1>0, <3>1, <3>3, SendAgrees
    <3> QED
      BY <3>2, <3>3, <3>4, <3>5, AgreeMoves
  <2>2. CASE \E i \in Instances : Deliver(t, i)
    BY <2>2, DeliverAgrees
  <2>3. CASE StopSent(t)
    <3>1. \A u \in Threads \ {t} : at'[u] = at[u] /\ call'[u] = call[u]
      BY <2>3, OnlyOne DEF StopSent, Return
    <3>2. ~Carries(t) /\ at[t] = "patching" /\ at'[t] = "idle"
      BY <1>0, <2>3 DEF StopSent, Return, Goto, Carries, Taken, Answered
    <3>3. SameNotes /\ UNCHANGED rp
      BY <2>3 DEF StopSent, SameNotes
    <3>4. SameStatus
      <4>1. (UNCHANGED k6) \/ Interrupt
        BY <2>3 DEF StopSent
      <4> QED
        BY <4>1, KillKeeps DEF SameStatus
    <3>5. LoopYields'
      BY <1>0, <1>1, <3>1, <3>2, <3>3 DEF LoopYields
    <3> QED
      BY <3>1, <3>2, <3>3, <3>4, <3>5, GoesOn, AgreeMoves
  <2>4. CASE Raised(t)
    BY <2>4, RaisedAgrees
  <2>5. CASE Sent(t)
    BY <2>5, SentAgrees
  <2>6. CASE NotSent(t)
    <3>1. \A u \in Threads \ {t} : at'[u] = at[u] /\ call'[u] = call[u]
      BY <2>6, OnlyOne DEF NotSent, Return
    <3>2. ~Carries(t) /\ at'[t] \in {"idle", "due"}
      BY <1>0, <2>6 DEF NotSent, Return, Goto, AfterApply, Carries, Taken, Answered
    <3>3. SameNotes /\ SameStatus /\ UNCHANGED rp
      BY <2>6 DEF NotSent, SameNotes, SameStatus
    <3>4. LoopYields'
      BY <1>0, <1>1, <3>1, <3>2, <3>3 DEF LoopYields
    <3> QED
      BY <3>1, <3>2, <3>3, <3>4, GoesOn, AgreeMoves
  <2>7. CASE EnforceDeadline(t)
    <3>1. \A u \in Threads \ {t} : at'[u] = at[u] /\ call'[u] = call[u]
      BY <2>7, OnlyOne DEF EnforceDeadline, Return
    <3>2. at[t] = "due" /\ at'[t] \in {"overdue", "idle"}
      BY <1>0, <2>7 DEF EnforceDeadline, Return, Goto
    <3>3. SameNotes /\ SameStatus /\ UNCHANGED rp
      BY <2>7 DEF EnforceDeadline, SameNotes, SameStatus
    <3>4. LoopYields'
      BY <1>0, <1>1, <3>1, <3>2, <3>3 DEF LoopYields
    <3> QED
      BY <3>1, <3>2, <3>3, <3>4, CarriesNothing, GoesOn, AgreeMoves
  <2>8. CASE RequestStop(t)
    <3>1. \A u \in Threads \ {t} : at'[u] = at[u] /\ call'[u] = call[u]
      <4>1. Return(t, "idle") \/ Send(t, "stopped", 1)
        BY <2>8 DEF RequestStop
      <4> QED
        BY <4>1, OnlyOne DEF Return, Send
    <3>2. SameNotes /\ SameStatus /\ at[t] \in {"overdue", "stopping"} /\ rp'.manualVUs = rp.manualVUs
      BY <1>0, <2>8 DEF RequestStop, SameNotes, SameStatus, RunProcesses
    <3>3. CASE Return(t, "idle")
      <4>1. at'[t] = "idle"
        BY <1>0, <3>3 DEF Return, Goto
      <4>2. LoopYields'
        BY <1>0, <1>1, <3>1, <3>2, <4>1 DEF LoopYields
      <4> QED
        BY <3>1, <3>2, <4>1, <4>2, CarriesNothing, GoesOn, AgreeMoves
    <3>4. CASE Send(t, "stopped", 1)
      <4>1. ~Carries(t)' /\ CallAgrees(t)' /\ at'[t] = "patching" /\ call'[t].op = "stopped"
        BY <1>0, <3>4, SendAgrees
      <4>2. LoopYields'
        BY <1>0, <1>1, <3>1, <3>2, <4>1 DEF LoopYields
      <4> QED
        BY <3>1, <3>2, <4>1, <4>2, CarriesNothing, AgreeMoves
    <3> QED
      BY <2>8, <3>3, <3>4 DEF RequestStop
  <2> QED
    BY <1>4, <2>1, <2>2, <2>3, <2>4, <2>5, <2>6, <2>7, <2>8 DEF ThreadStep, PatchStep, StopStep
<1>5. ASSUME NEW u \in Users, Begin(u)
      PROVE  AgreeInv'
  <2>0. u \in Threads /\ u # Loop /\ at[u] = "idle"
    BY <1>1, <1>5 DEF Begin, SetVUs, ResumeSchedule, SetPaused, SetDuration, StopRun, KillRun, MayBegin
  <2>1. CASE KillRun(u)
    <3>1. UNCHANGED <<at, call>> /\ SameNotes
      BY <2>1 DEF KillRun, SameNotes
    <3>2. SameStatus
      BY <2>1, KillKeeps DEF KillRun
    <3> QED
      BY <3>1, <3>2, AgreeKeeps
  <2>2. CASE ResumeSchedule(u)
    <3>1. /\ UNCHANGED <<at, call, k6>> /\ ~rp'.manualVUs /\ rp'.vusMax = rp.vusMax /\ rp'.paused = rp.paused
      BY <1>0, <2>2 DEF ResumeSchedule, RunProcesses
    <3>2. (\A t \in Threads : CallAgrees(t)') /\ LoopYields'
      BY <3>1, AgreeParts DEF CallAgrees, LoopYields
    <3>3. \A i \in Instances : K6Knows(i)'
      BY <1>0, <3>1 DEF K6Knows, Taken, Answered
    <3> QED
      BY <3>2, <3>3, AgreeParts
  <2>3. CASE (\E n \in VUChoices : SetVUs(u, n)) \/ (\E d \in DurChoices : SetDuration(u, d)) \/ StopRun(u)
    <3>1. \A t \in Threads \ {u} : at'[t] = at[t] /\ call'[t] = call[t]
      BY <2>0, <2>3, OnlyOne DEF SetVUs, SetDuration, StopRun
    <3>2. at'[u] \in {"apply", "due", "stopping"}
      BY <1>0, <2>0, <2>3 DEF SetVUs, SetDuration, StopRun, Goto
    <3>3. SameNotes /\ SameStatus /\ rp'.manualVUs = rp.manualVUs
      BY <1>0, <2>3 DEF SetVUs, SetDuration, StopRun, SameNotes, SameStatus, RunProcesses
    <3>4. LoopYields'
      BY <1>0, <1>1, <2>0, <3>1, <3>3 DEF LoopYields
    <3> QED
      BY <2>0, <3>1, <3>2, <3>3, <3>4, CarriesNothing, GoesOn, AgreeMoves
  <2>4. ASSUME NEW p \in BOOLEAN, SetPaused(u, p)
        PROVE  AgreeInv'
    <3>1. CASE RestPause
      <4>1. PICK n : Send(u, "paused", n)
        BY <2>4, <3>1 DEF SetPaused
      <4>2. \A t \in Threads \ {u} : at'[t] = at[t] /\ call'[t] = call[t]
        BY <2>0, <4>1, OnlyOne DEF Send
      <4>3. SameNotes /\ SameStatus /\ UNCHANGED rp
        BY <2>4, <3>1 DEF SetPaused, SameNotes, SameStatus
      <4>4. LoopYields'
        BY <1>0, <1>1, <2>0, <4>2, <4>3 DEF LoopYields
      <4>5. ~Carries(u)' /\ CallAgrees(u)'
        BY <1>0, <2>0, <4>1, SendAgrees
      <4> QED
        BY <2>0, <4>2, <4>3, <4>4, <4>5, CarriesNothing, AgreeMoves
    <3>2. CASE ~RestPause
      <4>1. UNCHANGED <<at, call>> /\ SameStatus /\ SetPausedNow(p)
        BY <2>4, <3>2 DEF SetPaused, SameStatus
      <4>2. SameNotes
        BY <1>0, <3>2, <4>1 DEF SetPausedNow, SameNotes, RunProcesses
      <4> QED
        BY <4>1, <4>2, AgreeKeeps
    <3> QED
      BY <3>1, <3>2
  <2> QED
    BY <1>5, <2>1, <2>2, <2>3, <2>4 DEF Begin
<1>6. ASSUME NEW u \in Users, UserStep(u)
      PROVE  AgreeInv'
  BY <1>6, ManualAgrees, PausedAgrees DEF UserStep
<1> QED
  BY <1>2, <1>3, <1>4, <1>5, <1>6 DEF Next

\* With one local k6 that answers, and calls one at a time, what the engine
\* shows of a run is what k6 does: VUs set by hand, the pause and the maximum.
THEOREM EngineAgrees == ASSUME OneByOne PROVE Spec => []K6Agrees
<1>1. AgreeInv => K6Agrees
  <2> SUFFICES ASSUME AgreeInv
               PROVE  K6Agrees
    OBVIOUS
  <2>1. ASSUME Quiet, NEW t \in Threads
        PROVE  at[t] # "manual" /\ \A op : ~Taken(t, op)
    BY <2>1 DEF Quiet, Taken, Answered
  <2>2. \A i \in Instances : K6Knows(i)
    BY AgreeParts
  <2> QED
    BY <2>1, <2>2 DEF K6Knows, K6Agrees, ManualSticks, PauseAgrees, MaxAgrees
<1>2. Init => TypeInv /\ OneAtATime /\ AgreeInv
  BY TypeInit, TurnsInit, AgreeInit
<1>3. TypeInv /\ OneAtATime /\ AgreeInv /\ [Next]_vars => (TypeInv /\ OneAtATime /\ AgreeInv)'
  BY TypeStep, TurnsStep, AgreeStep
<1> QED
  BY <1>1, <1>2, <1>3, PTL DEF Spec

\* Where nobody pauses, nothing is paused.
LEMMA NoPausesStep ==
  ASSUME TypeInv, NoPauses, "pause" \notin Calls, [Next]_vars
  PROVE  NoPauses'
<1>0. rp \in RunProcesses /\ call \in [Threads -> Patches] /\ k6 \in [Instances -> Statuses]
  BY DEF TypeInv, TypeOK
<1>1. ~rp'.paused /\ rp'.pausedTotal = 0
  <2>1. (UNCHANGED <<now, ran>> /\ SameClocks) \/ Clock \/ MarkStarted
    BY TimeKinds DEF NoPauses
  <2> QED
    BY <1>0, <2>1 DEF NoPauses, SameClocks, Clock, MarkStarted, RunProcesses
<1>2. \A t \in Threads : call'[t].op # "paused"
  BY NewPatch DEF NoPauses
<1>3. ASSUME NEW i \in Instances
      PROVE  ~k6'[i].paused
  <2>1. CASE \E j \in Instances : K6Up(j)
    BY <1>0, <2>1 DEF K6Up, NoPauses, Statuses
  <2>2. CASE \E t \in Threads, j \in Instances : Deliver(t, j)
    <3>1. PICK t \in Threads, j \in Instances : Deliver(t, j)
      BY <2>2
    <3>2. CASE k6' = k6
      BY <3>2 DEF NoPauses
    <3>3. CASE k6' = [k6 EXCEPT ![j] = Applied(j, call[t].op, call[t].n)]
      <4>1. call[t].op \in Ops \ {"none", "paused"} /\ k6[j] \in Statuses
        BY <1>0, <3>1 DEF NoPauses, TypeInv, Deliver, Patches
      <4>2. Applied(j, call[t].op, call[t].n).paused = k6[j].paused
        BY <4>1 DEF Applied, Ops, Statuses
      <4> QED
        BY <1>0, <3>3, <4>2 DEF NoPauses
    <3> QED
      BY <3>1, <3>2, <3>3 DEF Deliver
  <2> QED
    BY <2>1, <2>2, StatusKinds DEF NoPauses
<1> QED
  BY <1>1, <1>2, <1>3 DEF NoPauses

LEMMA TimeInit == Init => TimeInv
<1> SUFFICES ASSUME Init
             PROVE  TimeInv
  OBVIOUS
<1>1. NoPauses
  BY DEF Init, NoPauses, NoCall
<1>2. now = 0 /\ ran = 0 /\ rp.start = 0 /\ rp.pausedTotal = 0 /\ rp.paused = FALSE
  BY DEF Init
<1>3. Elapsed(now) = 0
  BY <1>2 DEF Elapsed
<1> QED
  BY <1>1, <1>2, <1>3 DEF TimeInv

\* The seconds that count are those in which the engine does not show the run
\* as paused.
LEMMA HeldIsPaused ==
  ASSUME TypeInv, PausesMeasured, TimeInv, OneByOne => AgreeInv, Clock
  PROVE  Held <=> rp.paused
<1>1. CASE "pause" \notin Calls
  BY <1>1 DEF TimeInv, NoPauses, Held
<1>2. CASE ~RestPause
  BY <1>2 DEF Held
<1>3. CASE OneByOne /\ RestPause
  <2>1. Quiet
    BY <1>3 DEF Clock, OneByOne
  <2>2. \A t \in Threads : ~Taken(t, "paused")
    BY <2>1 DEF Quiet, Taken, Answered
  <2>3. \A i \in Instances : k6[i].paused = rp.paused
    BY <1>3, <2>2, AgreeParts DEF K6Knows
  <2> QED
    BY <1>3, <2>3, EnvironmentAssumption DEF Held
<1> QED
  BY <1>1, <1>2, <1>3 DEF PausesMeasured, OneByOne

LEMMA TimeStep ==
  ASSUME PausesMeasured, TypeInv, TypeInv', TimeInv, OneByOne => AgreeInv, [Next]_vars
  PROVE  TimeInv'
<1>0. rp \in RunProcesses /\ now \in Int /\ ran \in Nat /\ rp' \in RunProcesses
  BY EnvironmentAssumption DEF TypeInv, TypeOK
<1>1. "pause" \notin Calls => NoPauses'
  BY NoPausesStep DEF TimeInv
<1>2. ran' = Elapsed(now)'
  <2>1. CASE Clock
    <3>1. ran' = ran + IF rp.started /\ ~rp.paused THEN 1 ELSE 0
      <4>1. Held <=> rp.paused
        BY <2>1, HeldIsPaused
      <4>2. ran' = IF rp.started /\ ~Held THEN ran + 1 ELSE ran
        BY <2>1 DEF Clock
      <4> QED
        BY <1>0, <4>1, <4>2
    <3>2. ~MarkStarted
      BY <1>0, <2>1 DEF Clock, MarkStarted
    <3> QED
      BY <1>0, <2>1, <3>1, <3>2, ElapsedKinds DEF TimeInv, Elapsed
  <2>2. CASE MarkStarted
    <3>1. "pause" \notin Calls
      BY <2>2 DEF MarkStarted, PausesMeasured
    <3>2. ~rp.started /\ rp' = [rp EXCEPT !.started = TRUE, !.start = now] /\ UNCHANGED <<now, ran>>
      BY <2>2 DEF MarkStarted
    <3>3. Elapsed(now)' = 0
      BY <1>0, <3>1, <3>2 DEF TimeInv, NoPauses, Elapsed, RunProcesses
    <3>4. ran = 0
      BY <3>2 DEF TimeInv, Elapsed
    <3> QED
      BY <3>2, <3>3, <3>4
  <2>3. CASE ~Clock /\ ~MarkStarted
    <3>1. ran' = ran
      BY <2>3, TimeKinds
    <3> QED
      BY <1>0, <2>3, <3>1, ElapsedKinds DEF TimeInv, Elapsed
  <2> QED
    BY <2>1, <2>2, <2>3
<1> QED
  BY <1>1, <1>2 DEF TimeInv

\* What the proofs below take from the steps of a run: every variable has its
\* type, one thread is busy at a time where calls do not overlap, and what k6
\* was told and what the engine measures are known.
BaseInv ==
  /\ TypeInv /\ OneAtATime
  /\ OneByOne => AgreeInv
  /\ PausesMeasured => TimeInv

LEMMA BaseInit == Init => BaseInv
  BY TypeInit, TurnsInit, AgreeInit, TimeInit DEF BaseInv

LEMMA BaseStep == BaseInv /\ [Next]_vars => BaseInv'
<1> SUFFICES ASSUME BaseInv, [Next]_vars
             PROVE  BaseInv'
  OBVIOUS
<1>1. TypeInv /\ OneAtATime /\ (OneByOne => AgreeInv) /\ (PausesMeasured => TimeInv)
  BY DEF BaseInv
<1>2. TypeInv' /\ OneAtATime'
  BY <1>1, TypeStep, TurnsStep
<1>3. OneByOne => AgreeInv'
  BY <1>1, AgreeStep
<1>4. PausesMeasured => TimeInv'
  BY <1>1, <1>2, TimeStep
<1> QED
  BY <1>2, <1>3, <1>4 DEF BaseInv, OneByOne, PausesMeasured

\* The time the engine measures schedule and deadline by is the time the run
\* was not paused, wherever it is the engine that pauses it.
THEOREM ElapsedIsRunTime == ASSUME PausesMeasured PROVE Spec => []ElapsedIsRan
<1>1. BaseInv => ElapsedIsRan
  BY DEF BaseInv, TimeInv, ElapsedIsRan
<1> QED
  BY <1>1, BaseInit, BaseStep, PTL DEF Spec

-----------------------------------------------------------------------------
(* The deadline.  A tick is handled with the time it was sent at, perhaps   *)
(* seconds ago, and the stop it decides on comes later still: neither can   *)
(* make the run end early, or go on.                                        *)

LEMMA TickKinds ==
  ASSUME [Next]_vars
  PROVE  UNCHANGED <<now, tick, beat>> \/ Clock \/ TakeTick
<1>1. CASE MarkStarted \/ GraceOver \/ (\E i \in Instances : K6Up(i) \/ K6Ends(i)) \/ UNCHANGED vars
  BY <1>1 DEF MarkStarted, GraceOver, K6Up, K6Ends, vars
<1>2. CASE \E t \in Threads : ThreadStep(t)
  BY <1>2 DEF ThreadStep, PatchStep, StopStep, Apply, Deliver, StopSent, Raised, Sent, NotSent,
              EnforceDeadline, RequestStop
<1>3. CASE \E u \in Users : Begin(u) \/ UserStep(u)
  BY <1>3 DEF Begin, UserStep, SetVUs, ResumeSchedule, SetPaused, SetDuration, StopRun, KillRun,
              TakeManual, PausedSent
<1> QED
  BY <1>1, <1>2, <1>3 DEF Next

\* Only SetDuration moves the planned end, and a stop that was asked for stays
\* asked for.
LEMMA EndKinds ==
  ASSUME TypeInv, [Next]_vars
  PROVE  /\ \/ rp'.plannedEnd = rp.plannedEnd
            \/ \E u \in Users, d \in DurChoices : SetDuration(u, d) /\ rp'.plannedEnd = d
         /\ rp.stopRequested => rp'.stopRequested
<1>0. rp \in RunProcesses
  BY DEF TypeInv, TypeOK
<1>1. CASE Clock \/ GraceOver \/ (\E i \in Instances : K6Up(i) \/ K6Ends(i)) \/ UNCHANGED vars
  BY <1>1 DEF Clock, GraceOver, K6Up, K6Ends, vars
<1>2. CASE MarkStarted
  BY <1>0, <1>2 DEF MarkStarted, RunProcesses
<1>3. CASE TakeTick
  BY <1>0, <1>3 DEF TakeTick, Drive, RunProcesses
<1>4. ASSUME NEW p, SetPausedNow(p)
      PROVE  rp'.plannedEnd = rp.plannedEnd /\ rp'.stopRequested = rp.stopRequested
  BY <1>0, <1>4 DEF SetPausedNow, RunProcesses
<1>5. CASE \E t \in Threads : ThreadStep(t)
  <2>1. PICK t \in Threads : ThreadStep(t)
    BY <1>5
  <2>2. CASE UNCHANGED rp
    BY <2>2
  <2>3. CASE Raised(t)
    BY <1>0, <2>3 DEF Raised, RunProcesses
  <2>4. CASE Sent(t)
    BY <1>0, <2>4 DEF Sent, RunProcesses
  <2>5. CASE RequestStop(t)
    BY <1>0, <2>5 DEF RequestStop, RunProcesses
  <2> QED
    BY <2>1, <2>2, <2>3, <2>4, <2>5
       DEF ThreadStep, PatchStep, StopStep, Apply, Deliver, StopSent, NotSent, EnforceDeadline
<1>6. CASE \E u \in Users : Begin(u)
  <2>1. PICK u \in Users : Begin(u)
    BY <1>6
  <2>2. CASE UNCHANGED rp \/ \E p : SetPausedNow(p)
    BY <1>4, <2>2
  <2>3. CASE ResumeSchedule(u)
    BY <1>0, <2>3 DEF ResumeSchedule, RunProcesses
  <2>4. CASE \E d \in DurChoices : SetDuration(u, d)
    BY <1>0, <2>4 DEF SetDuration, RunProcesses
  <2> QED
    BY <2>1, <2>2, <2>3, <2>4 DEF Begin, SetVUs, SetPaused, StopRun, KillRun
<1>7. CASE \E u \in Users : UserStep(u)
  <2>1. PICK u \in Users : UserStep(u)
    BY <1>7
  <2>2. CASE TakeManual(u)
    BY <1>0, <2>2 DEF TakeManual, RunProcesses
  <2>3. CASE PausedSent(u)
    BY <1>4, <2>3 DEF PausedSent
  <2> QED
    BY <2>1, <2>2, <2>3 DEF UserStep
<1> QED
  BY <1>1, <1>2, <1>3, <1>5, <1>6, <1>7 DEF Next

\* Where a thread comes from: overdue, from a look at the deadline; the loop's
\* rest, from the same, or from a stop; a stop being sent, from asking for it.
LEMMA FromWhere ==
  ASSUME TypeInv, [Next]_vars, NEW t \in Threads
  PROVE  /\ at'[t] = "overdue" => at[t] = "overdue" \/ EnforceDeadline(t)
         /\ at'[Loop] = "idle" =>
              at[Loop] = "idle" \/ EnforceDeadline(Loop) \/ RequestStop(Loop) \/ StopSent(Loop)
         /\ at'[t] = "patching" /\ call'[t].op = "stopped" =>
              (at[t] = "patching" /\ call[t].op = "stopped") \/ RequestStop(t)
<1>0. at \in [Threads -> Steps] /\ call \in [Threads -> Patches] /\ Loop \in Threads /\ Loop \notin Users
  BY ThreadsAssumption DEF TypeInv, TypeOK, Threads
<1>1. ASSUME NEW u \in Threads, Moves(u)
      PROVE  /\ at'[u] = "overdue" => at[u] = "overdue" \/ EnforceDeadline(u)
             /\ at'[u] = "idle" /\ u = Loop =>
                  at[u] = "idle" \/ EnforceDeadline(u) \/ RequestStop(u) \/ StopSent(u)
             /\ at'[u] = "patching" /\ call'[u].op = "stopped" =>
                  (at[u] = "patching" /\ call[u].op = "stopped") \/ RequestStop(u)
  <2>1. CASE \E i \in Instances : Deliver(u, i)
    BY <2>1, Answer
  <2>2. CASE Apply(u)
    BY <1>0, <2>2 DEF Apply, Send, Goto
  <2>3. CASE Raised(u)
    BY <1>0, <2>3 DEF Raised, Send, Goto
  <2>4. CASE Sent(u)
    BY <1>0, <2>4 DEF Sent, Goto, AfterApply
  <2>5. CASE NotSent(u)
    BY <1>0, <2>5 DEF NotSent, Return, Goto, AfterApply
  <2>6. CASE StopSent(u)
    BY <1>0, <2>6 DEF StopSent, Return, Goto
  <2>10. CASE EnforceDeadline(u)
    BY <1>0, <2>10 DEF EnforceDeadline, Return, Goto
  <2>11. CASE RequestStop(u)
    BY <1>0, <2>11 DEF RequestStop, Send, Return, Goto
  <2>7. CASE TakeTick /\ u = Loop
    BY <1>0, <2>7 DEF TakeTick, Drive, Goto
  <2>8. CASE u \in Users /\ Begin(u)
    <3>1. CASE UNCHANGED <<at, call>>
      BY <3>1
    <3>2. CASE (\E n \in VUChoices : SetVUs(u, n)) \/ (\E d \in DurChoices : SetDuration(u, d)) \/ StopRun(u)
      BY <1>0, <2>8, <3>2 DEF SetVUs, SetDuration, StopRun, Goto
    <3>3. ASSUME NEW n, Send(u, "paused", n)
          PROVE  at'[u] = "patching" /\ call'[u].op = "paused" /\ u # Loop
      BY <1>0, <2>8, <3>3 DEF Send, Goto
    <3> QED
      BY <2>8, <3>1, <3>2, <3>3 DEF Begin, ResumeSchedule, SetPaused, KillRun
  <2>9. CASE u \in Users /\ UserStep(u)
    BY <1>0, <2>9 DEF UserStep, TakeManual, PausedSent, Return, Goto
  <2> QED
    BY <1>1, <2>1, <2>2, <2>3, <2>4, <2>5, <2>6, <2>7, <2>8, <2>9, <2>10, <2>11
       DEF Moves, ThreadStep, PatchStep, StopStep
<1> QED
  BY <1>0, <1>1, OthersStay

\* A loop that has looked at the run as it is has just done so, or did before
\* and nothing has changed since.
LEMMA StillCurrent ==
  ASSUME TypeInv, [Next]_vars, drove', ~TakeTick
  PROVE  /\ drove /\ UNCHANGED <<now, beat>> /\ SameClocks
         /\ rp'.plannedEnd = rp.plannedEnd /\ rp'.manualVUs = rp.manualVUs
         /\ ~(\E i \in Instances : K6Up(i))
<1>0. rp \in RunProcesses
  BY DEF TypeInv, TypeOK
<1> USE DEF SameClocks
<1>1. ~Clock /\ ~MarkStarted /\ ~(\E i \in Instances : K6Up(i)) /\ ~(\E p : SetPausedNow(p))
  BY DEF Clock, MarkStarted, K6Up, SetPausedNow
<1>2. CASE GraceOver \/ (\E i \in Instances : K6Ends(i)) \/ UNCHANGED vars
  BY <1>1, <1>2 DEF GraceOver, K6Ends, vars
<1>3. CASE \E t \in Threads : ThreadStep(t)
  <2>1. PICK t \in Threads : ThreadStep(t)
    BY <1>3
  <2>2. UNCHANGED <<drove, now, beat>>
    BY <2>1 DEF ThreadStep, PatchStep, StopStep, Apply, Deliver, StopSent, NotSent, EnforceDeadline,
                Raised, Sent, RequestStop
  <2>3. CASE UNCHANGED rp
    BY <1>1, <2>2, <2>3
  <2>4. CASE Raised(t)
    BY <1>0, <1>1, <2>2, <2>4 DEF Raised, RunProcesses
  <2>5. CASE Sent(t)
    BY <1>0, <1>1, <2>2, <2>5 DEF Sent, RunProcesses
  <2>6. CASE RequestStop(t)
    BY <1>0, <1>1, <2>2, <2>6 DEF RequestStop, RunProcesses
  <2> QED
    BY <2>1, <2>3, <2>4, <2>5, <2>6
       DEF ThreadStep, PatchStep, StopStep, Apply, Deliver, StopSent, NotSent, EnforceDeadline
<1>4. CASE \E u \in Users : Begin(u)
  BY <1>1, <1>4 DEF Begin, SetVUs, ResumeSchedule, SetPaused, SetDuration, StopRun, KillRun
<1>5. CASE \E u \in Users : UserStep(u)
  BY <1>1, <1>5 DEF UserStep, TakeManual, PausedSent
<1> QED
  BY <1>1, <1>2, <1>3, <1>4, <1>5 DEF Next

LEMMA DueInit == Init => DueInv /\ DeadlineInv
<1> SUFFICES ASSUME Init
             PROVE  DueInv /\ DeadlineInv
  OBVIOUS
<1>1. \A t \in Threads : at[t] = "idle"
  BY DEF Init
<1>2. now = 0 /\ tick = -1 /\ beat = 0 /\ drove = FALSE
  BY DEF Init, NoTick
<1>3. rp.plannedEnd > 0
  BY PlanAssumption DEF Init
<1> QED
  BY <1>1, <1>2, <1>3 DEF DueInv, DeadlineInv

\* The elapsed time of an earlier tick is at most that of now.
LEMMA EarlierTick ==
  ASSUME TypeInv, NEW time \in Int, time <= now
  PROVE  Elapsed(time) \in Int /\ Elapsed(now) \in Int /\ Elapsed(time) <= Elapsed(now)
<1>1. rp \in RunProcesses /\ now \in Int
  BY EnvironmentAssumption DEF TypeInv, TypeOK
<1> QED
  BY <1>1 DEF Elapsed, RunProcesses

LEMMA DueStep ==
  ASSUME TypeInv, TypeInv', OneAtATime, DueInv, [Next]_vars
  PROVE  DueInv'
<1>0. /\ rp \in RunProcesses /\ now \in Int /\ beat \in Int /\ tick \in Int
      /\ rp.plannedEnd \in Int /\ Elapsed(now) \in Int /\ NoTick <= 0 /\ NoTick \in Int
      /\ now >= 0 /\ at \in [Threads -> Steps]
  BY EnvironmentAssumption, ElapsedKinds DEF TypeInv, TypeOK, RunProcesses, NoTick
<1>1. tick' <= now' /\ beat' <= now'
  <2>1. tick <= now /\ beat <= now
    BY DEF DueInv
  <2>2. CASE Clock
    BY <1>0, <2>1, <2>2 DEF Clock
  <2>3. CASE TakeTick
    BY <1>0, <2>1, <2>3 DEF TakeTick
  <2> QED
    BY <2>1, <2>2, <2>3, TickKinds
<1>2. ASSUME "duration" \notin Calls \/ ~Overlap, NEW t \in Threads, at'[t] = "overdue"
      PROVE  rp'.started /\ Elapsed(now)' >= rp'.plannedEnd
  <2>1. rp.started /\ Elapsed(now) >= rp.plannedEnd /\ rp'.plannedEnd = rp.plannedEnd
    <3>1. CASE at[t] = "overdue"
      <4>1. ASSUME NEW u \in Users, NEW d \in DurChoices, SetDuration(u, d)
            PROVE  FALSE
        BY <1>2, <3>1, <4>1 DEF SetDuration, MayBegin, Quiet
      <4> QED
        BY <1>2, <3>1, <4>1, EndKinds DEF DueInv
    <3>2. CASE EnforceDeadline(t)
      <4> DEFINE time == IF t = Loop THEN beat ELSE now
      <4>1. rp.started /\ Elapsed(time) >= rp.plannedEnd /\ UNCHANGED rp
        BY <1>0, <1>2, <3>2 DEF EnforceDeadline, Return, Goto
      <4>2. time \in Int /\ time <= now
        BY <1>0 DEF DueInv
      <4> HIDE DEF time
      <4>3. Elapsed(time) \in Int /\ Elapsed(time) <= Elapsed(now)
        BY <4>2, EarlierTick
      <4> QED
        BY <1>0, <4>1, <4>3
    <3> QED
      BY <1>2, <3>1, <3>2, FromWhere
  <2>2. rp'.started /\ Elapsed(now)' = Elapsed(now) + IF Clock /\ ~rp.paused THEN 1 ELSE 0
    BY <2>1, ElapsedKinds
  <2> QED
    BY <1>0, <2>1, <2>2
<1> QED
  BY <1>1, <1>2 DEF DueInv

LEMMA DeadlineStep ==
  ASSUME TypeInv, TypeInv', DeadlineInv, [Next]_vars
  PROVE  DeadlineInv'
<1>0. /\ rp \in RunProcesses /\ at \in [Threads -> Steps] /\ Loop \in Threads
  BY DEF TypeInv, TypeOK, Threads
<1>1. rp'.plannedEnd > 0
  BY EndKinds DEF DeadlineInv, SetDuration
<1>2. ASSUME NEW t \in Threads, at'[t] = "patching", call'[t].op = "stopped"
      PROVE  rp'.stopRequested
  <2>1. RequestStop(t) => rp'.stopRequested
    BY <1>0 DEF RequestStop, RunProcesses
  <2> QED
    BY <1>2, <2>1, FromWhere, EndKinds DEF DeadlineInv
<1>3. ASSUME drove'
      PROVE  beat' = now'
  <2>1. CASE TakeTick
    BY <1>3, <2>1 DEF TakeTick
  <2>2. CASE ~TakeTick
    BY <1>3, <2>2, StillCurrent DEF DeadlineInv
  <2> QED
    BY <2>1, <2>2
<1>4. ASSUME drove', at'[Loop] = "idle", rp'.started, Elapsed(now)' >= rp'.plannedEnd
      PROVE  rp'.stopRequested
  <2>1. ~TakeTick
    BY <1>0, <1>4 DEF TakeTick, Drive, Goto
  <2>2. drove /\ UNCHANGED <<now, beat>> /\ SameClocks /\ rp'.plannedEnd = rp.plannedEnd
    BY <1>4, <2>1, StillCurrent
  <2>3. rp.started /\ Elapsed(now) >= rp.plannedEnd
    BY <1>4, <2>2 DEF SameClocks, Elapsed
  <2>4. CASE at[Loop] = "idle"
    BY <2>2, <2>3, <2>4, EndKinds DEF DeadlineInv
  <2>5. CASE EnforceDeadline(Loop)
    <3>1. at' = [at EXCEPT ![Loop] = "overdue"] \/ rp.stopRequested
      BY <2>2, <2>3, <2>5 DEF EnforceDeadline, Return, Goto, DeadlineInv
    <3> QED
      BY <1>0, <1>4, <3>1, EndKinds
  <2>6. CASE RequestStop(Loop)
    BY <1>0, <2>6 DEF RequestStop, RunProcesses
  <2>7. CASE StopSent(Loop)
    BY <1>0, <2>7, EndKinds DEF StopSent, Answered, DeadlineInv
  <2> QED
    BY <1>4, <2>4, <2>5, <2>6, <2>7, <1>0, FromWhere
<1> QED
  BY <1>1, <1>2, <1>3, <1>4 DEF DeadlineInv

\* Unless its duration is changed while the stop is under way, a run is never
\* stopped by its deadline before its planned end, however late ticks and
\* stops are handled.
THEOREM DeadlineNotEarly ==
  ASSUME PausesMeasured, "duration" \notin Calls \/ ~Overlap
  PROVE  Spec => NeverStopsEarly
<1> DEFINE Inv == BaseInv /\ DueInv
<1>1. Init => Inv
  BY BaseInit, DueInit
<1>2. Inv /\ [Next]_vars => Inv'
  <2> SUFFICES ASSUME Inv, [Next]_vars
               PROVE  Inv'
    OBVIOUS
  <2>1. BaseInv'
    BY BaseStep
  <2> QED
    BY <2>1, DueStep DEF BaseInv
<1>3. Inv => (\A t \in Threads : at[t] = "overdue" => ran >= rp.plannedEnd)
  BY DEF BaseInv, DueInv, TimeInv
<1>4. (\A t \in Threads : at[t] = "overdue" => ran >= rp.plannedEnd)
      => [\A t \in Threads :
            at[t] = "overdue" /\ rp'.stopRequested /\ ~rp.stopRequested => ran >= rp.plannedEnd]_vars
  OBVIOUS
<1> QED
  BY <1>1, <1>2, <1>3, <1>4, PTL DEF Spec, NeverStopsEarly

\* A run that has run as long as planned is stopping, once the loop has looked.
THEOREM DeadlineKept == ASSUME PausesMeasured PROVE Spec => []EndsOnTime
<1> DEFINE Inv == BaseInv /\ DeadlineInv
<1>1. Init => Inv
  BY BaseInit, DueInit
<1>2. Inv /\ [Next]_vars => Inv'
  <2> SUFFICES ASSUME Inv, [Next]_vars
               PROVE  Inv'
    OBVIOUS
  <2>1. BaseInv'
    BY BaseStep
  <2> QED
    BY <2>1, DeadlineStep DEF BaseInv
<1>3. Inv => EndsOnTime
  BY DEF BaseInv, DeadlineInv, TimeInv, EndsOnTime, Settled, Quiet, Threads
<1> QED
  BY <1>1, <1>2, <1>3, PTL DEF Spec

-----------------------------------------------------------------------------
(* The plan                                                                *)

\* Nobody sets VUs by hand, every PATCH and its answer arrive, and the plan is
\* one that k6 can follow.
OnlyThePlan == ~Faults /\ "vus" \notin Calls /\ PlanIsSound

\* The parts of VUsInv.
LoopAlone ==
  /\ ~rp.manualVUs
  /\ \A u \in Users :
       at[u] \notin {"apply", "manual"}
       /\ (at[u] = "patching" => call[u].op \notin {"vus", "vus-max"})
Begun ==
  /\ rp.started \/ at[Loop] \in {"idle", "due"}
  /\ ~Cluster \/ ~rp.started \/ \A i \in Instances : k6[i].life # "booting"
InBounds ==
  /\ MaxVUs <= rp.vusMax
  /\ Sending("vus") => call[Loop].n <= rp.vusMax
  /\ Sending("vus-max") => call[Loop].n > rp.vusMax
  /\ \A i \in Instances : k6[i].vus <= k6[i].max
Spread ==
  Changing /\ at[Loop] # "apply" =>
    IF Cluster
    THEN call[Loop].ok = (call[Loop].todo = Instances \/ call[Loop].n >= 0)
    ELSE call[Loop].todo \in {{}, Instances} /\ (call[Loop].todo = Instances => call[Loop].ok)
Reached(i) ==
  /\ k6[i].max = IF Arrived(i, "vus-max") THEN call[Loop].n ELSE rp.vusMax
  /\ k6[i].vus = IF Arrived(i, "vus") THEN call[Loop].n ELSE rp.sentVUs

LEMMA VUsParts ==
  /\ VUsInv <=> LoopAlone /\ Begun /\ InBounds /\ (Whole => Spread /\ \A i \in Instances : Reached(i))
  /\ VUsInv' <=> LoopAlone' /\ Begun' /\ InBounds' /\ (Whole' => Spread' /\ \A i \in Instances : Reached(i)')
<1>1. VUsInv <=> LoopAlone /\ Begun /\ InBounds /\ (Whole => Spread /\ \A i \in Instances : Reached(i))
  BY DEF VUsInv, LoopAlone, Begun, InBounds, Spread, Reached
<1>2. VUsInv' <=> LoopAlone' /\ Begun' /\ InBounds' /\ (Whole' => Spread' /\ \A i \in Instances : Reached(i)')
  BY DEF VUsInv, LoopAlone, Begun, InBounds, Spread, Reached
<1> QED
  BY <1>1, <1>2

\* Nothing that has stopped or ended comes back, and only K6Up brings k6 up.
LEMMA NoneComesBack ==
  ASSUME TypeInv, [Next]_vars
  PROVE  /\ Whole' => Whole
         /\ AllUp' => AllUp \/ \E i \in Instances : K6Up(i)
         /\ \A i \in Instances : k6'[i].life = "booting" => k6[i].life = "booting"
<1>0. k6 \in [Instances -> Statuses] /\ call \in [Threads -> Patches]
  BY DEF TypeInv, TypeOK
<1>1. CASE \E t \in Threads, j \in Instances : Deliver(t, j)
  <2>1. PICK t \in Threads, j \in Instances : Deliver(t, j)
    BY <1>1
  <2>2. k6' = k6 \/ k6' = [k6 EXCEPT ![j] = Applied(j, call[t].op, call[t].n)]
    BY <2>1 DEF Deliver
  <2>3. Applied(j, call[t].op, call[t].n).life \in {k6[j].life, "stopping"}
    <3>1. call[t].op \in Ops \ {"none"} /\ k6[j] \in Statuses
      BY <1>0, <2>1 DEF TypeInv, Deliver, Patches
    <3> QED
      BY <3>1 DEF Applied, Ops, Statuses
  <2>4. \A i \in Instances : k6'[i].life \in {k6[i].life, "stopping"}
    BY <1>0, <2>2, <2>3
  <2> QED
    BY <2>4 DEF Whole, AllUp
<1>2. CASE \E j \in Instances : K6Up(j)
  <2>1. PICK j \in Instances : K6Up(j)
    BY <1>2
  <2>2. k6[j].life = "booting" /\ k6'[j].life = "up" /\ \A i \in Instances \ {j} : k6'[i] = k6[i]
    BY <1>0, <2>1 DEF K6Up, Statuses
  <2> QED
    BY <2>1, <2>2 DEF Whole
<1>3. CASE \A i \in Instances : k6'[i].life \in {k6[i].life, "stopping", "ended"}
  BY <1>3 DEF Whole, AllUp
<1> QED
  BY <1>1, <1>2, <1>3, StatusKinds

\* While nothing has stopped, the loop's PATCHes go to every instance.
LEMMA ReachesAll ==
  ASSUME TypeInv, Begun, Whole, rp.started
  PROVE  Apis = Instances /\ Apis # {}
<1>1. Cluster => \A i \in Instances : Live(i)
  BY DEF Begun, Whole, Live
<1> QED
  BY <1>1, EnvironmentAssumption DEF Apis

\* The numbers that the plan is followed with stay.
SameLoad ==
  /\ rp'.vusMax = rp.vusMax /\ rp'.sentVUs = rp.sentVUs
  /\ \A i \in Instances : k6'[i].vus = k6[i].vus /\ k6'[i].max = k6[i].max

\* Only the loop changes them.
LEMMA LoadKinds ==
  ASSUME TypeInv, LoopAlone, [Next]_vars
  PROVE  \/ SameLoad
         \/ Raised(Loop) \/ Sent(Loop)
         \/ \E i \in Instances : Deliver(Loop, i) /\ call[Loop].op \in {"vus", "vus-max"}
<1>0. /\ rp \in RunProcesses /\ k6 \in [Instances -> Statuses] /\ call \in [Threads -> Patches]
      /\ \A t \in Threads : t = Loop \/ t \in Users
  BY DEF TypeInv, TypeOK, Threads
<1>1. CASE Clock \/ GraceOver \/ UNCHANGED vars \/ (\E i \in Instances : K6Ends(i) \/ K6Up(i)) \/ (\E u \in Users : KillRun(u))
  <2>1. rp' = rp
    BY <1>1 DEF Clock, GraceOver, vars, K6Ends, K6Up, KillRun
  <2>2. CASE \E i \in Instances : K6Ends(i) \/ K6Up(i)
    BY <1>0, <2>1, <2>2 DEF SameLoad, K6Ends, K6Up, Statuses
  <2>3. CASE Clock \/ UNCHANGED vars
    BY <2>1, <2>3 DEF SameLoad, Clock, vars
  <2>4. CASE GraceOver \/ \E u \in Users : KillRun(u)
    <3>1. (UNCHANGED k6) \/ KillMayFail
      BY <2>4 DEF GraceOver, KillRun
    <3> QED
      BY <2>1, <3>1, KillKeeps DEF SameLoad, SameStatus
  <2> QED
    BY <1>1, <2>2, <2>3, <2>4
<1>2. CASE TakeTick
  BY <1>0, <1>2 DEF TakeTick, Drive, SameLoad, RunProcesses
<1>3. CASE MarkStarted
  BY <1>0, <1>3 DEF MarkStarted, SameLoad, RunProcesses
<1>4. ASSUME NEW p, SetPausedNow(p)
      PROVE  rp'.vusMax = rp.vusMax /\ rp'.sentVUs = rp.sentVUs
  BY <1>0, <1>4 DEF SetPausedNow, RunProcesses
<1>5. ASSUME NEW t \in Threads, ThreadStep(t)
      PROVE  \/ SameLoad
             \/ Raised(Loop) \/ Sent(Loop)
             \/ \E i \in Instances : Deliver(Loop, i) /\ call[Loop].op \in {"vus", "vus-max"}
  <2>1. CASE Apply(t) \/ NotSent(t) \/ EnforceDeadline(t)
    BY <2>1 DEF Apply, NotSent, EnforceDeadline, SameLoad
  <2>2. CASE RequestStop(t)
    BY <1>0, <2>2 DEF RequestStop, SameLoad, RunProcesses
  <2>3. CASE StopSent(t)
    <3>1. (UNCHANGED k6) \/ Interrupt
      BY <2>3 DEF StopSent
    <3> QED
      BY <2>3, <3>1, KillKeeps DEF StopSent, SameLoad, SameStatus
  <2>4. CASE Raised(t) \/ Sent(t)
    BY <1>0, <2>4 DEF Raised, Sent, Answered, LoopAlone
  <2>5. ASSUME NEW i \in Instances, Deliver(t, i), call[t].op \notin {"vus", "vus-max"}
        PROVE  SameLoad
    <3>1. call[t].op \in Ops \ {"none"} /\ k6[i] \in Statuses
      BY <1>0, <2>5 DEF TypeInv, Deliver, Patches
    <3>2. Applied(i, call[t].op, call[t].n).vus = k6[i].vus /\ Applied(i, call[t].op, call[t].n).max = k6[i].max
      BY <2>5, <3>1 DEF Applied, Ops, Statuses
    <3>3. rp' = rp /\ (k6' = k6 \/ k6' = [k6 EXCEPT ![i] = Applied(i, call[t].op, call[t].n)])
      BY <2>5 DEF Deliver
    <3> QED
      BY <1>0, <3>2, <3>3 DEF SameLoad
  <2>6. ASSUME NEW i \in Instances, Deliver(t, i), call[t].op \in {"vus", "vus-max"}
        PROVE  t = Loop
    BY <1>0, <2>6 DEF Deliver, LoopAlone
  <2> QED
    BY <1>5, <2>1, <2>2, <2>3, <2>4, <2>5, <2>6 DEF ThreadStep, PatchStep, StopStep
<1>6. ASSUME NEW u \in Users, Begin(u), ~KillRun(u)
      PROVE  SameLoad
  <2>1. k6' = k6
    BY <1>6 DEF Begin, SetVUs, ResumeSchedule, SetPaused, SetDuration, StopRun
  <2>2. CASE UNCHANGED rp \/ \E p : SetPausedNow(p)
    BY <1>4, <2>1, <2>2 DEF SameLoad
  <2>3. CASE ResumeSchedule(u)
    BY <1>0, <2>1, <2>3 DEF ResumeSchedule, RunProcesses, SameLoad
  <2>4. CASE \E d \in DurChoices : SetDuration(u, d)
    BY <1>0, <2>1, <2>4 DEF SetDuration, RunProcesses, SameLoad
  <2> QED
    BY <1>6, <2>2, <2>3, <2>4 DEF Begin, SetVUs, SetPaused, StopRun
<1>7. ASSUME NEW u \in Users, UserStep(u)
      PROVE  SameLoad
  <2>1. CASE TakeManual(u)
    BY <1>0, <2>1 DEF TakeManual, RunProcesses, SameLoad
  <2>2. CASE PausedSent(u)
    BY <1>4, <2>2 DEF PausedSent, SameLoad
  <2> QED
    BY <1>7, <2>1, <2>2 DEF UserStep
<1>8. CASE \E t \in Threads : ThreadStep(t)
  BY <1>5, <1>8
<1>9. CASE \E u \in Users : Begin(u) \/ UserStep(u)
  BY <1>1, <1>6, <1>7, <1>9
<1> QED
  BY <1>1, <1>2, <1>3, <1>8, <1>9 DEF Next

\* Nobody else takes the loop's part, and no user sends VUs.
LEMMA AloneStep ==
  ASSUME TypeInv, LoopAlone, "vus" \notin Calls, [Next]_vars
  PROVE  LoopAlone'
<1>0. /\ rp \in RunProcesses /\ at \in [Threads -> Steps] /\ call \in [Threads -> Patches]
      /\ Users \subseteq Threads /\ Loop \notin Users
  BY ThreadsAssumption DEF TypeInv, TypeOK, Threads
<1>1. ~rp'.manualVUs
  <2>1. ASSUME NEW p, SetPausedNow(p)
        PROVE  ~rp'.manualVUs
    BY <1>0, <2>1 DEF SetPausedNow, RunProcesses, LoopAlone
  <2>2. \A u \in Users : ~TakeManual(u)
    BY DEF TakeManual, LoopAlone
  <2>3. CASE rp' = rp
    BY <2>3 DEF LoopAlone
  <2>4. CASE TakeTick \/ MarkStarted
    BY <1>0, <2>4 DEF TakeTick, Drive, MarkStarted, RunProcesses, LoopAlone
  <2>5. CASE \E t \in Threads : Raised(t) \/ Sent(t) \/ RequestStop(t)
    BY <1>0, <2>5 DEF Raised, Sent, RequestStop, RunProcesses, LoopAlone
  <2>6. CASE \E u \in Users : ResumeSchedule(u) \/ \E d \in DurChoices : SetDuration(u, d)
    BY <1>0, <2>6 DEF ResumeSchedule, SetDuration, RunProcesses, LoopAlone
  <2>7. CASE \E t \in Threads : ThreadStep(t)
    BY <2>3, <2>5, <2>7 DEF ThreadStep, PatchStep, StopStep, Apply, Deliver, StopSent, NotSent, EnforceDeadline
  <2>8. CASE \E u \in Users : Begin(u)
    BY <2>1, <2>3, <2>6, <2>8 DEF Begin, SetVUs, SetPaused, StopRun, KillRun
  <2>9. CASE \E u \in Users : UserStep(u)
    BY <2>1, <2>2, <2>3, <2>9 DEF UserStep, PausedSent
  <2>10. CASE Clock \/ GraceOver \/ (\E i \in Instances : K6Up(i) \/ K6Ends(i)) \/ UNCHANGED vars
    BY <2>3, <2>10 DEF Clock, GraceOver, K6Up, K6Ends, vars
  <2> QED
    BY <2>4, <2>7, <2>8, <2>9, <2>10 DEF Next
<1>2. ASSUME NEW u \in Users, Moves(u)
      PROVE  at'[u] \notin {"apply", "manual"} /\ (at'[u] = "patching" => call'[u].op \notin {"vus", "vus-max"})
  <2>1. ~Apply(u) /\ ~Raised(u) /\ ~Sent(u)
    BY DEF Apply, Raised, Sent, Answered, LoopAlone
  <2>2. CASE \E i \in Instances : Deliver(u, i)
    BY <1>0, <2>2, Answer DEF LoopAlone, Deliver
  <2>3. CASE NotSent(u) \/ StopSent(u) \/ EnforceDeadline(u)
    BY <1>0, <2>3 DEF NotSent, StopSent, EnforceDeadline, Return, Goto, AfterApply
  <2>4. CASE RequestStop(u)
    BY <1>0, <2>4 DEF RequestStop, Return, Send, Goto
  <2>5. CASE Begin(u)
    <3>1. ~(\E n \in VUChoices : SetVUs(u, n))
      BY DEF SetVUs
    <3>2. CASE UNCHANGED <<at, call>>
      BY <3>2 DEF LoopAlone
    <3>3. CASE (\E d \in DurChoices : SetDuration(u, d)) \/ StopRun(u)
      BY <1>0, <3>3 DEF SetDuration, StopRun, Goto
    <3>4. ASSUME NEW n, Send(u, "paused", n)
          PROVE  at'[u] = "patching" /\ call'[u].op = "paused"
      BY <1>0, <3>4 DEF Send, Goto
    <3> QED
      BY <2>5, <3>1, <3>2, <3>3, <3>4 DEF Begin, ResumeSchedule, SetPaused, KillRun
  <2>6. CASE UserStep(u)
    BY <1>0, <2>6 DEF UserStep, TakeManual, PausedSent, Return, Goto
  <2> QED
    BY <1>0, <1>2, <2>1, <2>2, <2>3, <2>4, <2>5, <2>6 DEF Moves, ThreadStep, PatchStep, StopStep
<1>3. ASSUME NEW u \in Users, ~Moves(u)
      PROVE  at'[u] \notin {"apply", "manual"} /\ (at'[u] = "patching" => call'[u].op \notin {"vus", "vus-max"})
  BY <1>0, <1>3, OthersStay DEF LoopAlone
<1> QED
  BY <1>1, <1>2, <1>3 DEF LoopAlone

\* What the loop may be doing in a step.
LEMMA LoopKinds ==
  ASSUME TypeInv, [Next]_vars
  PROVE  \/ at'[Loop] = at[Loop] /\ call'[Loop] = call[Loop]
         \/ TakeTick \/ Apply(Loop) \/ Raised(Loop) \/ Sent(Loop) \/ NotSent(Loop)
         \/ StopSent(Loop) \/ EnforceDeadline(Loop) \/ RequestStop(Loop)
         \/ \E i \in Instances : Deliver(Loop, i)
<1>1. Loop \in Threads /\ Loop \notin Users
  BY ThreadsAssumption DEF Threads
<1> QED
  BY <1>1, OthersStay DEF Moves, ThreadStep, PatchStep, StopStep

LEMMA BegunStep ==
  ASSUME TypeInv, TypeInv', Begun, [Next]_vars
  PROVE  Begun'
<1>0. at \in [Threads -> Steps] /\ Loop \in Threads
  BY DEF TypeInv, TypeOK, Threads
<1>1. rp.started => rp'.started
  BY ElapsedKinds
<1>2. ~rp.started /\ rp'.started => MarkStarted
  BY ElapsedKinds
<1>3. ASSUME ~rp'.started
      PROVE  at'[Loop] \in {"idle", "due"}
  <2>1. ~rp.started /\ at[Loop] \in {"idle", "due"}
    BY <1>1, <1>3 DEF Begun
  <2>2. CASE TakeTick
    BY <1>0, <2>1, <2>2 DEF TakeTick, Drive, Follows, Goto
  <2>3. CASE EnforceDeadline(Loop)
    BY <1>0, <2>1, <2>3 DEF EnforceDeadline, Return, Goto
  <2>4. ~Apply(Loop) /\ ~Raised(Loop) /\ ~Sent(Loop) /\ ~NotSent(Loop) /\ ~StopSent(Loop) /\ ~RequestStop(Loop)
        /\ ~\E i \in Instances : Deliver(Loop, i)
    BY <2>1 DEF Apply, Raised, Sent, NotSent, StopSent, RequestStop, Deliver, Answered
  <2> QED
    BY <2>1, <2>2, <2>3, <2>4, LoopKinds
<1>4. ASSUME Cluster, rp'.started
      PROVE  \A i \in Instances : k6'[i].life # "booting"
  <2>1. CASE rp.started
    BY <1>4, <2>1, NoneComesBack DEF Begun
  <2>2. CASE ~rp.started
    BY <1>2, <1>4, <2>2 DEF MarkStarted
  <2> QED
    BY <2>1, <2>2
<1> QED
  BY <1>3, <1>4 DEF Begun

\* A PATCH of the loop that has reached nobody.
LEMMA LoopSends ==
  ASSUME TypeInv, NEW op, NEW n, Send(Loop, op, n)
  PROVE  /\ at'[Loop] = "patching" /\ call'[Loop].op = op /\ call'[Loop].n = n
         /\ call'[Loop].todo = Apis /\ (call'[Loop].ok <=> Apis # {})
<1>0. at \in [Threads -> Steps] /\ call \in [Threads -> Patches] /\ Loop \in Threads
  BY DEF TypeInv, TypeOK, Threads
<1>1. PICK c : c = [op |-> op, n |-> n, todo |-> Apis, ok |-> Apis # {}]
  OBVIOUS
<1>2. at' = [at EXCEPT ![Loop] = "patching"] /\ call' = [call EXCEPT ![Loop] = c]
  BY <1>1 DEF Send, Goto
<1>3. at'[Loop] = "patching" /\ call'[Loop] = c
  BY <1>0, <1>2
<1>4. c.op = op /\ c.n = n /\ c.todo = Apis /\ (c.ok <=> Apis # {})
  BY <1>1
<1> QED
  BY <1>3, <1>4

\* A step that leaves the numbers as they are, and in which the loop's PATCH
\* is new or given up.
LEMMA KeepsReached ==
  ASSUME SameLoad, NEW i \in Instances, Reached(i),
         \A op \in {"vus", "vus-max"} : ~Arrived(i, op) /\ ~Arrived(i, op)'
  PROVE  Reached(i)'
  BY DEF Reached, SameLoad

\* The VU count, or the maximum, reaches an instance.
LEMMA DeliverReaches ==
  ASSUME OnlyThePlan, TypeInv, VUsInv, NEW i \in Instances, Deliver(Loop, i),
         call[Loop].op \in {"vus", "vus-max"}
  PROVE  /\ InBounds'
         /\ Whole => Spread' /\ (\A j \in Instances : Reached(j)')
         /\ AllUp /\ call[Loop].ok /\ call[Loop].n >= 0 => call'[Loop].ok
<1>0. /\ k6 \in [Instances -> Statuses] /\ call \in [Threads -> Patches] /\ at \in [Threads -> Steps]
      /\ Loop \in Threads /\ UNCHANGED <<rp, at>> /\ at[Loop] = "patching"
      /\ rp \in RunProcesses /\ MaxVUs \in Nat
  BY PlanAssumption DEF TypeInv, TypeOK, Threads, Deliver
<1>1. PICK c : c = call[Loop]
  OBVIOUS
<1>2. PICK good \in BOOLEAN :
        /\ call' = [call EXCEPT ![Loop] = [c EXCEPT !.todo = c.todo \ {i}, !.ok = c.ok /\ good]]
        /\ good <=> Accepts(i, c.op, c.n)
        /\ k6' = IF good THEN [k6 EXCEPT ![i] = Applied(i, c.op, c.n)] ELSE k6
  BY <1>1 DEF Deliver, OnlyThePlan
<1>3. PICK d : d = call'[Loop]
  OBVIOUS
<1>4. /\ c \in Patches /\ d.op = c.op /\ d.n = c.n /\ d.todo = c.todo \ {i} /\ i \in c.todo
      /\ (d.ok <=> c.ok /\ good) /\ c.todo \subseteq Instances /\ c.n \in Int /\ d.ok \in BOOLEAN
  BY <1>0, <1>1, <1>2, <1>3 DEF Patches, Deliver
<1>5. InBounds /\ LoopAlone /\ Begun /\ rp.started
  BY <1>0, VUsParts DEF Begun
<1>6. /\ k6[i].vus \in Nat /\ k6[i].max \in Nat /\ k6[i].vus <= k6[i].max
      /\ rp.vusMax \in Nat /\ MaxVUs <= rp.vusMax
      /\ c.op = "vus" => c.n <= rp.vusMax
      /\ c.op = "vus-max" => c.n > rp.vusMax
  BY <1>0, <1>1, <1>5 DEF InBounds, Statuses, RunProcesses, Sending
\* What an instance that takes it has afterwards.
<1>7. /\ k6'[i].vus = IF good /\ c.op = "vus" THEN c.n ELSE k6[i].vus
      /\ k6'[i].max = IF good /\ c.op = "vus-max" THEN c.n ELSE k6[i].max
      /\ \A j \in Instances \ {i} : k6'[j] = k6[j]
  <2>1. c.op \in {"vus", "vus-max"}
    BY <1>1
  <2>2. Applied(i, c.op, c.n) = IF c.op = "vus" THEN [k6[i] EXCEPT !.vus = c.n] ELSE [k6[i] EXCEPT !.max = c.n]
    BY <2>1 DEF Applied
  <2> QED
    BY <1>0, <1>2, <2>1, <2>2 DEF Statuses
<1>8. InBounds'
  <2>1. k6'[i].vus <= k6'[i].max
    BY <1>1, <1>2, <1>4, <1>6, <1>7 DEF Accepts
  <2>2. \A j \in Instances : k6'[j].vus <= k6'[j].max
    BY <1>5, <1>7, <2>1 DEF InBounds
  <2>3. /\ Sending("vus")' => c.op = "vus"
        /\ Sending("vus-max")' => c.op = "vus-max"
    BY <1>3, <1>4 DEF Sending
  <2> QED
    BY <1>0, <1>3, <1>4, <1>6, <2>2, <2>3 DEF InBounds
\* Instances that run take it alike.
<1>9. ASSUME Whole
      PROVE  /\ Live(i) => (good <=> c.n >= 0)
             /\ Cluster => Live(i)
             /\ \A j \in Instances : Reached(j)
             /\ IF Cluster
                THEN c.ok = (c.todo = Instances \/ c.n >= 0)
                ELSE c.todo \in {{}, Instances} /\ (c.todo = Instances => c.ok)
  <2>1. Cluster => Live(i)
    BY <1>0, <1>5, <1>9 DEF Begun, Whole, Live
  <2>2. (\A j \in Instances : Reached(j)) /\ Spread
    BY <1>9, VUsParts
  <2>3. ~Arrived(i, "vus") /\ ~Arrived(i, "vus-max")
    BY <1>1, <1>4 DEF Arrived
  <2>4. k6[i].max = rp.vusMax
    BY <2>2, <2>3 DEF Reached
  <2>5. c.op = "vus" => (Live(i) => (good <=> c.n >= 0))
    BY <1>2, <1>4, <1>6, <2>4 DEF Accepts
  <2>6. c.op = "vus-max" => (Live(i) => good) /\ c.n >= 0
    BY <1>2, <1>4, <1>6, <2>4 DEF Accepts
  <2>7. Changing /\ at[Loop] # "apply"
    BY <1>0, <1>1 DEF Changing, Sending
  <2> QED
    BY <1>1, <2>1, <2>2, <2>5, <2>6, <2>7 DEF Spread
<1>10. ASSUME Whole
       PROVE  Spread' /\ (~d.ok => ~good /\ (c.ok => c.todo = Instances))
  <2>1. CASE Cluster
    <3>1. d.ok = (c.n >= 0) /\ d.todo # Instances /\ (good <=> c.n >= 0)
      BY <1>4, <1>9, <1>10, <2>1
    <3> QED
      BY <1>3, <1>4, <1>9, <1>10, <2>1, <3>1 DEF Spread
  <2>2. CASE ~Cluster
    <3>1. c.todo = Instances /\ c.ok /\ Instances = {i}
      BY <1>4, <1>9, <1>10, <2>2, EnvironmentAssumption
    <3>2. d.todo = {} /\ d.todo # Instances
      BY <1>4, <3>1
    <3> QED
      BY <1>3, <1>4, <2>2, <3>1, <3>2 DEF Spread
  <2> QED
    BY <2>1, <2>2
<1>11. ASSUME Whole, NEW j \in Instances
       PROVE  Reached(j)'
  <2>1. /\ \A op \in {"vus", "vus-max"} : Arrived(j, op) <=> op = c.op /\ j \notin c.todo /\ c.ok
        /\ \A op \in {"vus", "vus-max"} : Arrived(j, op)' <=> op = c.op /\ j \notin d.todo /\ d.ok
    BY <1>0, <1>1, <1>3, <1>4 DEF Arrived, Sending
  <2>2. CASE ~d.ok
    <3>1. ~good /\ \A op \in {"vus", "vus-max"} : ~Arrived(j, op) /\ ~Arrived(j, op)'
      BY <1>10, <1>11, <2>1, <2>2
    <3>2. k6' = k6
      BY <1>2, <3>1
    <3> QED
      BY <1>0, <1>9, <1>11, <3>1, <3>2, KeepsReached DEF SameLoad
  <2>3. CASE d.ok /\ j # i
    <3>1. \A op \in {"vus", "vus-max"} : Arrived(j, op)' <=> Arrived(j, op)
      BY <1>4, <2>1, <2>3
    <3> QED
      BY <1>0, <1>1, <1>3, <1>4, <1>7, <1>9, <1>11, <2>3, <3>1 DEF Reached
  <2>4. CASE d.ok /\ j = i
    <3>1. good /\ ~Arrived(i, "vus") /\ ~Arrived(i, "vus-max")
      BY <1>4, <2>1, <2>4
    <3>2. k6[i].max = rp.vusMax /\ k6[i].vus = rp.sentVUs
      BY <1>9, <1>11, <3>1 DEF Reached
    <3>3. \A op \in {"vus", "vus-max"} : Arrived(i, op)' <=> op = c.op
      BY <1>4, <2>1, <2>4
    <3> QED
      BY <1>0, <1>3, <1>4, <1>7, <2>4, <3>1, <3>2, <3>3 DEF Reached
  <2> QED
    BY <2>2, <2>3, <2>4
<1>12. ASSUME AllUp, c.ok, c.n >= 0
       PROVE  d.ok
  <2>1. Whole /\ Live(i)
    BY <1>12 DEF AllUp, Whole, Live
  <2> QED
    BY <1>4, <1>9, <1>12, <2>1
<1> QED
  BY <1>1, <1>3, <1>8, <1>10, <1>11, <1>12

LEMMA VUsInit == OnlyThePlan /\ Init => VUsInv
<1> SUFFICES ASSUME OnlyThePlan, Init
             PROVE  VUsInv
  OBVIOUS
<1>0. /\ Loop \in Threads /\ \A u \in Users : u \in Threads
      /\ TargetAt(Plan, 0) = Plan.start /\ Plan.start <= MaxVUs
  <2>1. Plan.start <= PeakVUs(Plan) /\ PeakVUs(Plan) \in Int
    BY PeakIsPeak, StagesType, PlanAssumption
  <2> QED
    BY <2>1, PlanAssumption DEF OnlyThePlan, PlanIsSound, Threads
<1>1. /\ \A t \in Threads : at[t] = "idle"
      /\ ~rp.manualVUs /\ (rp.started <=> ~Cluster) /\ rp.vusMax = MaxVUs /\ rp.sentVUs = Plan.start
      /\ \A i \in Instances : k6[i].vus = Plan.start /\ k6[i].max = MaxVUs
  BY <1>0, EnvironmentAssumption DEF Init
<1>2. ~Changing /\ \A op, i : ~Sending(op) /\ ~Arrived(i, op)
  BY <1>0, <1>1 DEF Changing, Sending, Arrived
<1>3. LoopAlone /\ Begun
  BY <1>0, <1>1 DEF LoopAlone, Begun
<1>4. InBounds
  BY <1>0, <1>1, <1>2, PlanAssumption DEF InBounds
<1>5. Spread /\ \A i \in Instances : Reached(i)
  BY <1>1, <1>2 DEF Spread, Reached
<1> QED
  BY <1>3, <1>4, <1>5, VUsParts

\* A step of the loop that neither sends VUs nor carries their PATCH on.
LEMMA LoopRests ==
  ASSUME TypeInv,
         \/ TakeTick \/ NotSent(Loop) \/ StopSent(Loop) \/ EnforceDeadline(Loop) \/ RequestStop(Loop)
         \/ \E i \in Instances : Deliver(Loop, i) /\ call[Loop].op \notin {"vus", "vus-max"}
  PROVE  \A op \in {"vus", "vus-max"} :
           /\ ~Sending(op)'
           /\ \A i : ~Arrived(i, op) /\ ~Arrived(i, op)'
<1>0. at \in [Threads -> Steps] /\ call \in [Threads -> Patches] /\ Loop \in Threads
  BY DEF TypeInv, TypeOK, Threads
<1> USE DEF Sending, Arrived
<1>1. CASE TakeTick
  BY <1>0, <1>1 DEF TakeTick, Drive, Goto
<1>2. CASE NotSent(Loop)
  BY <1>0, <1>2 DEF NotSent, Answered, Return, Goto, AfterApply
<1>3. CASE StopSent(Loop)
  BY <1>0, <1>3 DEF StopSent, Answered, Return, Goto
<1>4. CASE EnforceDeadline(Loop)
  BY <1>0, <1>4 DEF EnforceDeadline, Return, Goto
<1>5. CASE RequestStop(Loop)
  <2>1. at' = [at EXCEPT ![Loop] = "idle"] \/ (at'[Loop] = "patching" /\ call'[Loop].op = "stopped")
    <3>1. CASE Send(Loop, "stopped", 1)
      BY <3>1, LoopSends
    <3>2. CASE Return(Loop, "idle")
      BY <3>2 DEF Return, Goto
    <3> QED
      BY <1>5, <3>1, <3>2 DEF RequestStop
  <2> QED
    BY <1>0, <1>5, <2>1 DEF RequestStop
<1>6. CASE \E i \in Instances : Deliver(Loop, i) /\ call[Loop].op \notin {"vus", "vus-max"}
  BY <1>0, <1>6, Answer
<1> QED
  BY <1>1, <1>2, <1>3, <1>4, <1>5, <1>6

\* The loop begins to send its count, the maximum first when it has to.
LEMMA ApplyReaches ==
  ASSUME TypeInv, VUsInv, Apply(Loop), SameLoad
  PROVE  /\ InBounds'
         /\ Whole => Changing' /\ at'[Loop] # "apply" /\ call'[Loop].n = call[Loop].n /\ call'[Loop].ok
                     /\ Spread' /\ \A i \in Instances : Reached(i)'
<1>0. /\ at[Loop] = "apply" /\ LoopAlone /\ Begun /\ InBounds /\ rp \in RunProcesses
      /\ call[Loop].n \in Int
  BY VUsParts DEF Apply, TypeInv, TypeOK, Patches, Threads
<1>1. PICK op \in {"vus", "vus-max"} :
        /\ Send(Loop, op, call[Loop].n)
        /\ op = "vus" => call[Loop].n <= rp.vusMax
        /\ op = "vus-max" => call[Loop].n > rp.vusMax
  <2>1. PICK up \in BOOLEAN : up <=> call[Loop].n > rp.vusMax
    OBVIOUS
  <2>2. Send(Loop, IF up THEN "vus-max" ELSE "vus", call[Loop].n)
    BY <2>1 DEF Apply
  <2>3. CASE up
    BY <2>1, <2>2, <2>3
  <2>4. CASE ~up
    BY <1>0, <2>1, <2>2, <2>4 DEF RunProcesses
  <2> QED
    BY <2>1, <2>3, <2>4
<1>2. /\ at'[Loop] = "patching" /\ call'[Loop].op = op /\ call'[Loop].n = call[Loop].n
      /\ call'[Loop].todo = Apis /\ (call'[Loop].ok <=> Apis # {})
  BY <1>1, LoopSends
<1>3. InBounds'
  BY <1>0, <1>1, <1>2 DEF InBounds, SameLoad, Sending
<1>4. ASSUME Whole
      PROVE  /\ Changing' /\ at'[Loop] # "apply" /\ call'[Loop].n = call[Loop].n /\ call'[Loop].ok
             /\ Spread' /\ \A i \in Instances : Reached(i)'
  <2>1. Apis = Instances /\ Apis # {}
    BY <1>0, <1>4, ReachesAll DEF Begun
  <2>2. Changing' /\ at'[Loop] # "apply" /\ call'[Loop].ok /\ call'[Loop].todo = Instances
    BY <1>2, <2>1 DEF Changing, Sending
  <2>3. call'[Loop].ok = TRUE
    <3>1. call'[Loop].ok \in BOOLEAN
      <4>1. call' = [call EXCEPT ![Loop] = [op |-> op, n |-> call[Loop].n, todo |-> Apis, ok |-> Apis # {}]]
        BY <1>1 DEF Send
      <4> QED
        BY <4>1 DEF TypeInv, TypeOK, Threads
    <3> QED
      BY <2>2, <3>1
  <2>4. Spread'
    BY <2>2, <2>3 DEF Spread
  <2>5. ASSUME NEW i \in Instances
        PROVE  Reached(i)'
    <3>1. \A q \in {"vus", "vus-max"} : ~Arrived(i, q) /\ ~Arrived(i, q)'
      BY <1>0, <2>2 DEF Arrived, Sending
    <3> QED
      BY <1>4, <3>1, KeepsReached, VUsParts
  <2> QED
    BY <1>2, <2>2, <2>4, <2>5
<1> QED
  BY <1>3, <1>4

\* Every instance has taken the maximum: it is noted, and the count follows.
LEMMA RaisedReaches ==
  ASSUME TypeInv, VUsInv, Raised(Loop)
  PROVE  /\ InBounds'
         /\ Whole => Changing' /\ at'[Loop] # "apply" /\ call'[Loop].n = call[Loop].n /\ call'[Loop].ok
                     /\ Spread' /\ \A i \in Instances : Reached(i)'
<1>0. /\ Sending("vus-max") /\ call[Loop].todo = {} /\ call[Loop].ok
      /\ LoopAlone /\ Begun /\ InBounds /\ rp \in RunProcesses /\ call[Loop].n \in Int
      /\ rp' = [rp EXCEPT !.vusMax = call[Loop].n] /\ k6' = k6 /\ MaxVUs \in Nat
      /\ Send(Loop, "vus", call[Loop].n)
  BY VUsParts, PlanAssumption DEF Raised, Answered, Sending, TypeInv, TypeOK, Patches, Threads
<1>1. rp'.vusMax = call[Loop].n /\ rp'.sentVUs = rp.sentVUs
  BY <1>0 DEF RunProcesses
<1>2. /\ at'[Loop] = "patching" /\ call'[Loop].op = "vus" /\ call'[Loop].n = call[Loop].n
      /\ call'[Loop].todo = Apis /\ (call'[Loop].ok <=> Apis # {})
  BY <1>0, LoopSends
<1>3. InBounds'
  <2>1. MaxVUs <= rp'.vusMax
    BY <1>0, <1>1 DEF InBounds, RunProcesses
  <2>2. (Sending("vus")' => call'[Loop].n <= rp'.vusMax) /\ ~Sending("vus-max")'
    BY <1>0, <1>1, <1>2 DEF Sending
  <2> QED
    BY <1>0, <2>1, <2>2 DEF InBounds
<1>4. ASSUME Whole
      PROVE  /\ Changing' /\ at'[Loop] # "apply" /\ call'[Loop].n = call[Loop].n /\ call'[Loop].ok
             /\ Spread' /\ \A i \in Instances : Reached(i)'
  <2>1. Apis = Instances /\ Apis # {}
    BY <1>0, <1>4, ReachesAll DEF Begun, Sending
  <2>2. Changing' /\ at'[Loop] # "apply" /\ call'[Loop].ok /\ call'[Loop].todo = Instances
    BY <1>2, <2>1 DEF Changing, Sending
  <2>3. call'[Loop].ok = TRUE
    <3>1. call'[Loop].ok \in BOOLEAN
      <4>1. call' = [call EXCEPT ![Loop] = [op |-> "vus", n |-> call[Loop].n, todo |-> Apis, ok |-> Apis # {}]]
        BY <1>0 DEF Send
      <4> QED
        BY <4>1 DEF TypeInv, TypeOK, Threads
    <3> QED
      BY <2>2, <3>1
  <2>4. Spread'
    BY <2>2, <2>3 DEF Spread
  <2>5. ASSUME NEW i \in Instances
        PROVE  Reached(i)'
    <3>1. Arrived(i, "vus-max") /\ ~Arrived(i, "vus")
      BY <1>0 DEF Arrived, Sending
    <3>2. k6[i].max = call[Loop].n /\ k6[i].vus = rp.sentVUs
      BY <1>4, <3>1, VUsParts DEF Reached
    <3>3. ~Arrived(i, "vus-max")' /\ ~Arrived(i, "vus")'
      BY <1>2, <2>2 DEF Arrived, Sending
    <3> QED
      BY <1>0, <1>1, <3>2, <3>3 DEF Reached
  <2> QED
    BY <1>2, <2>2, <2>4, <2>5
<1> QED
  BY <1>3, <1>4

\* Every instance has taken the count, and it is noted.
LEMMA SentReaches ==
  ASSUME TypeInv, VUsInv, Sent(Loop)
  PROVE  /\ InBounds' /\ ~Changing' /\ rp'.sentVUs = call[Loop].n
         /\ Whole => Spread' /\ \A i \in Instances : Reached(i)'
<1>0. /\ Sending("vus") /\ call[Loop].todo = {} /\ call[Loop].ok
      /\ InBounds /\ rp \in RunProcesses /\ at \in [Threads -> Steps] /\ Loop \in Threads
      /\ rp' = [rp EXCEPT !.sentVUs = call[Loop].n] /\ k6' = k6
      /\ at' = [at EXCEPT ![Loop] = "due"]
  BY VUsParts DEF Sent, Answered, Sending, TypeInv, TypeOK, Threads, Goto, AfterApply
<1>1. rp'.vusMax = rp.vusMax /\ rp'.sentVUs = call[Loop].n
  BY <1>0 DEF RunProcesses
<1>2. ~Changing' /\ \A op : ~Sending(op)' /\ \A i : ~Arrived(i, op)'
  BY <1>0 DEF Changing, Sending, Arrived
<1>3. InBounds'
  BY <1>0, <1>1, <1>2 DEF InBounds
<1>4. ASSUME Whole, NEW i \in Instances
      PROVE  Reached(i)'
  <2>1. Arrived(i, "vus") /\ ~Arrived(i, "vus-max")
    BY <1>0 DEF Arrived, Sending
  <2>2. k6[i].max = rp.vusMax /\ k6[i].vus = call[Loop].n
    BY <1>4, <2>1, VUsParts DEF Reached
  <2> QED
    BY <1>0, <1>1, <1>2, <2>2 DEF Reached
<1> QED
  BY <1>1, <1>2, <1>3, <1>4 DEF Spread

LEMMA VUsStep ==
  ASSUME OnlyThePlan, TypeInv, TypeInv', VUsInv, [Next]_vars
  PROVE  VUsInv'
<1>0. LoopAlone /\ Begun /\ InBounds /\ (Whole => Spread /\ \A i \in Instances : Reached(i))
  BY VUsParts
<1>1. LoopAlone' /\ Begun'
  BY <1>0, AloneStep, BegunStep DEF OnlyThePlan
<1>2. Whole' => Whole
  BY NoneComesBack
<1> DEFINE Goal == InBounds' /\ (Whole => Spread' /\ \A i \in Instances : Reached(i)')
<1> SUFFICES Goal
  BY <1>1, <1>2, VUsParts
<1>3. CASE \E i \in Instances : Deliver(Loop, i) /\ call[Loop].op \in {"vus", "vus-max"}
  BY <1>3, DeliverReaches
<1>4. CASE Raised(Loop) \/ Sent(Loop)
  BY <1>4, RaisedReaches, SentReaches
<1>5. CASE SameLoad /\ at'[Loop] = at[Loop] /\ call'[Loop] = call[Loop]
  <2>1. \A op, i : (Sending(op)' <=> Sending(op)) /\ (Arrived(i, op)' <=> Arrived(i, op))
    BY <1>5 DEF Sending, Arrived
  <2>2. InBounds'
    BY <1>0, <1>5, <2>1 DEF InBounds, SameLoad
  <2>3. Spread => Spread'
    BY <1>5, <2>1 DEF Spread, Changing
  <2>4. \A i \in Instances : Reached(i) => Reached(i)'
    BY <1>5, <2>1 DEF Reached, SameLoad
  <2> QED
    BY <1>0, <2>2, <2>3, <2>4
<1>6. CASE SameLoad /\ Apply(Loop)
  BY <1>6, ApplyReaches
<1>7. CASE /\ SameLoad
           /\ \/ TakeTick \/ NotSent(Loop) \/ StopSent(Loop) \/ EnforceDeadline(Loop) \/ RequestStop(Loop)
              \/ \E i \in Instances : Deliver(Loop, i) /\ call[Loop].op \notin {"vus", "vus-max"}
  <2>1. \A op \in {"vus", "vus-max"} : ~Sending(op)' /\ \A i : ~Arrived(i, op) /\ ~Arrived(i, op)'
    BY <1>7, LoopRests
  <2>2. InBounds'
    BY <1>0, <1>7, <2>1 DEF InBounds, SameLoad
  <2>3. Spread'
    BY <2>1 DEF Spread, Changing
  <2>4. \A i \in Instances : Reached(i) => Reached(i)'
    BY <1>7, <2>1, KeepsReached
  <2> QED
    BY <1>0, <2>2, <2>3, <2>4
<1> HIDE DEF Goal
<1> QED
  BY <1>0, <1>3, <1>4, <1>5, <1>6, <1>7, LoadKinds, LoopKinds

LEMMA FollowStep ==
  ASSUME OnlyThePlan, PausesMeasured, TypeInv, TypeInv', TimeInv, VUsInv, FollowInv, [Next]_vars
  PROVE  FollowInv'
<1> SUFFICES ASSUME drove', Follows', AllUp'
             PROVE  IF Changing'
                    THEN /\ call'[Loop].n = TargetAt(Plan, Elapsed(now))'
                         /\ at'[Loop] # "apply" => call'[Loop].ok
                    ELSE rp'.sentVUs = TargetAt(Plan, Elapsed(now))'
  BY DEF FollowInv
<1>0. /\ rp \in RunProcesses /\ at \in [Threads -> Steps] /\ call \in [Threads -> Patches]
      /\ Loop \in Threads /\ LoopAlone
  BY VUsParts DEF TypeInv, TypeOK, Threads
<1>1. CASE TakeTick
  <2>1. tick = now
    BY <1>1 DEF TakeTick
  <2>2. rp'.sentVUs = rp.sentVUs /\ rp'.stopRequested = rp.stopRequested
        /\ rp'.manualVUs = rp.manualVUs /\ SameClocks /\ now' = now
    BY <1>0, <1>1 DEF TakeTick, Drive, SameClocks, RunProcesses
  <2>3. Follows /\ Elapsed(now)' = Elapsed(now)
    BY <2>2 DEF Follows, SameClocks, Elapsed
  <2>4. PICK target : target = TargetAt(Plan, Elapsed(now))
    OBVIOUS
  <2>5. PICK need \in BOOLEAN :
          /\ need <=> target # rp.sentVUs
          /\ at' = [at EXCEPT ![Loop] = IF need THEN "apply" ELSE "due"]
          /\ call' = [call EXCEPT ![Loop] = [NoCall EXCEPT !.n = IF need THEN target ELSE 0]]
    BY <1>1, <2>1, <2>3, <2>4 DEF TakeTick, Drive, Goto
  <2>6. CASE need
    <3>1. at'[Loop] = "apply" /\ call'[Loop].n = target
      BY <1>0, <2>5, <2>6 DEF NoCall
    <3> QED
      BY <2>3, <2>4, <3>1 DEF Changing
  <2>7. CASE ~need
    <3>1. at'[Loop] = "due"
      BY <1>0, <2>5, <2>7
    <3> QED
      BY <2>2, <2>3, <2>4, <2>5, <2>7, <3>1 DEF Changing, Sending
  <2> QED
    BY <2>6, <2>7
<1>2. CASE ~TakeTick
  <2>1. drove /\ now' = now /\ SameClocks /\ rp'.manualVUs = rp.manualVUs
        /\ ~(\E i \in Instances : K6Up(i))
    BY <1>2, StillCurrent
  <2>2. Follows /\ AllUp /\ Elapsed(now)' = Elapsed(now)
    <3>1. ~rp.stopRequested
      BY EndKinds DEF Follows
    <3> QED
      BY <2>1, <3>1, NoneComesBack DEF Follows, SameClocks, Elapsed
  <2>3. PICK target : target = TargetAt(Plan, Elapsed(now))
    OBVIOUS
  <2>4. /\ Changing => call[Loop].n = target /\ (at[Loop] # "apply" => call[Loop].ok)
        /\ ~Changing => rp.sentVUs = target
    BY <2>1, <2>2, <2>3 DEF FollowInv
  <2>5. Whole
    BY <2>2 DEF AllUp, Whole
  <2> DEFINE Goal == /\ Changing' => call'[Loop].n = target /\ (at'[Loop] # "apply" => call'[Loop].ok)
                     /\ ~Changing' => rp'.sentVUs = target
  <2> SUFFICES Goal
    BY <2>2, <2>3
  <2>6. CASE \E i \in Instances : Deliver(Loop, i) /\ call[Loop].op \in {"vus", "vus-max"}
    <3>1. PICK i \in Instances : Deliver(Loop, i) /\ call[Loop].op \in {"vus", "vus-max"}
      BY <2>6
    <3>2. Changing /\ at[Loop] = "patching"
      BY <3>1 DEF Deliver, Changing, Sending
    <3>3. call[Loop].n = target /\ call[Loop].ok
      BY <2>4, <3>2
    <3>4. at'[Loop] = "patching" /\ call'[Loop].n = target /\ Changing'
      BY <1>0, <3>1, <3>2, <3>3, Answer DEF Changing, Sending
    <3>5. target >= 0
      <4>1. Elapsed(now) = ran /\ ran \in Nat
        BY DEF TimeInv, TypeInv, TypeOK
      <4>2. \A j \in 1 .. Len(Plan.stages) : Plan.stages[j].len \in Nat /\ Plan.stages[j].target \in Nat
        <5>1. ASSUME NEW j \in 1 .. Len(Plan.stages)
              PROVE  Plan.stages[j].len \in Int /\ Plan.stages[j].target \in Int
          BY StagesType, PlanAssumption
        <5> QED
          BY <5>1 DEF OnlyThePlan, PlanIsSound
      <4>3. TargetAt(Plan, ran) \in 0 .. PeakVUs(Plan)
        BY <4>1, <4>2, TargetInRange, PlanAssumption
      <4> QED
        BY <2>3, <4>1, <4>3
    <3> QED
      BY <2>2, <3>1, <3>3, <3>4, <3>5, DeliverReaches
  <2>7. CASE Raised(Loop)
    <3>1. Changing
      BY <2>7 DEF Raised, Answered, Changing, Sending
    <3>2. at[Loop] # "apply" /\ call[Loop].n = target
      BY <2>4, <2>7, <3>1 DEF Raised, Answered
    <3> QED
      BY <2>5, <2>7, <3>2, RaisedReaches
  <2>8. CASE Sent(Loop)
    <3>1. Changing
      BY <2>8 DEF Sent, Answered, Changing, Sending
    <3> QED
      BY <2>4, <2>8, <3>1, SentReaches
  <2>9. CASE SameLoad /\ at'[Loop] = at[Loop] /\ call'[Loop] = call[Loop]
    BY <2>4, <2>9 DEF SameLoad, Changing, Sending
  <2>10. CASE SameLoad /\ Apply(Loop)
    <3>1. Changing
      BY <2>10 DEF Apply, Changing
    <3> QED
      BY <2>4, <2>5, <2>10, <3>1, ApplyReaches
  <2>11. CASE /\ SameLoad
              /\ \/ TakeTick \/ NotSent(Loop) \/ StopSent(Loop) \/ EnforceDeadline(Loop) \/ RequestStop(Loop)
                 \/ \E i \in Instances : Deliver(Loop, i) /\ call[Loop].op \notin {"vus", "vus-max"}
    <3>1. at[Loop] # "apply"
      BY <2>11, <1>2 DEF NotSent, StopSent, EnforceDeadline, RequestStop, Deliver, Answered
    <3>2. CASE NotSent(Loop)
      BY <2>4, <3>2, <3>1 DEF NotSent, Answered, Changing, Sending
    <3>3. CASE ~NotSent(Loop)
      <4>1. ~Changing
        BY <1>2, <2>11, <3>1, <3>3 DEF StopSent, EnforceDeadline, RequestStop, Deliver, Answered, Changing, Sending
      <4>2. at'[Loop] # "apply"
        <5>1. CASE \E i \in Instances : Deliver(Loop, i)
          BY <3>1, <5>1, <1>0, Answer
        <5>2. CASE StopSent(Loop) \/ EnforceDeadline(Loop)
          BY <1>0, <5>2 DEF StopSent, EnforceDeadline, Return, Goto
        <5>3. CASE RequestStop(Loop)
          BY <1>0, <5>3 DEF RequestStop, Return, Send, Goto
        <5> QED
          BY <1>2, <2>11, <3>3, <5>1, <5>2, <5>3
      <4>3. ~Changing'
        BY <2>11, <4>2, LoopRests DEF Changing
      <4> QED
        BY <2>4, <2>11, <4>1, <4>3 DEF SameLoad
    <3> QED
      BY <3>2, <3>3
  <2> HIDE DEF Goal
  <2> QED
    BY <1>0, <1>2, <2>6, <2>7, <2>8, <2>9, <2>10, <2>11, LoadKinds, LoopKinds
<1> QED
  BY <1>1, <1>2

\* While the plan is in control of a run whose PATCHes arrive, every instance
\* runs the VUs that the schedule calls for after the time the run has run,
\* whatever the plan, the pauses and the instances: driveSchedule and applyVUs.
THEOREM PlanIsFollowed ==
  ASSUME OnlyThePlan, PausesMeasured
  PROVE  Spec => []PlanFollowed
<1> DEFINE Inv == BaseInv /\ VUsInv /\ FollowInv
<1>1. Init => Inv
  BY BaseInit, VUsInit DEF Init, FollowInv
<1>2. Inv /\ [Next]_vars => Inv'
  <2> SUFFICES ASSUME Inv, [Next]_vars
               PROVE  Inv'
    OBVIOUS
  <2>1. BaseInv'
    BY BaseStep
  <2>2. TypeInv /\ TypeInv' /\ TimeInv
    BY <2>1 DEF BaseInv
  <2> QED
    BY <2>1, <2>2, VUsStep, FollowStep
<1>3. Inv => PlanFollowed
  <2> SUFFICES ASSUME Inv, Settled, Follows, AllUp, NEW i \in Instances
               PROVE  k6[i].vus = TargetAt(Plan, ran)
    BY DEF PlanFollowed
  <2>1. at[Loop] = "idle" /\ drove
    BY DEF Settled, Quiet, Threads
  <2>2. rp.sentVUs = TargetAt(Plan, Elapsed(now)) /\ ran = Elapsed(now)
    BY <2>1 DEF FollowInv, Changing, Sending, BaseInv, TimeInv
  <2>3. Reached(i) /\ ~Arrived(i, "vus")
    BY <2>1, VUsParts DEF AllUp, Whole, Arrived, Sending
  <2> QED
    BY <2>2, <2>3 DEF Reached
<1> QED
  BY <1>1, <1>2, <1>3, PTL DEF Spec
=============================================================================
