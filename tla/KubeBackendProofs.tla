------------------------- MODULE KubeBackendProofs --------------------------
(***************************************************************************)
(* For any workers and logs, whatever fails: a worker's log is read line   *)
(* by line in order, and a run's end leaves what it should.                *)
(***************************************************************************)
EXTENDS KubeBackend, TLAPS, WellFoundedInduction

-----------------------------------------------------------------------------
(* Types                                                                   *)

LEMMA LeastNatural ==
  ASSUME NEW T \in SUBSET Nat, T # {}
  PROVE  \E n \in T : \A m \in T : n <= m
<1> DEFINE R == {ss \in Nat \X Nat : ss[1] < ss[2]}
<1>1. IsWellFoundedOn(R, Nat)
  BY NatLessThanWellFounded DEF OpToRel
<1>2. PICK n \in T : \A m \in T : <<m, n>> \notin R
  BY <1>1, WFMin
<1>3. \A m \in T : ~(m < n)
  BY <1>2
<1> QED
  BY <1>3

\* Where a resumed stream begins: there is always such a line, or the end.
LEMMA SinceIs ==
  ASSUME NEW p \in Pods, NEW t \in Nat
  PROVE  /\ Since(p, t) \in 1 .. Len(Stamps[p]) + 1
         /\ \A j \in 1 .. Since(p, t) - 1 : Sec(Stamps[p][j]) < Sec(t)
<1> DEFINE S == Stamps[p]
           N == Len(S) + 1
           T == {i \in 1 .. N : i \in Lines(p) => Sec(S[i]) >= Sec(t)}
<1>1. S \in Seq(Nat) /\ Lines(p) = 1 .. Len(S) /\ Len(S) \in Nat
  BY StampsAssumption DEF Lines
<1>2. \A i \in Lines(p) : S[i] \in Nat /\ Sec(S[i]) \in Int
  BY <1>1 DEF Sec
<1>3. Sec(t) \in Int
  BY DEF Sec
<1>4. N \in T /\ T \in SUBSET Nat
  BY <1>1
<1>5. PICK n \in T : \A m \in T : n <= m
  BY <1>4, LeastNatural
<1>6. \A j \in 1 .. n - 1 : Sec(S[j]) < Sec(t)
  <2> SUFFICES ASSUME NEW j \in 1 .. n - 1 PROVE Sec(S[j]) < Sec(t)
    OBVIOUS
  <2>1. j \in 1 .. N /\ j \in Lines(p) /\ j \notin T
    BY <1>1, <1>5
  <2> QED
    BY <2>1, <1>2, <1>3
<1>7. n \in 1 .. N /\ (n \in Lines(p) => Sec(S[n]) >= Sec(t))
  BY <1>5
<1> HIDE DEF T, N
<1> QED
  BY <1>6, <1>7 DEF Since, N

\* A follower and what is known of a pod, field by field.
Follower == [pc : FollowSteps, last : Nat, atLast : Nat, resumeAt : Nat, skip : Nat,
             failures : 0 .. MaxFailures]
Known == [streaming : BOOLEAN, terminated : BOOLEAN, exitCode : AllCodes \cup {None}]

LEMMA LogTyped ==
  ASSUME NEW p \in Pods
  PROVE  /\ Stamps[p] \in Seq(Nat) /\ Len(Stamps[p]) \in Nat /\ Lines(p) = 1 .. Len(Stamps[p])
         /\ \A i \in Lines(p) : Stamps[p][i] \in Nat /\ Stamps[p][i] # Zero
         /\ \A i, j \in Lines(p) : i <= j => Stamps[p][i] <= Stamps[p][j]
  BY StampsAssumption DEF Lines

\* The type invariant in three parts.
ClusterOK ==
  /\ objects \in SUBSET {"secret", "configmap", "testrun"}
  /\ stage \in {"created", "started", "error"}
  /\ state \in [Pods -> {"none", "running", "exited", "removed"}]
  /\ written \in [Pods -> Nat] /\ \A p \in Pods : written[p] <= Len(Stamps[p])
  /\ code \in [Pods -> AllCodes \cup {None}]
WatchOK ==
  /\ watch \in WatchSteps /\ created \in 0 .. 3 /\ (watch = "create" => created < 3)
  /\ seen \in {"created", "started", "error"} /\ started \in BOOLEAN
  /\ {verdict, exitCode} \subseteq AllCodes \cup {0, 104, Lost, None}
  /\ cancelled \in BOOLEAN /\ logged \in BOOLEAN
FollowOK ==
  /\ pods \in [Pods -> Known] /\ follow \in [Pods -> Follower]
  /\ pos \in [Pods -> Nat \ {0}] /\ read \in [Pods -> Nat]
  /\ hurt \in [Pods -> Hurts]
FaultsOK == faults \in 0 .. MaxFaults

TypeInv == ClusterOK /\ WatchOK /\ FollowOK /\ FaultsOK

LEMMA ObjectsAre ==
  Len(Objects) = 3 /\ {Objects[i] : i \in DOMAIN Objects} = {"secret", "configmap", "testrun"}
  BY DEF Objects

LEMMA TypeParts == TypeInv => TypeOK
  BY ObjectsAre DEF TypeInv, TypeOK, ClusterOK, WatchOK, FollowOK, FaultsOK, Known, Follower

LEMMA InitType == Init => TypeInv
<1> SUFFICES ASSUME Init PROVE TypeInv
  OBVIOUS
<1>1. FollowOK
  BY FaultsAssumption DEF Init, FollowOK, Known, Follower, FollowSteps, Zero, Hurts
<1>2. ClusterOK
  BY LogTyped DEF Init, ClusterOK
<1>3. WatchOK
  <2>1. {verdict, exitCode} \subseteq AllCodes \cup {0, 104, Lost, None}
    BY DEF Init
  <2>2. watch \in WatchSteps /\ created \in 0 .. 3 /\ created < 3 /\ seen = "created"
    BY DEF Init, WatchSteps
  <2> QED
    BY <2>1, <2>2 DEF Init, WatchOK
<1>4. FaultsOK
  BY FaultsAssumption DEF Init, FaultsOK
<1> QED
  BY <1>1, <1>2, <1>3, <1>4 DEF TypeInv

LEMMA FaultsType ==
  ASSUME FaultsOK, (\E kind \in FaultKinds : Fails(kind)) \/ UNCHANGED faults
  PROVE  FaultsOK'
  BY FaultsAssumption DEF FaultsOK, Fails

LEMMA ClusterType ==
  ASSUME TypeInv, Cluster
  PROVE  TypeInv'
<1> SUFFICES ClusterOK' /\ UNCHANGED <<watcher, pods, followers>> /\ FaultsOK'
  BY DEF TypeInv, WatchOK, FollowOK, watcher, followers
<1>0. ClusterOK /\ FaultsOK
  BY DEF TypeInv
<1> USE DEF ClusterOK
<1>1. CASE StageError \/ DeleteTestRun
  BY <1>0, <1>1, FaultsType DEF StageError, DeleteTestRun, FaultKinds, Fails
<1>2. ASSUME NEW p \in Pods, PodUp(p)
      PROVE  ClusterOK' /\ UNCHANGED <<watcher, pods, followers, faults>>
  BY <1>0, <1>2 DEF PodUp, ToPod
<1>3. ASSUME NEW p \in Pods, WriteLine(p)
      PROVE  ClusterOK' /\ UNCHANGED <<watcher, pods, followers, faults>>
  <2>1. written[p] < Len(Stamps[p]) /\ written' = [written EXCEPT ![p] = @ + 1]
    BY <1>3 DEF WriteLine
  <2>2. \A q \in Pods : Len(Stamps[q]) \in Nat
    BY LogTyped
  <2>3. written' \in [Pods -> Nat] /\ \A q \in Pods : written'[q] <= Len(Stamps[q])
    BY <1>0, <2>1, <2>2
  <2> QED
    BY <1>0, <1>3, <2>3 DEF WriteLine
<1>4. ASSUME NEW p \in Pods, Exit(p)
      PROVE  ClusterOK' /\ UNCHANGED <<watcher, pods, followers, faults>>
  <2>1. PICK c \in Codes[p] : code' = [code EXCEPT ![p] = c]
    BY <1>4 DEF Exit
  <2>2. c \in AllCodes
    BY <2>1 DEF AllCodes
  <2> QED
    BY <1>0, <1>4, <2>1, <2>2 DEF Exit, ToPod
<1>5. ASSUME NEW p \in Pods, Collect(p)
      PROVE  ClusterOK' /\ UNCHANGED <<watcher, pods, followers, faults>>
  BY <1>0, <1>5 DEF Collect, ToPod
<1> QED
  BY <1>0, <1>1, <1>2, <1>3, <1>4, <1>5 DEF Cluster, FaultsOK, StageError, DeleteTestRun

LEMMA TrackType ==
  ASSUME TypeInv, Track
  PROVE  pods' \in [Pods -> Known] /\ follow' \in [Pods -> Follower]
<1>0. ClusterOK /\ FollowOK
  BY DEF TypeInv
<1>1. ASSUME NEW p \in Pods PROVE Tracked(p) \in Known
  <2>1. (IF state[p] = "exited" THEN code[p] ELSE pods[p].exitCode) \in AllCodes \cup {None}
    BY <1>0 DEF ClusterOK, FollowOK, Known
  <2>2. (pods[p].streaming \/ state[p] \in {"running", "exited"}) \in BOOLEAN
    OBVIOUS
  <2>3. (pods[p].terminated \/ state[p] = "exited") \in BOOLEAN
    OBVIOUS
  <2> QED
    BY <2>1, <2>2, <2>3 DEF Tracked, Known
<1>2. \A p \in Pods : [follow[p] EXCEPT !.pc = "open"] \in Follower /\ follow[p] \in Follower
  BY <1>0 DEF FollowOK, Follower, FollowSteps
<1> QED
  BY <1>1, <1>2 DEF Track

LEMMA WatchType ==
  ASSUME TypeInv, Watch
  PROVE  TypeInv'
<1> SUFFICES ClusterOK' /\ WatchOK' /\ FollowOK' /\ FaultsOK'
  BY DEF TypeInv
<1>0. ClusterOK /\ WatchOK /\ FollowOK /\ FaultsOK
  BY DEF TypeInv
<1>1. CASE Create
  <2>1. created \in 0 .. 2 /\ Objects[created + 1] \in {"secret", "configmap", "testrun"}
    BY <1>0, <1>1 DEF Create, Objects, WatchOK
  <2>4. ClusterOK'
    BY <1>0, <1>1, <2>1 DEF Create, Creates, ClusterOK
  <2>2. WatchOK'
    BY <1>0, <1>1, <2>1, ObjectsAre DEF Create, WatchSteps, WatchOK
  <2>3. FaultsOK'
    BY <1>0, <1>1, FaultsType DEF Create, Succeeds, FaultKinds
  <2> QED
    BY <1>0, <1>1, <2>2, <2>3, <2>4 DEF Create, FollowOK, followers
<1>2. CASE Undo \/ Cleanup
  <2>1. FaultsOK'
    BY <1>0, <1>2, FaultsType DEF Undo, Cleanup, Deletes, Succeeds, FaultKinds
  <2>2. ClusterOK'
    BY <1>0, <1>2 DEF Undo, Cleanup, Deletes, ClusterOK
  <2>3. WatchOK'
    BY <1>0, <1>2 DEF Undo, Cleanup, Deletes, WatchSteps, WatchOK
  <2> QED
    BY <1>0, <1>2, <2>1, <2>2, <2>3 DEF Undo, Cleanup, FollowOK, followers
<1>3. CASE Poll
  <2>1. FaultsOK'
    BY <1>0, <1>3, FaultsType DEF Poll, Succeeds, FaultKinds
  <2>2. WatchOK'
    BY <1>0, <1>3 DEF Poll, FinishAfterStreams, WatchSteps, WatchOK, ClusterOK
  <2> QED
    BY <1>0, <1>3, <2>1, <2>2 DEF Poll, ClusterOK, FollowOK, cluster, followers
<1>4. CASE Look
  <2>1. pods' \in [Pods -> Known] /\ follow' \in [Pods -> Follower]
    BY <1>0, <1>4, TrackType DEF Look, FollowOK
  <2>2. FaultsOK'
    BY <1>0, <1>4, FaultsType DEF Look, Succeeds, FaultKinds
  <2>3. started' \in BOOLEAN /\ UNCHANGED <<created, seen, cancelled, logged>>
    BY <1>4 DEF Look
  <2>4. /\ {verdict', exitCode'} \subseteq AllCodes \cup {0, 104, Lost, None}
        /\ watch' \in WatchSteps /\ watch' # "create"
    BY <1>0, <1>4 DEF Look, Finish, FinishAfterStreams, WatchSteps, WatchOK
  <2>5. WatchOK'
    BY <1>0, <2>3, <2>4 DEF WatchOK
  <2> QED
    BY <1>0, <1>4, <2>1, <2>2, <2>5 DEF Look, ClusterOK, FollowOK, cluster
<1>5. CASE WaitStreams
  <2>1. FaultsOK'
    BY <1>0, <1>5, FaultsType DEF WaitStreams, Succeeds, FaultKinds
  <2> QED
    BY <1>0, <1>5, <2>1 DEF WaitStreams, Finish, WatchSteps, Hurts, cluster, ClusterOK, WatchOK, FollowOK
<1> QED
  BY <1>1, <1>2, <1>3, <1>4, <1>5 DEF Watch

\* What a line does to its follower keeps its type.
LEMMA HandledType ==
  ASSUME TypeInv, NEW p \in Pods, HasLine(p)
  PROVE  /\ pos[p] \in 1 .. Len(Stamps[p]) /\ Stamp(p) \in Nat
         /\ Handled(p) \in Follower /\ Closed(Handled(p), "check") \in Follower
<1>1. follow[p] \in Follower /\ pos[p] \in Nat \ {0}
  BY DEF TypeInv, FollowOK
<1>2. pos[p] <= written[p] /\ written[p] <= Len(Stamps[p]) /\ written[p] \in Nat
  BY DEF TypeInv, ClusterOK, HasLine
<1>3. pos[p] \in 1 .. Len(Stamps[p]) /\ Stamp(p) \in Nat
  BY <1>1, <1>2, LogTyped DEF Stamp
<1>4. Handled(p) \in Follower
  <2>1. CASE ~SkipsLine(p)
    <3>1. Handled(p) = AfterLine(follow[p], Stamp(p))
      BY <2>1 DEF Handled
    <3>2. ASSUME NEW f \in Follower, NEW t \in Nat PROVE AfterLine(f, t) \in Follower
      <4>1. [f EXCEPT !.atLast = @ + 1] \in Follower
        BY DEF Follower
      <4>2. [f EXCEPT !.last = t, !.atLast = 1] \in Follower
        BY DEF Follower
      <4> QED
        BY <4>1, <4>2 DEF AfterLine
    <3> QED
      BY <1>1, <1>3, <3>1, <3>2
  <2>2. CASE SkipsLine(p) /\ Stamp(p) = follow[p].resumeAt
    <3>1. follow[p].skip \in Nat /\ follow[p].skip > 0 /\ follow[p].resumeAt \in Nat
      BY <1>1, <2>2 DEF SkipsLine, Skipped, Follower
    <3>2. Handled(p) = [follow[p] EXCEPT !.skip = @ - 1]
      BY <2>2 DEF Handled, AfterSkip
    <3> QED
      BY <1>1, <3>1, <3>2 DEF Follower
  <2>3. CASE SkipsLine(p) /\ Stamp(p) # follow[p].resumeAt
    BY <1>1, <2>3 DEF Handled, AfterSkip
  <2> QED
    BY <2>1, <2>2, <2>3
<1> QED
  BY <1>3, <1>4 DEF Closed, Follower, FollowSteps, Zero

LEMMA FollowType ==
  ASSUME TypeInv, NEW p \in Pods, Follow(p)
  PROVE  TypeInv'
<1>0. ClusterOK /\ WatchOK /\ FollowOK /\ FaultsOK
  BY DEF TypeInv
<1>1. UNCHANGED <<cluster, watcher, pods>>
  BY DEF Follow, Open, ReadLine, TearLine, StreamEnds, Check
<1>2. FaultsOK'
  BY <1>0, FaultsType DEF Follow, Open, ReadLine, TearLine, StreamEnds, Check, Succeeds, FaultKinds
<1>3. follow[p] \in Follower
  BY <1>0 DEF FollowOK
<1>4. CASE Open(p)
  <2>1. pos' \in [Pods -> Nat \ {0}]
    <3>1. follow[p].last \in Nat /\ Len(Stamps[p]) \in Nat
      BY <1>3, LogTyped DEF Follower
    <3>2. Since(p, follow[p].last) \in 1 .. Len(Stamps[p]) + 1
      BY <3>1, SinceIs
    <3>3. Since(p, follow[p].last) \in Nat \ {0}
      BY <3>1, <3>2
    <3> QED
      BY <1>0, <1>4, <3>3 DEF Open, Go, FollowOK
  <2>2. follow' \in [Pods -> Follower]
    <3>1. \/ follow' = [follow EXCEPT ![p] = [follow[p] EXCEPT !.pc = "end"]]
          \/ /\ follow[p].failures # MaxFailures
             /\ follow' = [follow EXCEPT ![p] = [follow[p] EXCEPT !.failures = @ + 1]]
          \/ follow' = [follow EXCEPT ![p] = [follow[p] EXCEPT !.pc = "read",
                          !.resumeAt = follow[p].last, !.skip = follow[p].atLast]]
      BY <1>0, <1>3, <1>4 DEF Open, Go, FollowOK
    <3>2. [follow[p] EXCEPT !.pc = "end"] \in Follower
      BY <1>3 DEF Follower, FollowSteps
    <3>3. follow[p].failures # MaxFailures => [follow[p] EXCEPT !.failures = @ + 1] \in Follower
      BY <1>3, FaultsAssumption DEF Follower
    <3>4. [follow[p] EXCEPT !.pc = "read", !.resumeAt = follow[p].last,
             !.skip = follow[p].atLast] \in Follower
      BY <1>3 DEF Follower, FollowSteps
    <3> QED
      BY <1>0, <3>1, <3>2, <3>3, <3>4 DEF FollowOK
  <2> QED
    BY <1>0, <1>1, <1>2, <1>4, <2>1, <2>2
    DEF Open, TypeInv, ClusterOK, WatchOK, FollowOK, cluster, watcher
<1>5. CASE ReadLine(p) \/ TearLine(p)
  <2>0. HasLine(p)
    BY <1>5 DEF ReadLine, TearLine
  <2>1. pos' \in [Pods -> Nat \ {0}] /\ hurt' \in [Pods -> Hurts]
    BY <1>0, <1>5 DEF ReadLine, TearLine, FollowOK, Hurts
  <2>2. follow' \in [Pods -> Follower]
    <3>1. follow' = [follow EXCEPT ![p] = Handled(p)]
          \/ follow' = [follow EXCEPT ![p] = Closed(Handled(p), "check")]
      BY <1>5 DEF ReadLine, TearLine
    <3>2. Handled(p) \in Follower /\ Closed(Handled(p), "check") \in Follower
      BY <2>0, HandledType
    <3> QED
      BY <1>0, <3>1, <3>2 DEF FollowOK
  <2>3. read' \in [Pods -> Nat]
    <3>1. pos[p] \in Nat /\ Astray(p) \in Nat
      BY <1>0, LogTyped DEF FollowOK, Astray
    <3> QED
      BY <1>0, <1>5, <3>1 DEF ReadLine, TearLine, HandleLine, FollowOK
  <2> QED
    BY <1>0, <1>1, <1>2, <2>1, <2>2, <2>3 DEF TypeInv, ClusterOK, WatchOK, FollowOK, cluster, watcher
<1>6. CASE StreamEnds(p) \/ Check(p)
  <2>1. pos' \in [Pods -> Nat \ {0}] /\ hurt' \in [Pods -> Hurts] /\ UNCHANGED read
    BY <1>0, <1>6 DEF StreamEnds, Check, Close, FollowOK, Hurts
  <2>2. follow' \in [Pods -> Follower]
    <3>1. \/ follow' = [follow EXCEPT ![p] = Closed(follow[p], "check")]
          \/ follow' = [follow EXCEPT ![p] = [follow[p] EXCEPT !.pc = "end"]]
          \/ follow' = [follow EXCEPT ![p] = [follow[p] EXCEPT !.pc = "open"]]
      BY <1>0, <1>6 DEF StreamEnds, Check, Close, Go, FollowOK
    <3>2. /\ Closed(follow[p], "check") \in Follower
          /\ [follow[p] EXCEPT !.pc = "end"] \in Follower
          /\ [follow[p] EXCEPT !.pc = "open"] \in Follower
      BY <1>3 DEF Closed, Follower, FollowSteps, Zero
    <3> QED
      BY <1>0, <3>1, <3>2 DEF FollowOK
  <2> QED
    BY <1>0, <1>1, <1>2, <2>1, <2>2 DEF TypeInv, ClusterOK, WatchOK, FollowOK, cluster, watcher
<1> QED
  BY <1>4, <1>5, <1>6 DEF Follow

LEMMA TypeStep == TypeInv /\ [Next]_vars => TypeInv'
<1> SUFFICES ASSUME TypeInv, [Next]_vars PROVE TypeInv'
  OBVIOUS
<1>1. CASE UNCHANGED vars
  BY <1>1 DEF vars, cluster, watcher, followers, TypeInv, ClusterOK, WatchOK, FollowOK, FaultsOK
<1> QED
  BY <1>1, ClusterType, WatchType, FollowType DEF Next

\* Every variable has its type, whatever the logs and the faults.
THEOREM TypeCorrect == Spec => []TypeOK
  BY InitType, TypeStep, TypeParts, PTL DEF Spec

-----------------------------------------------------------------------------
(* Logs are read line by line                                              *)

\* Where a follower f stands that has read r lines of the log S and gets line
\* q next: its last line is the one read last, atLast counts the lines read
\* with that stamp, and skip those of them an open stream has still to pass.
Stands(f, r, q, S) ==
  /\ r = 0 => f.last = 0 /\ f.atLast = 0
  /\ r > 0 => /\ f.last = S[r] /\ f.atLast \in 1 .. r
              /\ \A i \in 1 .. r : IF i <= r - f.atLast THEN S[i] < S[r] ELSE S[i] = S[r]
  /\ f.pc = "read" =>
       /\ q <= r + 1 /\ f.resumeAt <= f.last
       /\ q = r + 1 => f.skip = 0
       /\ q <= r => /\ f.resumeAt = f.last
                    /\ f.skip = IF q <= r - f.atLast THEN f.atLast ELSE r + 1 - q

LogInv == \A p \in Pods : /\ read[p] <= written[p]
                          /\ Stands(follow[p], read[p], pos[p], Stamps[p])

\* A stream that is not open says nothing of the next line.
LEMMA IdleStands ==
  ASSUME NEW f, NEW g, NEW r, NEW q, NEW q2, NEW S, Stands(f, r, q, S),
         g.pc # "read", g.last = f.last, g.atLast = f.atLast
  PROVE  Stands(g, r, q2, S)
  BY DEF Stands

Reopened(f) == [f EXCEPT !.pc = "read", !.resumeAt = f.last, !.skip = f.atLast]

\* A stream that is opened begins no later than with the lines stamped last.
LEMMA OpenStands ==
  ASSUME NEW p \in Pods, NEW f \in Follower, NEW r \in 0 .. Len(Stamps[p]), NEW q,
         Stands(f, r, q, Stamps[p])
  PROVE  Stands(Reopened(f), r, Since(p, f.last), Stamps[p])
<1> DEFINE S == Stamps[p]
           n == Since(p, f.last)
           g == Reopened(f)
<1>0. Len(S) \in Nat /\ \A i \in 1 .. Len(S) : S[i] \in Nat
  BY LogTyped
<1>1. f.last \in Nat /\ f.atLast \in Nat /\ r \in Nat /\ r <= Len(S)
  BY <1>0 DEF Follower
<1>2. /\ g.pc = "read" /\ g.last = f.last /\ g.atLast = f.atLast
      /\ g.resumeAt = f.last /\ g.skip = f.atLast
  BY DEF Reopened, Follower
<1>3. n \in 1 .. Len(S) + 1 /\ \A j \in 1 .. n - 1 : Sec(S[j]) < Sec(f.last)
  BY <1>1, SinceIs
<1>4. /\ r = 0 => f.last = 0 /\ f.atLast = 0
      /\ r > 0 => /\ f.last = S[r] /\ f.atLast \in 1 .. r
                  /\ \A i \in 1 .. r : IF i <= r - f.atLast THEN S[i] < S[r] ELSE S[i] = S[r]
  BY DEF Stands
<1> HIDE DEF n, g, S
<1>5. CASE r = 0
  <2>1. n = 1
    <3> SUFFICES ASSUME n # 1 PROVE FALSE
      OBVIOUS
    <3>1. 1 \in 1 .. n - 1 /\ S[1] \in Nat
      BY <1>0, <1>3
    <3>2. Sec(S[1]) < Sec(0)
      BY <1>3, <1>4, <1>5, <3>1
    <3> QED
      BY <3>1, <3>2 DEF Sec
  <2> QED
    BY <1>2, <1>4, <1>5, <2>1 DEF Stands, g, n, S
<1>6. CASE r > 0
  <2>1. r - f.atLast + 1 \in 1 .. r /\ S[r - f.atLast + 1] = S[r]
    BY <1>1, <1>4, <1>6
  <2>2. n <= r - f.atLast + 1
    <3> SUFFICES ASSUME n > r - f.atLast + 1 PROVE FALSE
      BY <1>1, <1>3, <1>0
    <3>1. r - f.atLast + 1 \in 1 .. n - 1
      BY <1>0, <1>1, <1>3, <2>1
    <3>2. Sec(S[r]) < Sec(S[r])
      BY <1>3, <1>4, <1>6, <2>1, <3>1
    <3>3. S[r] \in Nat
      BY <1>0, <1>1, <1>6
    <3> QED
      BY <3>2, <3>3 DEF Sec
  <2>3. n <= r /\ (n > r - f.atLast => r + 1 - n = f.atLast)
    BY <1>0, <1>1, <1>3, <1>4, <1>6, <2>1, <2>2
  <2>4. n <= r + 1 /\ n # r + 1 /\ ~(r = 0)
    BY <1>0, <1>1, <1>3, <1>6, <2>3
  <2>5. g.skip = IF n <= r - f.atLast THEN f.atLast ELSE r + 1 - n
    BY <1>0, <1>1, <1>2, <1>3, <2>3
  <2>6. g.resumeAt <= g.last
    BY <1>1, <1>2
  <2> QED
    BY <1>2, <1>4, <2>3, <2>4, <2>5, <2>6 DEF Stands, g, n, S
<1> QED
  BY <1>1, <1>5, <1>6

\* A line is skipped when it was read before, and else it is the next one.
LEMMA LineStands ==
  ASSUME NEW p \in Pods, NEW f \in Follower, NEW r \in 0 .. Len(Stamps[p]),
         NEW q \in 1 .. Len(Stamps[p]), f.pc = "read", Stands(f, r, q, Stamps[p])
  PROVE  LET t == Stamps[p][q]
         IN  /\ Skipped(f, t) => q <= r /\ Stands(AfterSkip(f, t), r, q + 1, Stamps[p])
             /\ ~Skipped(f, t) => q = r + 1 /\ Stands(AfterLine(f, t), r + 1, q + 1, Stamps[p])
<1> DEFINE S == Stamps[p]
           t == S[q]
<1>0. /\ Len(S) \in Nat /\ \A i \in 1 .. Len(S) : S[i] \in Nat /\ S[i] # 0
      /\ \A i, j \in 1 .. Len(S) : i <= j => S[i] <= S[j]
  BY LogTyped DEF Zero
<1>1. f.last \in Nat /\ f.atLast \in Nat /\ f.skip \in Nat /\ f.resumeAt \in Nat
  BY DEF Follower
<1>2. r \in Nat /\ q \in Nat /\ q >= 1 /\ r <= Len(S) /\ t \in Nat /\ t # 0
  BY <1>0
<1>3. /\ r = 0 => f.last = 0 /\ f.atLast = 0
      /\ r > 0 => /\ f.last = S[r] /\ f.atLast \in 1 .. r
                  /\ \A i \in 1 .. r : IF i <= r - f.atLast THEN S[i] < S[r] ELSE S[i] = S[r]
  BY DEF Stands
<1>4. /\ q <= r + 1 /\ f.resumeAt <= f.last
      /\ q = r + 1 => f.skip = 0
      /\ q <= r => /\ f.resumeAt = f.last
                   /\ f.skip = IF q <= r - f.atLast THEN f.atLast ELSE r + 1 - q
  BY DEF Stands
<1> HIDE DEF S, t
<1>5. CASE q <= r
  <2>1. f.last = S[r] /\ r > 0 /\ S[r] \in Nat /\ S[r] # 0 /\ f.atLast \in 1 .. r
    BY <1>0, <1>2, <1>3, <1>5
  <2>2. q <= r - f.atLast => t < f.resumeAt
    BY <1>2, <1>3, <1>4, <1>5, <2>1 DEF t
  <2>3. q > r - f.atLast => t = f.resumeAt /\ f.skip = r + 1 - q
    BY <1>2, <1>3, <1>4, <1>5, <2>1 DEF t
  <2>4. Skipped(f, t)
    BY <1>1, <1>2, <1>4, <1>5, <2>1, <2>2, <2>3 DEF Skipped, Zero
  <2> DEFINE g == AfterSkip(f, t)
  <2>5. /\ g.pc = f.pc /\ g.last = f.last /\ g.atLast = f.atLast /\ g.resumeAt = f.resumeAt
        /\ g.skip = IF t = f.resumeAt THEN f.skip - 1 ELSE f.skip
    BY DEF AfterSkip, Follower
  <2> HIDE DEF g
  <2>6. q + 1 = r + 1 => g.skip = 0
    BY <1>1, <1>2, <2>1, <2>3, <2>5
  <2>7. q + 1 <= r => g.skip = IF q + 1 <= r - f.atLast THEN f.atLast ELSE r + 1 - (q + 1)
    <3>1. CASE q <= r - f.atLast
      BY <1>1, <1>2, <1>4, <1>5, <2>1, <2>2, <2>5, <3>1
    <3>2. CASE q > r - f.atLast
      BY <1>1, <1>2, <1>4, <1>5, <2>1, <2>3, <2>5, <3>2
    <3> QED
      BY <1>2, <2>1, <3>1, <3>2
  <2>8. q + 1 <= r + 1 /\ g.resumeAt <= g.last /\ (q + 1 <= r => g.resumeAt = g.last)
    BY <1>2, <1>4, <1>5, <2>5
  <2>9. Stands(g, r, q + 1, S)
    BY <1>3, <2>5, <2>6, <2>7, <2>8 DEF Stands
  <2> QED
    BY <1>5, <2>4, <2>9 DEF g, t, S
<1>6. CASE q = r + 1
  <2>1. f.last <= t
    <3>1. CASE r = 0
      BY <1>2, <1>3, <3>1
    <3>2. CASE r > 0
      <4>1. r \in 1 .. Len(S) /\ q \in 1 .. Len(S) /\ r <= q
        BY <1>2, <1>6, <3>2 DEF S
      <4>2. S[r] <= S[q]
        BY <1>0, <4>1
      <4> QED
        BY <1>3, <3>2, <4>2 DEF t
    <3> QED
      BY <1>2, <3>1, <3>2
  <2>2. ~Skipped(f, t)
    BY <1>1, <1>2, <1>4, <1>6, <2>1 DEF Skipped
  <2> DEFINE g == AfterLine(f, t)
  <2>3. /\ g.pc = f.pc /\ g.last = t /\ g.resumeAt = f.resumeAt /\ g.skip = f.skip
        /\ g.atLast = IF t = f.last THEN f.atLast + 1 ELSE 1
    BY DEF AfterLine, Follower
  <2> HIDE DEF g
  <2>4. g.last = S[r + 1] /\ g.atLast \in 1 .. r + 1
    BY <1>2, <1>3, <1>6, <2>3 DEF t
  <2>5. ASSUME NEW i \in 1 .. r + 1
        PROVE  IF i <= r + 1 - g.atLast THEN S[i] < S[r + 1] ELSE S[i] = S[r + 1]
    <3>1. CASE i = r + 1
      BY <1>2, <2>4, <3>1
    <3>2. CASE i # r + 1 /\ t = f.last
      <4>1. i \in 1 .. r /\ r > 0 /\ S[r] = S[r + 1] /\ f.atLast \in 1 .. r
        BY <1>2, <1>3, <1>6, <2>5, <3>2 DEF t
      <4>2. g.atLast = f.atLast + 1
        BY <2>3, <3>2
      <4>3. i <= r + 1 - g.atLast <=> i <= r - f.atLast
        BY <1>2, <4>1, <4>2
      <4> QED
        BY <1>3, <4>1, <4>3
    <3>3. CASE i # r + 1 /\ t # f.last
      <4>1. i \in 1 .. r /\ r > 0 /\ g.atLast = 1 /\ i <= r + 1 - g.atLast
        BY <1>2, <2>3, <2>5, <3>3
      <4>2. S[i] <= S[r] /\ S[r] < t /\ S[i] \in Nat /\ S[r] \in Nat
        BY <1>0, <1>2, <1>3, <2>1, <3>3, <4>1
      <4> QED
        BY <1>2, <1>6, <4>1, <4>2 DEF t
    <3> QED
      BY <3>1, <3>2, <3>3
  <2>6. q + 1 <= r + 2 /\ g.resumeAt <= g.last /\ g.skip = 0 /\ ~(q + 1 <= r + 1) /\ ~(r + 1 = 0)
    BY <1>1, <1>2, <1>4, <1>6, <2>1, <2>3
  <2>7. Stands(g, r + 1, q + 1, S)
    BY <1>2, <2>4, <2>5, <2>6 DEF Stands
  <2> QED
    BY <1>6, <2>2, <2>7 DEF g, t, S
<1> QED
  BY <1>2, <1>4, <1>5, <1>6

LEMMA LogInit == Init => LogInv
<1> SUFFICES ASSUME Init, NEW p \in Pods
             PROVE  read[p] <= written[p] /\ Stands(follow[p], read[p], pos[p], Stamps[p])
  BY DEF LogInv
<1>1. /\ follow[p].pc = "off" /\ follow[p].last = 0 /\ follow[p].atLast = 0
      /\ read[p] = 0 /\ written[p] = 0
  BY DEF Init, Zero
<1> QED
  BY <1>1 DEF Stands

\* What reading a line makes of the follower that reads it, and of the log.
LEMMA HandleStands ==
  ASSUME TypeInv, LogInv, NEW p \in Pods, At(p, "read"), HasLine(p), HandleLine(p)
  PROVE  /\ read' = IF SkipsLine(p) THEN read ELSE [read EXCEPT ![p] = @ + 1]
         /\ ~SkipsLine(p) => read[p] < written[p]
         /\ Stands(Handled(p), read'[p], pos[p] + 1, Stamps[p])
<1> DEFINE f == follow[p]
           r == read[p]
           q == pos[p]
<1>0. /\ read \in [Pods -> Nat] /\ f \in Follower /\ q \in Nat \ {0} /\ f.pc = "read"
      /\ written[p] \in Nat /\ written[p] <= Len(Stamps[p])
  BY DEF TypeInv, FollowOK, ClusterOK, At
<1>1. r <= written[p] /\ Stands(f, r, q, Stamps[p])
  BY DEF LogInv
<1>2. q <= written[p] /\ r \in 0 .. Len(Stamps[p]) /\ q \in 1 .. Len(Stamps[p])
  BY <1>0, <1>1, LogTyped DEF HasLine
<1>3. /\ Skipped(f, Stamp(p)) => Stands(AfterSkip(f, Stamp(p)), r, q + 1, Stamps[p])
      /\ ~Skipped(f, Stamp(p)) => q = r + 1 /\ Stands(AfterLine(f, Stamp(p)), r + 1, q + 1, Stamps[p])
  BY <1>0, <1>1, <1>2, LineStands DEF Stamp
<1>4. CASE SkipsLine(p)
  BY <1>3, <1>4 DEF SkipsLine, Handled, HandleLine
<1>5. CASE ~SkipsLine(p)
  <2>1. q = r + 1 /\ Stands(Handled(p), r + 1, q + 1, Stamps[p])
    BY <1>3, <1>5 DEF SkipsLine, Handled
  <2>2. read' = [read EXCEPT ![p] = r + 1]
    BY <1>5, <2>1 DEF HandleLine
  <2> QED
    BY <1>0, <1>2, <1>5, <2>1, <2>2
<1> QED
  BY <1>4, <1>5

LEMMA FollowKeepsLog ==
  ASSUME TypeInv, LogInv, NEW p \in Pods, Follow(p)
  PROVE  LogInv' /\ [Stream!Next]_(Stream!streams)
<1>0. /\ follow \in [Pods -> Follower] /\ follow[p] \in Follower /\ read \in [Pods -> Nat]
      /\ pos \in [Pods -> Nat \ {0}]
      /\ \A o \in Pods : written[o] \in Nat /\ written[o] <= Len(Stamps[o]) /\ Len(Stamps[o]) \in Nat
  BY LogTyped DEF TypeInv, FollowOK, ClusterOK
<1>1. UNCHANGED written
  BY DEF Follow, Open, ReadLine, TearLine, StreamEnds, Check, cluster
<1>2. \A o \in Pods : read[o] <= written[o] /\ Stands(follow[o], read[o], pos[o], Stamps[o])
  BY DEF LogInv
<1>3. \A o \in Pods \ {p} : follow'[o] = follow[o] /\ pos'[o] = pos[o] /\ read'[o] = read[o]
  BY <1>0 DEF Follow, Open, ReadLine, TearLine, StreamEnds, Check, Close, Go, HandleLine
<1>4. SUFFICES /\ read'[p] <= written[p] /\ Stands(follow'[p], read'[p], pos'[p], Stamps[p])
               /\ [Stream!Next]_(Stream!streams)
  BY <1>1, <1>2, <1>3 DEF LogInv
<1>5. CASE Open(p)
  <2>1. UNCHANGED read
    BY <1>5 DEF Open
  <2>2. CASE /\ follow' = [follow EXCEPT ![p].pc = "read", ![p].resumeAt = follow[p].last,
                                         ![p].skip = follow[p].atLast]
             /\ pos' = [pos EXCEPT ![p] = Since(p, follow[p].last)]
    <3>1. follow'[p] = Reopened(follow[p]) /\ pos'[p] = Since(p, follow[p].last)
      BY <1>0, <2>2 DEF Reopened
    <3>2. read[p] \in 0 .. Len(Stamps[p])
      BY <1>0, <1>2
    <3> QED
      BY <1>0, <1>1, <1>2, <2>1, <3>1, <3>2, OpenStands DEF Stream!streams
  <2>3. CASE Go(p, "end") \/ follow' = [follow EXCEPT ![p].failures = @ + 1]
    <3>1. /\ follow'[p].pc # "read" /\ follow'[p].last = follow[p].last
          /\ follow'[p].atLast = follow[p].atLast
      BY <1>0, <1>5, <2>3 DEF Open, At, Go, Follower
    <3> QED
      BY <1>1, <1>2, <2>1, <3>1, IdleStands DEF Stream!streams
  <2> QED
    BY <1>5, <2>2, <2>3 DEF Open
<1>6. CASE ReadLine(p) \/ TearLine(p)
  <2>1. At(p, "read") /\ HasLine(p) /\ HandleLine(p)
    BY <1>6 DEF ReadLine, TearLine
  <2>2. /\ read' = IF SkipsLine(p) THEN read ELSE [read EXCEPT ![p] = @ + 1]
        /\ ~SkipsLine(p) => read[p] < written[p]
        /\ Stands(Handled(p), read'[p], pos[p] + 1, Stamps[p])
    BY <2>1, HandleStands
  <2>3. [Stream!Next]_(Stream!streams)
    BY <1>1, <2>2 DEF Stream!Next, Stream!Take, Stream!streams
  <2>4. read'[p] <= written[p]
    BY <1>0, <1>2, <2>2
  <2>5. CASE ReadLine(p)
    <3>1. follow'[p] = Handled(p) /\ pos'[p] = pos[p] + 1
      BY <1>0, <2>5 DEF ReadLine
    <3> QED
      BY <2>2, <2>3, <2>4, <3>1
  <2>6. CASE TearLine(p)
    <3>1. follow'[p] = Closed(Handled(p), "check") /\ Handled(p) \in Follower
      BY <1>0, <2>1, <2>6, HandledType DEF TearLine
    <3>2. /\ follow'[p].pc # "read" /\ follow'[p].last = Handled(p).last
          /\ follow'[p].atLast = Handled(p).atLast
      BY <3>1 DEF Closed, Follower
    <3> QED
      BY <2>2, <2>3, <2>4, <3>2, IdleStands
  <2> QED
    BY <1>6, <2>5, <2>6
<1>7. CASE StreamEnds(p) \/ Check(p)
  <2>1. /\ follow'[p].pc # "read" /\ follow'[p].last = follow[p].last
        /\ follow'[p].atLast = follow[p].atLast
    <3>1. \/ follow'[p] = Closed(follow[p], "check")
          \/ follow'[p] = [follow[p] EXCEPT !.pc = "end"]
          \/ follow'[p] = [follow[p] EXCEPT !.pc = "open"]
      BY <1>0, <1>7 DEF StreamEnds, Check, Close, Go
    <3> QED
      BY <1>0, <3>1 DEF Closed, Follower
  <2>2. UNCHANGED read
    BY <1>7 DEF StreamEnds, Check
  <2> QED
    BY <1>1, <1>2, <2>1, <2>2, IdleStands DEF Stream!streams
<1> QED
  BY <1>5, <1>6, <1>7 DEF Follow

LEMMA OthersKeepLog ==
  ASSUME TypeInv, LogInv, Cluster \/ Watch \/ UNCHANGED vars
  PROVE  LogInv' /\ [Stream!Next]_(Stream!streams)
<1>0. /\ follow \in [Pods -> Follower] /\ read \in [Pods -> Nat]
      /\ written \in [Pods -> Nat]
  BY DEF TypeInv, FollowOK, ClusterOK
<1>2. \A o \in Pods : read[o] <= written[o] /\ Stands(follow[o], read[o], pos[o], Stamps[o])
  BY DEF LogInv
<1>3. ASSUME UNCHANGED <<written, read, pos>>,
             \A o \in Pods : \/ follow'[o] = follow[o]
                             \/ follow'[o] = [follow[o] EXCEPT !.pc = "open"]
      PROVE  LogInv' /\ [Stream!Next]_(Stream!streams)
  <2>1. ASSUME NEW o \in Pods PROVE Stands(follow'[o], read[o], pos[o], Stamps[o])
    <3>1. CASE follow'[o] = follow[o]
      BY <1>2, <3>1
    <3>2. CASE follow'[o] = [follow[o] EXCEPT !.pc = "open"]
      <4>1. /\ follow'[o].pc # "read" /\ follow'[o].last = follow[o].last
            /\ follow'[o].atLast = follow[o].atLast
        BY <1>0, <3>2 DEF Follower
      <4> QED
        BY <1>2, <4>1, IdleStands
    <3> QED
      BY <1>3, <3>1, <3>2
  <2> QED
    BY <1>2, <1>3, <2>1 DEF LogInv, Stream!streams
<1>4. ASSUME NEW p \in Pods, WriteLine(p) PROVE LogInv' /\ [Stream!Next]_(Stream!streams)
  <2>1. written' = [written EXCEPT ![p] = @ + 1] /\ UNCHANGED <<read, pos, follow>>
    BY <1>4 DEF WriteLine, followers
  <2>2. \A o \in Pods : read[o] <= written'[o]
    BY <1>0, <1>2, <2>1
  <2> QED
    BY <1>2, <2>1, <2>2 DEF LogInv, Stream!Next, Stream!Write
<1>5. CASE Look
  BY <1>3, <1>5 DEF Look, Track, cluster
<1>6. CASE /\ UNCHANGED <<written, followers>>
  BY <1>3, <1>6 DEF followers
<1>7. CASE WaitStreams
  BY <1>3, <1>7 DEF WaitStreams, cluster
<1>8. CASE Cluster
  <2>1. CASE UNCHANGED <<written, followers>>
    BY <1>6, <2>1
  <2> QED
    BY <1>4, <1>8, <2>1 DEF Cluster, StageError, DeleteTestRun, PodUp, Exit, Collect
<1>9. CASE Watch
  BY <1>5, <1>6, <1>7, <1>9 DEF Watch, Create, Undo, Cleanup, Poll, cluster
<1> QED
  BY <1>6, <1>8, <1>9 DEF vars, cluster

\* Whatever happens to its connection, a worker's log is read line by line in
\* order (follow): a resumed stream skips the lines that were read and nothing
\* else, although it begins on a whole second and lines may share a timestamp.
THEOREM LogsReadInOrder == Spec => StreamSpec
<1>1. Init => TypeInv /\ LogInv /\ Stream!Init
  BY InitType, LogInit DEF Init, Stream!Init
<1>2. TypeInv /\ LogInv /\ [Next]_vars => TypeInv' /\ LogInv' /\ [Stream!Next]_(Stream!streams)
  <2> SUFFICES ASSUME TypeInv, LogInv, [Next]_vars
               PROVE  TypeInv' /\ LogInv' /\ [Stream!Next]_(Stream!streams)
    OBVIOUS
  <2>1. TypeInv'
    BY TypeStep
  <2> QED
    BY <2>1, FollowKeepsLog, OthersKeepLog DEF Next
<1> QED
  BY <1>1, <1>2, PTL DEF Spec, StreamSpec, Stream!Spec

-----------------------------------------------------------------------------
(* What a run's end leaves                                                 *)

\* What track has recorded of a container that ended stays true of it.
RecordedEnds == \A p \in Pods : pods[p].terminated => state[p] \in Ended /\ pods[p].exitCode = code[p]

\* A verdict is made of the codes all workers ended with.
VerdictIsMade == verdict \notin {None, Lost} =>
  /\ watch \in {"wait", "done", "cleaned"}
  /\ \A p \in Pods : state[p] \in Ended
  /\ Combined({code[p] : p \in Pods}, verdict)

EndInv == RecordedEnds /\ VerdictIsMade /\ DoneIsDone /\ NothingLeft

\* The verdict made is the worst there is.
LEMMA WorstCode ==
  ASSUME Pods # {}, VerdictIsMade
  PROVE  VerdictIsWorst
<1> SUFFICES ASSUME Judged PROVE
      /\ \A p \in Pods : state[p] \in Ended
      /\ exitCode \in {code[p] : p \in Pods}
      /\ \A n \in 1 .. 3 : exitCode \in Worse[n] =>
           \A p \in Pods : code[p] \in UNION {Worse[m] : m \in 1 .. n}
  BY DEF VerdictIsWorst
<1>1. /\ exitCode = verdict /\ \A p \in Pods : state[p] \in Ended
      /\ Combined({code[p] : p \in Pods}, exitCode)
  BY DEF Judged, VerdictIsMade
<1>2. exitCode \in {code[p] : p \in Pods} /\ \A p \in Pods : Rank(code[p]) <= Rank(exitCode)
  BY <1>1 DEF Combined
<1>3. ASSUME NEW n \in 1 .. 3, exitCode \in Worse[n], NEW p \in Pods
      PROVE  code[p] \in UNION {Worse[m] : m \in 1 .. n}
  <2>1. Worse[1] = {0} /\ Worse[2] = {103} /\ Worse[3] = {99}
    BY DEF Worse
  <2>2. Rank(code[p]) <= Rank(exitCode)
    BY <1>2, <1>3
  <2>3. SUFFICES \E m \in 1 .. n : code[p] \in Worse[m]
    OBVIOUS
  <2>4. CASE n = 1
    <3>1. exitCode = 0 /\ code[p] = 0
      BY <1>3, <2>1, <2>2, <2>4 DEF Rank
    <3> QED
      BY <2>1, <2>4, <3>1
  <2>5. CASE n = 2
    <3>1. exitCode = 103 /\ code[p] \in {0, 103}
      BY <1>3, <2>1, <2>2, <2>5 DEF Rank
    <3> QED
      BY <2>1, <2>5, <3>1
  <2>6. CASE n = 3
    <3>1. exitCode = 99 /\ code[p] \in {0, 103, 99}
      BY <1>3, <2>1, <2>2, <2>6 DEF Rank
    <3> QED
      BY <2>1, <2>6, <3>1
  <2> QED
    BY <1>3, <2>4, <2>5, <2>6
<1> QED
  BY <1>1, <1>2, <1>3

LEMMA EndInit == Init => EndInv
  BY DEF Init, EndInv, RecordedEnds, VerdictIsMade, DoneIsDone, NothingLeft, At

\* A container that has ended stays so, with its code; objects only go.
LEMMA ClusterKeepsEnd ==
  ASSUME TypeInv, EndInv, Cluster
  PROVE  EndInv'
<1>0. state \in [Pods -> {"none", "running", "exited", "removed"}] /\ code \in [Pods -> AllCodes \cup {None}]
  BY DEF TypeInv, ClusterOK
<1>1. UNCHANGED <<watcher, pods, followers>>
  BY DEF Cluster, StageError, DeleteTestRun, PodUp, WriteLine, Exit, Collect
<1>2. objects' \subseteq objects
  BY DEF Cluster, StageError, DeleteTestRun, PodUp, WriteLine, Exit, Collect
<1>3. ASSUME NEW o \in Pods, state[o] \in Ended
      PROVE  state'[o] \in Ended /\ code'[o] = code[o]
  <2>1. CASE StageError \/ DeleteTestRun
    BY <1>3, <2>1 DEF StageError, DeleteTestRun
  <2>2. ASSUME NEW p \in Pods, PodUp(p) \/ WriteLine(p) \/ Exit(p) \/ Collect(p)
        PROVE  state'[o] \in Ended /\ code'[o] = code[o]
    BY <1>0, <1>3, <2>2 DEF PodUp, WriteLine, Exit, Collect, ToPod, Ended
  <2> QED
    BY <2>1, <2>2 DEF Cluster
<1>4. RecordedEnds' /\ DoneIsDone' /\ NothingLeft'
  BY <1>1, <1>2, <1>3 DEF EndInv, RecordedEnds, DoneIsDone, NothingLeft, At, GaveUp, watcher, followers
<1>5. VerdictIsMade'
  <2>1. verdict' = verdict /\ watch' = watch
    BY <1>1 DEF watcher
  <2>2. ASSUME verdict \notin {None, Lost}
        PROVE  /\ \A p \in Pods : state'[p] \in Ended /\ code'[p] = code[p]
               /\ {code'[p] : p \in Pods} = {code[p] : p \in Pods}
    BY <1>3, <2>2 DEF EndInv, VerdictIsMade
  <2> QED
    BY <2>1, <2>2 DEF EndInv, VerdictIsMade, Combined
<1> QED
  BY <1>4, <1>5 DEF EndInv

\* What a list of the pods records.
LEMMA LookRecords ==
  ASSUME TypeInv, EndInv, Look
  PROVE  RecordedEnds' /\ DoneIsDone'
<1>0. follow \in [Pods -> Follower] /\ UNCHANGED <<state, code, cancelled>>
  BY DEF TypeInv, FollowOK, Look, cluster
<1>1. \A p \in Pods : pods'[p] \in {pods[p], Tracked(p)}
  BY DEF Look, Track
<1>2. ASSUME NEW p \in Pods, pods'[p].terminated
      PROVE  state[p] \in Ended /\ pods'[p].exitCode = code[p]
  <2>1. CASE pods'[p] = pods[p]
    BY <1>2, <2>1 DEF EndInv, RecordedEnds
  <2>2. CASE pods'[p] = Tracked(p)
    <3>0. Tracked(p).terminated = (pods[p].terminated \/ state[p] = "exited")
      BY DEF Tracked
    <3>1. pods[p].terminated \/ state[p] = "exited"
      BY <1>2, <2>2, <3>0
    <3>2. CASE state[p] = "exited"
      BY <2>2, <3>2 DEF Tracked, Ended
    <3>3. CASE state[p] # "exited"
      BY <2>2, <3>1, <3>3 DEF EndInv, RecordedEnds, Tracked
    <3> QED
      BY <3>2, <3>3
  <2> QED
    BY <1>1, <2>1, <2>2
<1>3. ASSUME NEW p \in Pods, At(p, "end")'
      PROVE  state[p] \in Ended \/ GaveUp(p)' \/ cancelled
  <2>1. follow'[p] = follow[p] \/ follow'[p] = [follow[p] EXCEPT !.pc = "open"]
    BY DEF Look, Track
  <2>2. follow'[p] = follow[p]
    BY <1>0, <1>3, <2>1 DEF At, Follower
  <2> QED
    BY <1>3, <2>2 DEF EndInv, DoneIsDone, At, GaveUp
<1> QED
  BY <1>0, <1>2, <1>3 DEF RecordedEnds, DoneIsDone

LEMMA WatchKeepsEnd ==
  ASSUME TypeInv, EndInv, Watch
  PROVE  EndInv'
<1> USE DEF EndInv
<1>1. CASE Create \/ Undo \/ Cleanup
  <2>1. UNCHANGED <<state, code, verdict, pods, follow>> /\ (cancelled => cancelled')
    BY <1>1 DEF Create, Undo, Cleanup, Deletes, followers
  <2>2. RecordedEnds' /\ DoneIsDone'
    BY <2>1 DEF RecordedEnds, DoneIsDone, At, GaveUp
  <2>3. VerdictIsMade'
    BY <1>1, <2>1 DEF VerdictIsMade, Combined, Create, Undo, Cleanup
  <2>4. NothingLeft'
    BY <1>1 DEF NothingLeft, Create, Undo, Cleanup, Deletes
  <2> QED
    BY <2>2, <2>3, <2>4
<1>2. CASE Poll \/ WaitStreams
  <2>1. UNCHANGED <<objects, state, code, cancelled, logged, pods>> /\ \A p \in Pods : follow'[p] = follow[p]
    BY <1>2 DEF Poll, WaitStreams, cluster, followers
  <2>2. RecordedEnds' /\ DoneIsDone'
    BY <2>1 DEF RecordedEnds, DoneIsDone, At, GaveUp
  <2>3. VerdictIsMade'
    BY <1>2, <2>1 DEF VerdictIsMade, Combined, Poll, WaitStreams, Finish, FinishAfterStreams
  <2>4. NothingLeft'
    BY <1>2, <2>1 DEF NothingLeft, Poll, WaitStreams, Finish, FinishAfterStreams
  <2> QED
    BY <2>2, <2>3, <2>4
<1>3. CASE Look
  <2>1. RecordedEnds' /\ DoneIsDone'
    BY <1>3, LookRecords
  <2>2. UNCHANGED <<state, code>> /\ watch = "look"
    BY <1>3 DEF Look, cluster
  <2>3. VerdictIsMade'
    <3>1. CASE UNCHANGED verdict
      BY <2>2, <3>1 DEF VerdictIsMade
    <3>2. ASSUME NEW c, Terminated = Pods, Combined({pods'[p].exitCode : p \in Terminated}, c),
                 FinishAfterStreams(c)
          PROVE  VerdictIsMade'
      <4>1. \A p \in Pods : state'[p] \in Ended /\ pods'[p].exitCode = code'[p]
        BY <2>1, <3>2 DEF RecordedEnds, Terminated
      <4>2. {pods'[p].exitCode : p \in Terminated} = {code'[p] : p \in Pods}
        BY <3>2, <4>1
      <4> QED
        BY <3>2, <4>1, <4>2 DEF FinishAfterStreams, VerdictIsMade, Combined
    <3> QED
      BY <1>3, <3>1, <3>2 DEF Look, Finish
  <2>4. NothingLeft'
    BY <1>3 DEF NothingLeft, Look, Finish, FinishAfterStreams, cluster
  <2> QED
    BY <2>1, <2>3, <2>4
<1> QED
  BY <1>1, <1>2, <1>3 DEF Watch

LEMMA FollowKeepsEnd ==
  ASSUME TypeInv, EndInv, NEW p \in Pods, Follow(p)
  PROVE  EndInv'
<1>0. follow \in [Pods -> Follower] /\ follow[p] \in Follower
  BY DEF TypeInv, FollowOK
<1>1. UNCHANGED <<cluster, watcher, pods>>
  BY DEF Follow, Open, ReadLine, TearLine, StreamEnds, Check
<1>2. RecordedEnds' /\ VerdictIsMade' /\ NothingLeft'
  BY <1>1 DEF EndInv, RecordedEnds, VerdictIsMade, Combined, NothingLeft, cluster, watcher
<1>3. \A o \in Pods \ {p} : follow'[o] = follow[o]
  BY <1>0 DEF Follow, Open, ReadLine, TearLine, StreamEnds, Check, Close, Go
<1>4. At(p, "end")' => state[p] \in Ended \/ GaveUp(p)' \/ cancelled
  <2>1. CASE Open(p)
    <3>1. CASE (cancelled \/ state[p] = "removed")
      BY <3>1 DEF Ended
    <3>2. CASE follow[p].failures = MaxFailures /\ Go(p, "end")
      BY <1>0, <3>2 DEF Go, GaveUp, Follower
    <3>3. CASE follow' = [follow EXCEPT ![p].failures = @ + 1]
      BY <1>0, <2>1, <3>3 DEF Open, At, Follower
    <3>4. CASE follow' = [follow EXCEPT ![p].pc = "read", ![p].resumeAt = follow[p].last,
                                        ![p].skip = follow[p].atLast]
      BY <1>0, <3>4 DEF At, Follower
    <3> QED
      BY <2>1, <3>1, <3>2, <3>3, <3>4 DEF Open
  <2>2. CASE ReadLine(p)
    <3>1. follow'[p] = Handled(p) /\ follow[p].pc = "read"
      BY <1>0, <2>2 DEF ReadLine, At
    <3>2. Handled(p).pc = follow[p].pc
      BY <1>0 DEF Handled, AfterSkip, AfterLine, Follower
    <3> QED
      BY <3>1, <3>2 DEF At
  <2>3. CASE TearLine(p) \/ StreamEnds(p)
    <3>1. \E f \in Follower : follow'[p] = Closed(f, "check")
      BY <1>0, <2>3, HandledType DEF TearLine, StreamEnds, Close
    <3> QED
      BY <3>1 DEF Closed, At, Follower
  <2>4. CASE Check(p)
    <3>1. follow'[p].pc = IF pods[p].terminated THEN "end" ELSE "open"
      BY <1>0, <2>4 DEF Check, Go, Follower
    <3> QED
      BY <3>1 DEF At, EndInv, RecordedEnds
  <2> QED
    BY <2>1, <2>2, <2>3, <2>4 DEF Follow
<1>5. DoneIsDone'
  BY <1>1, <1>3, <1>4 DEF EndInv, DoneIsDone, At, GaveUp, cluster, watcher
<1> QED
  BY <1>2, <1>5 DEF EndInv

LEMMA EndStep ==
  ASSUME TypeInv, EndInv, [Next]_vars
  PROVE  EndInv'
<1>1. CASE UNCHANGED vars
  <2>1. UNCHANGED <<objects, state, code, watch, verdict, cancelled, logged, pods, follow>>
    BY <1>1 DEF vars, cluster, watcher, followers
  <2>2. RecordedEnds' /\ NothingLeft'
    BY <2>1 DEF EndInv, RecordedEnds, NothingLeft
  <2>3. DoneIsDone'
    BY <2>1 DEF EndInv, DoneIsDone, At, GaveUp
  <2>4. VerdictIsMade'
    BY <2>1 DEF EndInv, VerdictIsMade, Combined
  <2> QED
    BY <2>2, <2>3, <2>4 DEF EndInv
<1>2. CASE Cluster
  BY <1>2, ClusterKeepsEnd
<1>3. CASE Watch
  BY <1>3, WatchKeepsEnd
<1>4. CASE \E p \in Pods : Follow(p)
  BY <1>4, FollowKeepsEnd
<1> QED
  BY <1>1, <1>2, <1>3, <1>4 DEF Next

\* A worker is left only when it has ended, given up or cancelled (follow);
\* the verdict is the worst of all workers' codes (combineExitCodes); and no
\* object is left that could be deleted (cleanup), whatever fails on the way.
THEOREM RunsEndClean ==
  ASSUME Pods # {}
  PROVE  Spec => []EndIsClean
<1>1. Init => TypeInv /\ EndInv
  BY InitType, EndInit
<1>2. TypeInv /\ EndInv /\ [Next]_vars => TypeInv' /\ EndInv'
  BY TypeStep, EndStep
<1>3. EndInv => EndIsClean
  BY WorstCode DEF EndInv, EndIsClean
<1> QED
  BY <1>1, <1>2, <1>3, PTL DEF Spec
-----------------------------------------------------------------------------
(* Nothing else is lost                                                    *)

\* A worker's log has been read to the end, or there is a reason why not.
ReadOut(p) ==
  \/ read[p] = written[p] /\ state[p] \in Ended
  \/ hurt[p] # "no" \/ state[p] = "removed" \/ cancelled

\* A follower that has left its stream for good has read it out, and so has
\* one that is about to ask whether its container has ended.
LeftInv == \A p \in Pods :
  /\ pods[p].terminated => pods[p].streaming
  /\ pods[p].streaming => ~At(p, "off")
  /\ At(p, "check") => ReadOut(p)
  /\ At(p, "end") => ReadOut(p) \/ GaveUp(p)

\* The steps of watch: nothing runs before the TestRun is created, only the
\* end of a run cancels its context, a container is removed only with its
\* TestRun, and a verdict is made when all containers are known to have ended.
StepInv ==
  /\ watch = "create" => ~Exists /\ \A p \in Pods : state[p] = "none"
  /\ cancelled => watch \in {"failed", "cleaned"}
  /\ \A p \in Pods : state[p] = "removed" => ~Exists
  /\ verdict \notin {None, Lost} => \A p \in Pods : pods[p].terminated

LossInv == LeftInv /\ StepInv /\ NothingElseLost

LEMMA LossInit == Init => LossInv
  BY DEF Init, LossInv, LeftInv, StepInv, NothingElseLost, Exists, At

\* A container that has ended writes no more.
LEMMA ClusterKeepsReadOut ==
  ASSUME TypeInv, Cluster, NEW p \in Pods
  PROVE  /\ ReadOut(p) => ReadOut(p)'
         /\ state[p] \in Ended => written'[p] = written[p]
<1>0. state \in [Pods -> {"none", "running", "exited", "removed"}] /\ written \in [Pods -> Nat]
  BY DEF TypeInv, ClusterOK
<1>1. UNCHANGED <<read, hurt, cancelled>>
  BY DEF Cluster, StageError, DeleteTestRun, PodUp, WriteLine, Exit, Collect, followers, watcher
<1>2. /\ state[p] \in Ended => written'[p] = written[p] /\ state'[p] \in Ended
      /\ state[p] = "removed" => state'[p] = "removed"
  <2>1. CASE StageError \/ DeleteTestRun
    BY <2>1 DEF StageError, DeleteTestRun
  <2>2. ASSUME NEW o \in Pods, PodUp(o) \/ WriteLine(o) \/ Exit(o) \/ Collect(o)
        PROVE  /\ state[p] \in Ended => written'[p] = written[p] /\ state'[p] \in Ended
               /\ state[p] = "removed" => state'[p] = "removed"
    BY <1>0, <2>2 DEF PodUp, WriteLine, Exit, Collect, ToPod, Ended
  <2> QED
    BY <2>1, <2>2 DEF Cluster
<1> QED
  BY <1>1, <1>2 DEF ReadOut

LEMMA ClusterKeepsLoss ==
  ASSUME TypeInv, EndInv, LossInv, Cluster
  PROVE  LossInv'
<1>0. state \in [Pods -> {"none", "running", "exited", "removed"}]
  BY DEF TypeInv, ClusterOK
<1>1. UNCHANGED <<watch, verdict, exitCode, cancelled, pods, follow, read, hurt>>
  BY DEF Cluster, StageError, DeleteTestRun, PodUp, WriteLine, Exit, Collect, followers, watcher
<1>2. Exists' => Exists
  BY DEF Cluster, StageError, DeleteTestRun, PodUp, WriteLine, Exit, Collect, Exists
<1>3. LeftInv'
  BY <1>1, ClusterKeepsReadOut DEF LossInv, LeftInv, At, GaveUp
<1>4. \A p \in Pods : /\ state'[p] = "removed" => state[p] = "removed" \/ ~Exists
                      /\ ~Exists /\ state[p] = "none" => state'[p] = "none"
  <2>1. CASE StageError \/ DeleteTestRun
    BY <2>1 DEF StageError, DeleteTestRun
  <2>2. ASSUME NEW o \in Pods, PodUp(o) \/ WriteLine(o) \/ Exit(o) \/ Collect(o), NEW p \in Pods
        PROVE  /\ state'[p] = "removed" => state[p] = "removed" \/ ~Exists
               /\ ~Exists /\ state[p] = "none" => state'[p] = "none"
    BY <1>0, <2>2 DEF PodUp, WriteLine, Exit, Collect, ToPod
  <2> QED
    BY <2>1, <2>2 DEF Cluster
<1>5. StepInv'
  BY <1>1, <1>2, <1>4 DEF LossInv, StepInv
<1>6. NothingElseLost'
  <2> SUFFICES ASSUME (watch = "done" /\ Judged /\ Exists)', NEW p \in Pods
               PROVE  (read[p] = written[p] \/ GaveUp(p) \/ hurt[p] # "no")'
    BY DEF NothingElseLost
  <2>1. watch = "done" /\ Judged /\ Exists
    BY <1>1, <1>2 DEF Judged
  <2>2. state[p] \in Ended
    BY <2>1 DEF EndInv, VerdictIsMade, Judged
  <2>3. written'[p] = written[p]
    BY <2>2, ClusterKeepsReadOut
  <2> QED
    BY <1>1, <2>1, <2>3 DEF LossInv, NothingElseLost, GaveUp
<1> QED
  BY <1>3, <1>5, <1>6 DEF LossInv

LEMMA WatchKeepsLoss ==
  ASSUME TypeInv, EndInv, LossInv, Watch
  PROVE  LossInv'
<1>0. /\ follow \in [Pods -> Follower] /\ pods \in [Pods -> Known] /\ created \in 0 .. 3
      /\ hurt \in [Pods -> Hurts] /\ (watch = "create" => created < 3)
  BY DEF TypeInv, FollowOK, WatchOK
<1>1. UNCHANGED <<state, written, read>>
  BY DEF Watch, Create, Undo, Cleanup, Poll, Look, WaitStreams, cluster, followers
<1>2. cancelled => cancelled'
  BY DEF Watch, Create, Undo, Cleanup, Poll, Look, WaitStreams, Deletes
<1>3. CASE Look
  <2>1. watch = "look" /\ UNCHANGED <<objects, cancelled, hurt>>
    BY <1>3 DEF Look, cluster
  <2>2. ~cancelled /\ verdict \in {None, Lost}
    BY <2>1 DEF LossInv, StepInv, EndInv, VerdictIsMade
  <2>3. ASSUME NEW p \in Pods
        PROVE  /\ pods'[p].terminated => pods'[p].streaming
               /\ pods'[p].streaming => ~At(p, "off")'
               /\ follow'[p] = follow[p] \/ At(p, "open")'
               /\ follow'[p].failures = follow[p].failures
    <3>1. CASE UNCHANGED <<pods, follow>>
      BY <3>1 DEF LossInv, LeftInv, At
    <3>2. CASE Track
      <4>1. /\ pods'[p].streaming = (pods[p].streaming \/ state[p] \in {"running", "exited"})
            /\ pods'[p].terminated = (pods[p].terminated \/ state[p] = "exited")
        BY <3>2 DEF Track, Tracked
      <4>2. follow'[p] = IF pods'[p].streaming /\ ~pods[p].streaming
                         THEN [follow[p] EXCEPT !.pc = "open"] ELSE follow[p]
        BY <3>2 DEF Track
      <4>3. follow[p] \in Follower
        BY <1>0
      <4>4. /\ pods[p].terminated => pods[p].streaming
            /\ pods[p].streaming => follow[p].pc # "off"
        BY DEF LossInv, LeftInv, At
      <4> QED
        BY <4>1, <4>2, <4>3, <4>4 DEF At, Follower
    <3> QED
      BY <1>3, <3>1, <3>2 DEF Look
  <2>4. LeftInv'
    <3> SUFFICES ASSUME NEW p \in Pods
                 PROVE  /\ At(p, "check")' => ReadOut(p)'
                        /\ At(p, "end")' => ReadOut(p)' \/ GaveUp(p)'
      BY <2>3 DEF LeftInv
    <3> QED
      BY <1>1, <2>1, <2>3 DEF LossInv, LeftInv, ReadOut, At, GaveUp
  <2>5. verdict' \notin {None, Lost} => \A p \in Pods : pods'[p].terminated
    BY <1>3, <2>2 DEF Look, Finish, FinishAfterStreams, Terminated
  <2>6. watch' # "create"
    BY <1>3, <2>1 DEF Look, Finish, FinishAfterStreams
  <2>7. StepInv'
    BY <1>1, <2>1, <2>2, <2>5, <2>6 DEF LossInv, StepInv, Exists
  <2>8. NothingElseLost'
    BY <1>3, <2>2 DEF Look, Finish, FinishAfterStreams, NothingElseLost, Judged
  <2> QED
    BY <2>4, <2>7, <2>8 DEF LossInv
<1>4. CASE WaitStreams
  <2>1. UNCHANGED <<objects, cancelled, verdict, pods, follow>> /\ watch = "wait" /\ watch' = "done"
    BY <1>4 DEF WaitStreams, Finish, cluster
  <2>2. \A p \in Pods : hurt[p] # "no" => hurt'[p] # "no"
    BY <1>4 DEF WaitStreams
  <2>3. LeftInv'
    BY <1>1, <2>1, <2>2 DEF LossInv, LeftInv, ReadOut, At, GaveUp
  <2>4. StepInv'
    BY <1>1, <2>1 DEF LossInv, StepInv, Exists
  <2>5. NothingElseLost'
    <3> SUFFICES ASSUME Judged', Exists', NEW p \in Pods
                 PROVE  read[p] = written[p] \/ GaveUp(p) \/ hurt'[p] # "no"
      BY <1>1, <2>1 DEF NothingElseLost, GaveUp
    <3>1. pods[p].terminated /\ Exists /\ ~cancelled /\ state[p] # "removed"
      BY <2>1 DEF Judged, LossInv, StepInv, Exists
    <3>2. follow[p].pc # "off"
      BY <3>1 DEF LossInv, LeftInv, At
    <3>3. CASE p \notin Reading
      BY <2>2, <3>1, <3>2, <3>3 DEF LossInv, LeftInv, ReadOut, At, Reading
    <3>4. CASE p \in Reading
      BY <1>4, <3>4 DEF WaitStreams
    <3> QED
      BY <3>3, <3>4
  <2> QED
    BY <2>3, <2>4, <2>5 DEF LossInv
<1>5. CASE Create
  <2>1. /\ watch = "create" /\ watch' \in {"create", "undo", "poll"}
        /\ UNCHANGED <<verdict, exitCode, cancelled, pods, follow, hurt>>
    BY <1>5 DEF Create, followers
  <2>2. ~Exists /\ ~cancelled /\ \A p \in Pods : state[p] = "none"
    BY <2>1 DEF LossInv, StepInv
  <2>3. watch' = "create" => ~Exists'
    <3> SUFFICES ASSUME watch' = "create" PROVE ~Exists'
      OBVIOUS
    <3>1. created + 1 # 3 /\ Creates(Objects[created + 1])
      BY <1>5, ObjectsAre DEF Create
    <3>2. Objects[created + 1] # "testrun"
      BY <1>0, <2>1, <3>1 DEF Objects
    <3> QED
      BY <2>2, <3>1, <3>2 DEF Creates, Exists
  <2>4. LeftInv'
    BY <1>1, <2>1 DEF LossInv, LeftInv, ReadOut, At, GaveUp
  <2>5. StepInv'
    BY <1>1, <2>1, <2>2, <2>3 DEF LossInv, StepInv
  <2> QED
    BY <2>1, <2>4, <2>5 DEF LossInv, NothingElseLost
<1>6. CASE Undo \/ Cleanup \/ Poll
  <2>1. UNCHANGED <<pods, follow, hurt>> /\ (Exists' => Exists)
    BY <1>6 DEF Undo, Cleanup, Poll, Deletes, Exists, cluster, followers
  <2>2. LeftInv'
    BY <1>1, <1>2, <2>1 DEF LossInv, LeftInv, ReadOut, At, GaveUp
  <2>3. /\ watch' \notin {"create", "done"} /\ (cancelled' => watch' \in {"failed", "cleaned"})
        /\ (verdict' \notin {None, Lost} => verdict' = verdict)
    BY <1>6 DEF Undo, Cleanup, Poll, FinishAfterStreams, LossInv, StepInv
  <2>4. StepInv'
    BY <1>1, <2>1, <2>3 DEF LossInv, StepInv
  <2> QED
    BY <2>2, <2>3, <2>4 DEF LossInv, NothingElseLost
<1> QED
  BY <1>3, <1>4, <1>5, <1>6 DEF Watch

\* What a follower's step makes of its own worker.
LEMMA FollowReadsOut ==
  ASSUME TypeInv, EndInv, LogInv, LossInv, NEW p \in Pods, Follow(p)
  PROVE  /\ At(p, "off")' => At(p, "off")
         /\ At(p, "check")' => ReadOut(p)'
         /\ At(p, "end")' => ReadOut(p)' \/ GaveUp(p)'
         /\ GaveUp(p) => GaveUp(p)'
         /\ read[p] = written[p] => read'[p] = written[p]
         /\ hurt[p] # "no" /\ pods[p].terminated => hurt'[p] # "no"
<1>0. /\ follow \in [Pods -> Follower] /\ follow[p] \in Follower /\ read \in [Pods -> Nat]
      /\ hurt \in [Pods -> Hurts] /\ pos[p] \in Nat /\ read[p] \in Nat /\ written[p] \in Nat
      /\ read[p] <= written[p] /\ Stands(follow[p], read[p], pos[p], Stamps[p])
  BY DEF TypeInv, FollowOK, ClusterOK, LogInv
<1>1. UNCHANGED <<state, written, cancelled, pods>>
  BY DEF Follow, Open, ReadLine, TearLine, StreamEnds, Check, cluster, watcher
<1>2. CASE Open(p)
  <2>1. UNCHANGED <<read, hurt>> /\ follow[p].pc = "open"
    BY <1>2 DEF Open, At
  <2>2. \/ (cancelled \/ state[p] = "removed") /\ follow'[p] = [follow[p] EXCEPT !.pc = "end"]
        \/ follow[p].failures = MaxFailures /\ follow'[p] = [follow[p] EXCEPT !.pc = "end"]
        \/ follow[p].failures # MaxFailures /\ follow'[p] = [follow[p] EXCEPT !.failures = @ + 1]
        \/ follow'[p] = Reopened(follow[p])
    BY <1>0, <1>2 DEF Open, Go, Reopened
  <2>3. CASE (cancelled \/ state[p] = "removed") /\ follow'[p] = [follow[p] EXCEPT !.pc = "end"]
    BY <1>0, <1>1, <2>1, <2>3 DEF At, ReadOut, GaveUp, Follower
  <2>4. CASE follow[p].failures = MaxFailures /\ follow'[p] = [follow[p] EXCEPT !.pc = "end"]
    BY <1>0, <2>1, <2>4 DEF At, GaveUp, Follower
  <2>5. CASE follow[p].failures # MaxFailures /\ follow'[p] = [follow[p] EXCEPT !.failures = @ + 1]
    BY <1>0, <2>1, <2>5 DEF At, GaveUp, Follower
  <2>6. CASE follow'[p] = Reopened(follow[p])
    BY <1>0, <2>1, <2>6 DEF At, GaveUp, Follower, Reopened
  <2> QED
    BY <2>2, <2>3, <2>4, <2>5, <2>6
<1>3. CASE ReadLine(p) \/ TearLine(p)
  <2>1. At(p, "read") /\ HasLine(p) /\ HandleLine(p)
    BY <1>3 DEF ReadLine, TearLine
  <2>2. /\ read' = IF SkipsLine(p) THEN read ELSE [read EXCEPT ![p] = @ + 1]
        /\ ~SkipsLine(p) => read[p] < written[p]
    BY <2>1, HandleStands
  <2>3. read[p] = written[p] => read'[p] = written[p]
    BY <1>0, <2>2
  <2>4. Handled(p) \in Follower /\ Handled(p).failures = follow[p].failures /\ Handled(p).pc = "read"
    <3>1. Handled(p) \in Follower
      BY <2>1, HandledType
    <3> QED
      BY <1>0, <2>1, <3>1 DEF Handled, AfterSkip, AfterLine, Follower, At
  <2>5. CASE ReadLine(p)
    <3>1. follow'[p] = Handled(p) /\ hurt' = hurt
      BY <1>0, <2>5 DEF ReadLine
    <3> QED
      BY <2>3, <2>4, <3>1 DEF At, GaveUp
  <2>6. CASE TearLine(p)
    <3>1. follow'[p] = Closed(Handled(p), "check")
      BY <1>0, <2>6 DEF TearLine
    <3>2. hurt'[p] # "no"
      BY <1>0, <2>6 DEF TearLine, Hurts
    <3>3. follow'[p].pc = "check" /\ follow'[p].failures = follow[p].failures
      BY <2>4, <3>1 DEF Closed, Follower
    <3> QED
      BY <2>3, <3>2, <3>3 DEF At, GaveUp, ReadOut
  <2> QED
    BY <1>3, <2>5, <2>6
<1>4. CASE StreamEnds(p)
  <2>1. follow'[p] = Closed(follow[p], "check") /\ UNCHANGED read /\ follow[p].pc = "read"
    BY <1>0, <1>4 DEF StreamEnds, Close, At
  <2>2. follow'[p].pc = "check" /\ follow'[p].failures = follow[p].failures
    BY <1>0, <2>1 DEF Closed, Follower
  <2>3. hurt[p] # "no" => hurt'[p] # "no"
    BY <1>0, <1>4 DEF StreamEnds, Hurts
  <2>4. ReadOut(p)'
    <3>1. CASE cancelled \/ state[p] = "removed"
      BY <1>1, <3>1 DEF ReadOut
    <3>2. CASE state[p] = "exited" /\ pos[p] > written[p]
      <4>1. pos[p] <= read[p] + 1
        BY <1>0, <2>1 DEF Stands
      <4>2. read[p] = written[p]
        BY <1>0, <3>2, <4>1
      <4> QED
        BY <1>1, <2>1, <3>2, <4>2 DEF ReadOut, Ended
    <3>3. CASE hurt' = [hurt EXCEPT ![p] = IF @ = "no" THEN "cut" ELSE @]
      BY <1>0, <3>3 DEF ReadOut, Hurts
    <3> QED
      BY <1>4, <3>1, <3>2, <3>3 DEF StreamEnds
  <2> QED
    BY <2>1, <2>2, <2>3, <2>4 DEF At, GaveUp
<1>5. CASE Check(p)
  <2>1. follow[p].pc = "check" /\ UNCHANGED read /\ ReadOut(p)
    BY <1>5 DEF Check, At, LossInv, LeftInv
  <2>2. /\ follow'[p].pc = IF pods[p].terminated THEN "end" ELSE "open"
        /\ follow'[p].failures = follow[p].failures
    BY <1>0, <1>5 DEF Check, Go, Follower
  <2>3. pods[p].terminated => hurt'[p] = hurt[p]
    BY <1>0, <1>5 DEF Check
  <2> QED
    BY <1>1, <2>1, <2>2, <2>3 DEF At, GaveUp, ReadOut
<1> QED
  BY <1>2, <1>3, <1>4, <1>5 DEF Follow

LEMMA FollowKeepsLoss ==
  ASSUME TypeInv, EndInv, LogInv, LossInv, NEW p \in Pods, Follow(p)
  PROVE  LossInv'
<1>0. /\ follow \in [Pods -> Follower] /\ read \in [Pods -> Nat] /\ hurt \in [Pods -> Hurts]
  BY DEF TypeInv, FollowOK
<1>1. UNCHANGED <<cluster, watcher, pods>>
  BY DEF Follow, Open, ReadLine, TearLine, StreamEnds, Check
<1>2. UNCHANGED <<objects, state, written, watch, verdict, exitCode, cancelled, pods>>
  BY <1>1 DEF cluster, watcher
<1>3. \A o \in Pods \ {p} : follow'[o] = follow[o] /\ read'[o] = read[o] /\ hurt'[o] = hurt[o]
  BY <1>0 DEF Follow, Open, ReadLine, TearLine, StreamEnds, Check, Close, Go, HandleLine
<1>4. /\ At(p, "off")' => At(p, "off")
      /\ At(p, "check")' => ReadOut(p)'
      /\ At(p, "end")' => ReadOut(p)' \/ GaveUp(p)'
      /\ GaveUp(p) => GaveUp(p)'
      /\ read[p] = written[p] => read'[p] = written[p]
      /\ hurt[p] # "no" /\ pods[p].terminated => hurt'[p] # "no"
  BY FollowReadsOut
<1>5. LeftInv'
  <2> SUFFICES ASSUME NEW o \in Pods
               PROVE  /\ pods'[o].terminated => pods'[o].streaming
                      /\ pods'[o].streaming => ~At(o, "off")'
                      /\ At(o, "check")' => ReadOut(o)'
                      /\ At(o, "end")' => ReadOut(o)' \/ GaveUp(o)'
    BY DEF LeftInv
  <2>1. CASE o = p
    BY <1>2, <1>4, <2>1 DEF LossInv, LeftInv
  <2>2. CASE o # p
    BY <1>2, <1>3, <2>2 DEF LossInv, LeftInv, At, ReadOut, GaveUp
  <2> QED
    BY <2>1, <2>2
<1>6. StepInv'
  BY <1>2 DEF LossInv, StepInv, Exists
<1>7. NothingElseLost'
  <2> SUFFICES ASSUME (watch = "done" /\ Judged /\ Exists)', NEW o \in Pods
               PROVE  (read[o] = written[o] \/ GaveUp(o) \/ hurt[o] # "no")'
    BY DEF NothingElseLost
  <2>1. watch = "done" /\ Judged /\ Exists
    BY <1>2 DEF Judged, Exists
  <2>2. read[o] = written[o] \/ GaveUp(o) \/ hurt[o] # "no"
    BY <2>1 DEF LossInv, NothingElseLost
  <2>3. pods[o].terminated
    BY <2>1 DEF Judged, LossInv, StepInv
  <2>4. CASE o = p
    BY <1>2, <1>4, <2>2, <2>3, <2>4
  <2>5. CASE o # p
    BY <1>2, <1>3, <2>2, <2>5 DEF GaveUp
  <2> QED
    BY <2>4, <2>5
<1> QED
  BY <1>5, <1>6, <1>7 DEF LossInv

\* When a run ends because all its workers have, and nobody deleted its TestRun
\* meanwhile, every line they wrote has been read, but for those of a worker
\* whose connection failed too often, whose stream was closed when its
\* container was known to have ended, or which was not waited for (follow,
\* watch's waitStreams).
THEOREM NoOtherLoss == Spec => []NothingElseLost
<1>1. Init => TypeInv /\ EndInv /\ LogInv /\ LossInv
  BY InitType, EndInit, LogInit, LossInit
<1>2. TypeInv /\ EndInv /\ LogInv /\ LossInv /\ [Next]_vars => LossInv'
  <2> SUFFICES ASSUME TypeInv, EndInv, LogInv, LossInv, [Next]_vars PROVE LossInv'
    OBVIOUS
  <2>1. CASE UNCHANGED vars
    <3>1. UNCHANGED <<objects, state, written, watch, verdict, exitCode, cancelled, pods, follow, read, hurt>>
      BY <2>1 DEF vars, cluster, watcher, followers
    <3> QED
      BY <3>1 DEF LossInv, LeftInv, StepInv, NothingElseLost, Judged, Exists, At, ReadOut, GaveUp
  <2> QED
    BY <2>1, ClusterKeepsLoss, WatchKeepsLoss, FollowKeepsLoss DEF Next
<1>3. LossInv => NothingElseLost
  BY DEF LossInv
<1>4. Spec => [](TypeInv /\ EndInv /\ LogInv)
  <2>1. TypeInv /\ EndInv /\ LogInv /\ [Next]_vars => (TypeInv /\ EndInv /\ LogInv)'
    BY TypeStep, EndStep, FollowKeepsLog, OthersKeepLog DEF Next
  <2> QED
    BY <1>1, <2>1, PTL DEF Spec
<1> QED
  BY <1>1, <1>2, <1>3, <1>4, PTL DEF Spec
=============================================================================
