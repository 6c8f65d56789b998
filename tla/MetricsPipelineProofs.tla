----------------------- MODULE MetricsPipelineProofs ------------------------
(***************************************************************************)
(* Theorems about MetricsPipeline for any finite set of workers, lag and   *)
(* length of run: the variables keep their types; no sample is counted     *)
(* twice; nothing a worker measured is lost when it comes to its end; and  *)
(* the series holds what was measured.  Each but the first needs some      *)
(* message to arrive, and its configuration in README.md shows why: a      *)
(* lost answer is enough to count a sample twice.                          *)
(***************************************************************************)
EXTENDS MetricsPipeline, FiniteSetTheorems, WellFoundedInduction, TLAPS

-----------------------------------------------------------------------------
(* Minima and maxima of the sets the aggregator looks at.                  *)

\* A set of numbers that is not empty has a least element.
LEMMA LeastNumber ==
  ASSUME NEW S \in SUBSET Nat, S # {}
  PROVE  \E x \in S : \A y \in S : x <= y
<1> DEFINE R == {p \in Nat \X Nat : p[1] < p[2]}
<1>1. IsWellFoundedOn(R, Nat)
  <2>1. R = OpToRel(<, Nat)
    BY Zenon DEF OpToRel
  <2> QED
    BY <2>1, NatLessThanWellFounded, Zenon
<1>2. PICK x \in S : \A y \in S : ~(<<y, x>> \in R)
  <2> HIDE DEF R
  <2> QED
    BY <1>1, WFMin
<1>3. ASSUME NEW y \in S
      PROVE  x <= y
  <2>1. x \in Nat /\ y \in Nat
    OBVIOUS
  <2>2. ~(y < x)
    BY <1>2, <2>1
  <2> QED
    BY <2>1, <2>2
<1> QED
  BY <1>3

\* Min is the least element.
LEMMA MinIsLeast ==
  ASSUME NEW S \in SUBSET Nat, S # {}
  PROVE  Min(S) \in S /\ \A y \in S : Min(S) <= y
BY LeastNumber DEF Min

\* Max of two numbers.
LEMMA MaxOfTwo ==
  ASSUME NEW a \in Int, NEW b \in Int
  PROVE  Max({a, b}) = IF a >= b THEN a ELSE b
<1> DEFINE m == IF a >= b THEN a ELSE b
<1>1. m \in {a, b} /\ \A y \in {a, b} : m >= y
  OBVIOUS
<1>2. \A x \in {a, b} : (\A y \in {a, b} : x >= y) => x = m
  OBVIOUS
<1> QED
  BY <1>1, <1>2 DEF Max

\* The seconds of a run are numbers, and not 0.
LEMMA SecondsAreNumbers ==
  Seconds \subseteq Nat /\ 2 \in Seconds /\ \A s \in Seconds : s >= 2 /\ s <= MaxClock
BY LagAssumption DEF Seconds

\* The watermark is no later than any report.
LEMMA WatermarkIsOldest ==
  ASSUME TypeOK
  PROVE  /\ Watermark \in Nat
         /\ \A w \in Workers : latest[w] # Never => Watermark # Never /\ Watermark <= latest[w]
<1> DEFINE reports == {latest[w] : w \in Workers} \ {Never}
<1>1. reports \in SUBSET Nat
  BY DEF TypeOK
<1>2. reports # {} => Min(reports) \in reports /\ \A y \in reports : Min(reports) <= y
  <2> HIDE DEF reports
  <2> QED
    BY <1>1, MinIsLeast
<1>3. Watermark = IF reports = {} THEN Never ELSE Min(reports)
  BY DEF Watermark
<1>4. \A w \in Workers : latest[w] # Never => latest[w] \in reports
  OBVIOUS
<1>5. Never \notin reports /\ Never \in Nat
  BY DEF Never
<1> QED
  <2> HIDE DEF reports
  <2> QED
    BY <1>1, <1>2, <1>3, <1>4, <1>5

-----------------------------------------------------------------------------
(* CountedOnce.                                                            *)

\* The parts of the state that the argument is about.
OnceType ==
  /\ buffer \in [Workers -> SUBSET Nat]
  /\ pending \in [Workers -> [on: BOOLEAN, secs: SUBSET Nat, through: Int, final: BOOLEAN]]
  /\ post \in [Workers -> {"none", "sent", "merged", "refused", "failed"}]
  /\ total \in [Samples -> Nat]
  /\ now \in Nat

\* Where the sample of worker w in second s is: not taken yet, in k6's buffer,
\* in a batch the control plane has not merged, or counted, once.
OnceAt(w, s) ==
  /\ total[<<w, s>>] <= 1
  /\ <<w, s>> \notin taken => s \notin buffer[w] /\ s \notin pending[w].secs /\ total[<<w, s>>] = 0
  /\ s \in buffer[w] => s \notin pending[w].secs /\ total[<<w, s>>] = 0
  /\ s \in pending[w].secs /\ post[w] # "merged" => total[<<w, s>>] = 0

OnceInv == OnceType /\ \A w \in Workers, s \in Seconds : OnceAt(w, s)

\* In every initial state nothing has been taken.
LEMMA OnceInit == Init => OnceInv
<1> SUFFICES ASSUME Init PROVE OnceInv
  OBVIOUS
<1>1. OnceType
  <2>1. pending \in [Workers -> [on: BOOLEAN, secs: SUBSET Nat, through: Int, final: BOOLEAN]]
    BY DEF Init, NoBatch, Never
  <2>2. QED BY <2>1 DEF Init, OnceType
<1>2. ASSUME NEW w \in Workers, NEW s \in Seconds PROVE OnceAt(w, s)
  <2>1. total[<<w, s>>] = 0 BY DEF Init, Samples
  <2>2. buffer[w] = {} /\ pending[w].secs = {} BY DEF Init, NoBatch
  <2>3. QED BY <2>1, <2>2 DEF OnceAt
<1>3. QED BY <1>1, <1>2 DEF OnceInv

\* A step of one worker that the others' samples do not notice.
LEMMA OnceOthers ==
  ASSUME OnceInv, OnceType', NEW w \in Workers,
         \A v \in Workers \ {w} : /\ buffer'[v] = buffer[v] /\ pending'[v] = pending[v]
                                  /\ post'[v] = post[v]
                                  /\ \A s \in Seconds : /\ total'[<<v, s>>] = total[<<v, s>>]
                                                        /\ <<v, s>> \in taken' <=> <<v, s>> \in taken,
         \A s \in Seconds : OnceAt(w, s)'
  PROVE  OnceInv'
<1>1. ASSUME NEW v \in Workers \ {w}, NEW s \in Seconds PROVE OnceAt(v, s)'
  BY <1>1 DEF OnceInv, OnceAt
<1>2. QED BY <1>1 DEF OnceInv

LEMMA OnceTake == ASSUME OnceInv, NEW w \in Workers, Take(w) PROVE OnceInv'
<1>1. OnceType' BY DEF Take, OnceInv, OnceType, agg
<1>2. ASSUME NEW s \in Seconds PROVE OnceAt(w, s)'
  BY <1>2 DEF Take, OnceInv, OnceType, OnceAt, agg
<1>3. QED BY <1>1, <1>2, OnceOthers DEF Take, OnceInv, OnceType, agg

LEMMA OnceFlush == ASSUME OnceInv, NEW w \in Workers, NEW next, FlushNow(w, next) PROVE OnceInv'
<1>1. OnceType' BY DEF FlushNow, Fold, OnceInv, OnceType, agg
<1>2. ASSUME NEW s \in Seconds PROVE OnceAt(w, s)'
  BY <1>2 DEF FlushNow, Fold, OnceInv, OnceType, OnceAt, agg
<1>3. QED BY <1>1, <1>2, OnceOthers DEF FlushNow, OnceInv, OnceType, agg

LEMMA OnceSendFinal == ASSUME OnceInv, NEW w \in Workers, SendFinal(w) PROVE OnceInv'
<1>1. OnceType' BY DEF SendFinal, OnceInv, OnceType, agg
<1>2. ASSUME NEW s \in Seconds PROVE OnceAt(w, s)'
  BY <1>2 DEF SendFinal, OnceInv, OnceType, OnceAt, agg
<1>3. QED BY <1>1, <1>2, OnceOthers DEF SendFinal, OnceInv, OnceType, agg

LEMMA OnceAnswered == ASSUME OnceInv, NEW w \in Workers, Answered(w) PROVE OnceInv'
<1>1. OnceType' BY DEF Answered, Returned, NoBatch, Never, OnceInv, OnceType, agg
<1>2. ASSUME NEW s \in Seconds PROVE OnceAt(w, s)'
  BY <1>2 DEF Answered, Returned, NoBatch, OnceInv, OnceType, OnceAt, agg
<1>3. QED BY <1>1, <1>2, OnceOthers DEF Answered, Returned, OnceInv, OnceType, agg

\* A batch is only kept when it was not merged: here the answers arrive.
LEMMA OnceUnanswered ==
  ASSUME OnceInv, "answer" \notin Faults, NEW w \in Workers, Unanswered(w) PROVE OnceInv'
<1>1. OnceType' BY DEF Unanswered, Unknown, Returned, OnceInv, OnceType, agg
<1>2. ASSUME NEW s \in Seconds PROVE OnceAt(w, s)'
  BY <1>2 DEF Unanswered, Unknown, Returned, OnceInv, OnceType, OnceAt, agg
<1>3. QED BY <1>1, <1>2, OnceOthers DEF Unanswered, Unknown, Returned, OnceInv, OnceType, agg

LEMMA OnceLose == ASSUME OnceInv, NEW w \in Workers, Lose(w) PROVE OnceInv'
<1>1. OnceType' BY DEF Lose, OnceInv, OnceType, agg
<1>2. ASSUME NEW s \in Seconds PROVE OnceAt(w, s)'
  BY <1>2 DEF Lose, OnceInv, OnceType, OnceAt, agg
<1>3. QED BY <1>1, <1>2, OnceOthers DEF Lose, OnceInv, OnceType, agg

LEMMA OnceCrash == ASSUME OnceInv, NEW w \in Workers, Crash(w) PROVE OnceInv'
<1>1. OnceType' BY DEF Crash, NoBatch, Never, OnceInv, OnceType, agg
<1>2. ASSUME NEW s \in Seconds PROVE OnceAt(w, s)'
  BY <1>2 DEF Crash, NoBatch, OnceInv, OnceType, OnceAt, agg
<1>3. QED BY <1>1, <1>2, OnceOthers DEF Crash, OnceInv, OnceType, agg

\* A batch is merged while its POST is under way, so none of it is counted yet.
LEMMA OnceIngest == ASSUME OnceInv, NEW w \in Workers, Ingest(w) PROVE OnceInv'
<1>1. CASE phase = "over"
  <2>1. OnceType' BY <1>1 DEF Ingest, OnceInv, OnceType, agg
  <2>2. ASSUME NEW s \in Seconds PROVE OnceAt(w, s)'
    BY <1>1, <2>2 DEF Ingest, OnceInv, OnceType, OnceAt, agg
  <2>3. QED BY <1>1, <2>1, <2>2, OnceOthers DEF Ingest, OnceInv, OnceType, agg
<1>2. CASE phase # "over"
  <2>1. total' = [x \in Samples |-> IF x[1] = w /\ x[2] \in pending[w].secs
                                    THEN total[x] + 1 ELSE total[x]]
    BY <1>2 DEF Ingest, Merge
  <2>2. /\ post[w] = "sent" /\ post' = [post EXCEPT ![w] = "merged"]
        /\ UNCHANGED <<now, buffer, pending, taken>>
    BY <1>2 DEF Ingest
  <2>3. total' \in [Samples -> Nat] BY <2>1 DEF OnceInv, OnceType
  <2>4. OnceType' BY <2>2, <2>3 DEF OnceInv, OnceType
  <2>5. ASSUME NEW v \in Workers, NEW s \in Seconds
        PROVE  total'[<<v, s>>] = IF v = w /\ s \in pending[w].secs THEN total[<<v, s>>] + 1 ELSE total[<<v, s>>]
    BY <2>1, <2>5 DEF Samples
  <2>6. ASSUME NEW s \in Seconds PROVE OnceAt(w, s)'
    BY <2>2, <2>5, <2>6 DEF OnceInv, OnceType, OnceAt
  <2>7. QED BY <2>2, <2>4, <2>5, <2>6, OnceOthers DEF OnceInv, OnceType
<1>3. QED BY <1>1, <1>2

\* The steps that move no sample.
LEMMA OnceStutter ==
  ASSUME OnceInv, UNCHANGED <<buffer, pending, post, total, taken>>, now' \in Nat
  PROVE  OnceInv'
  BY DEF OnceInv, OnceType, OnceAt

\* The invariant is inductive when no answer is lost.
LEMMA OnceNext == ASSUME "answer" \notin Faults, OnceInv, [Next]_vars PROVE OnceInv'
<1>1. ASSUME NEW w \in Workers, Worker(w) PROVE OnceInv'
  <2>1. CASE Start(w) BY <2>1, OnceStutter DEF Start, agg, OnceInv, OnceType
  <2>2. CASE Take(w) BY <2>2, OnceTake
  <2>3. CASE Flush(w) BY <2>3, OnceFlush DEF Flush
  <2>4. CASE Stop(w) BY <2>4, OnceFlush DEF Stop
  <2>5. CASE SendFinal(w) BY <2>5, OnceSendFinal
  <2>6. CASE Answered(w) BY <2>6, OnceAnswered
  <2>7. CASE Unanswered(w) BY <2>7, OnceUnanswered
  <2>8. CASE Lose(w) BY <2>8, OnceLose
  <2>9. CASE Crash(w) BY <2>9, OnceCrash
  <2>10. CASE Ingest(w) BY <2>10, OnceIngest
  <2>11. CASE InstanceDone(w) BY <2>11, OnceStutter DEF InstanceDone, worker, OnceInv, OnceType
  <2>12. QED BY <1>1, <2>1, <2>2, <2>3, <2>4, <2>5, <2>6, <2>7, <2>8, <2>9, <2>10, <2>11 DEF Worker
<1>2. CASE Tick BY <1>2, OnceStutter DEF Tick, worker, OnceInv, OnceType
<1>3. CASE Drain BY <1>3, OnceStutter DEF Drain, worker, OnceInv, OnceType
<1>4. CASE Summarise BY <1>4, OnceStutter DEF Summarise, worker, agg, OnceInv, OnceType
<1>5. CASE Unregister BY <1>5, OnceStutter DEF Unregister, worker, agg, OnceInv, OnceType
<1>6. CASE Kill BY <1>6, OnceStutter DEF Kill, worker, agg, OnceInv, OnceType
<1>7. CASE Clock BY <1>7, OnceStutter DEF Clock, worker, agg, OnceInv, OnceType
<1>8. CASE UNCHANGED vars BY <1>8, OnceStutter DEF vars, worker, agg, OnceInv, OnceType
<1>9. QED BY <1>1, <1>2, <1>3, <1>4, <1>5, <1>6, <1>7, <1>8 DEF Next

LEMMA OnceImplies == OnceInv => CountedOnce
  BY DEF OnceInv, OnceAt, CountedOnce, Samples

\* When no answer is lost, no sample is added to the run totals twice, however
\* many POSTs fail and are sent again (output.go's sendLocked, ingest.go's merge).
THEOREM SamplesCountedOnce == ASSUME "answer" \notin Faults PROVE Spec => []CountedOnce
<1>1. Init => OnceInv BY OnceInit
<1>2. OnceInv /\ [Next]_vars => OnceInv' BY OnceNext
<1>3. OnceInv => CountedOnce BY OnceImplies
<1>4. QED BY <1>1, <1>2, <1>3, PTL DEF Spec

-----------------------------------------------------------------------------
(* TypeOK.                                                                 *)

\* What a batch holds.
LEMMA BatchTypes ==
  /\ NoBatch \in Batches
  /\ \A b \in Batches : b.on \in BOOLEAN /\ b.secs \in SUBSET Seconds /\ b.through \in Nat /\ b.final \in BOOLEAN
<1>1. NoBatch \in Batches
  BY DEF Batches
<1>2. NoBatch.on \in BOOLEAN /\ NoBatch.secs \in SUBSET Seconds /\ NoBatch.through \in Nat /\ NoBatch.final \in BOOLEAN
  BY DEF NoBatch, Never
<1>3. ASSUME NEW b \in [on: {TRUE}, secs: SUBSET Seconds, through: Nat, final: BOOLEAN]
      PROVE  b.on \in BOOLEAN /\ b.secs \in SUBSET Seconds /\ b.through \in Nat /\ b.final \in BOOLEAN
  OBVIOUS
<1> QED
  BY <1>1, <1>2, <1>3 DEF Batches

\* Merge: the second of firstTS is the least of the batch's and the one before.
LEMMA MergeTypes ==
  ASSUME TypeOK, NEW w \in Workers, Merge(w)
  PROVE  /\ total' \in [Samples -> Nat] /\ bucket' \in [Seconds -> Nat]
         /\ latest' \in [Workers -> Nat]
         /\ first' \in Nat
         /\ first # Never \/ pending[w].secs # {} => first' # Never
         /\ (first # Never => first \in Seconds) => (first' # Never => first' \in Seconds)
<1>1. PICK b : b = pending[w]
  OBVIOUS
<1>2. b.secs \in SUBSET Seconds /\ b.through \in Nat /\ b.final \in BOOLEAN
  BY <1>1, BatchTypes DEF TypeOK
<1>3. latest' = [latest EXCEPT ![w] = IF b.final THEN Never ELSE Max({latest[w], b.through})]
  BY <1>1 DEF Merge, TypeOK
<1>4. latest' \in [Workers -> Nat]
  <2>1. latest \in [Workers -> Nat] /\ Never \in Nat
    BY DEF TypeOK, Never
  <2>2. Max({latest[w], b.through}) \in Nat
    BY <1>2, <2>1, MaxOfTwo
  <2> QED
    BY <1>3, <2>1, <2>2
<1>5. PICK early : early = IF first = Never THEN b.secs ELSE b.secs \cup {first}
  OBVIOUS
<1>6. first' = IF early = {} THEN first ELSE Min(early)
  BY <1>1, <1>5 DEF Merge
<1>7. early \in SUBSET Nat
  BY <1>2, <1>5, SecondsAreNumbers DEF TypeOK
<1>8. early # {} => first' \in early
  BY <1>6, <1>7, MinIsLeast
<1>9. first' \in Nat
  BY <1>6, <1>7, <1>8 DEF TypeOK
<1>10. Never \notin Seconds
  BY SecondsAreNumbers DEF Never
<1>11. total' \in [Samples -> Nat] /\ bucket' \in [Seconds -> Nat]
  BY DEF Merge, TypeOK
<1>12. Never \notin early
  BY <1>2, <1>5, <1>10
<1>13. first # Never \/ b.secs # {} => early # {}
  BY <1>5
<1>14. (first # Never => first \in Seconds) => early \subseteq Seconds
  BY <1>2, <1>5
<1>15. first # Never \/ b.secs # {} => first' # Never
  BY <1>8, <1>12, <1>13
<1>16. ASSUME first # Never => first \in Seconds, first' # Never
       PROVE  first' \in Seconds
  BY <1>6, <1>8, <1>14, <1>16
<1> QED
  BY <1>1, <1>4, <1>9, <1>11, <1>15, <1>16

\* snapshots: where the series begins, and what it leaves behind.
LEMMA SnapshotsTypes ==
  ASSUME TypeOK, NEW upTo \in Int, Snapshots(upTo)
  PROVE  /\ points' \in [Seconds -> Nat \cup {NoPoint}] /\ bucket' \in [Seconds -> Nat]
         /\ lastEmitted' \in Nat
<1>1. CASE lastEmitted = Never /\ first = Never
  BY <1>1 DEF Snapshots, TypeOK
<1>2. CASE ~(lastEmitted = Never /\ first = Never)
  <2>1. Base \in Nat
    BY <1>2 DEF Base, Never, TypeOK
  <2>2. Max({Base, upTo}) \in Nat
    BY <2>1, MaxOfTwo
  <2>3. /\ points' = [s \in Seconds |-> IF Base < s /\ s <= upTo THEN bucket[s] ELSE points[s]]
        /\ bucket' = [s \in Seconds |-> IF s <= Max({Base, upTo}) THEN 0 ELSE bucket[s]]
        /\ lastEmitted' = Max({Base, upTo})
    BY <1>2 DEF Snapshots
  <2> QED
    BY <2>2, <2>3 DEF TypeOK
<1> QED
  BY <1>1, <1>2

\* emitUpTo is a second, or one of those before the run.
LEMMA EmitUpToType ==
  ASSUME TypeOK
  PROVE  /\ EmitUpTo \in Int
         /\ EmitUpTo <= now - flushLag - 1 \/ EmitUpTo <= now - MaxLag
         /\ EmitUpTo <= now - MaxLag \/ (Watermark # Never => EmitUpTo < Watermark)
<1>1. Watermark \in Nat /\ now \in Nat /\ MaxLag \in Nat
  BY WatermarkIsOldest, SecondsAreNumbers, LagAssumption DEF TypeOK
<1>2. PICK m : m = Watermark
  OBVIOUS
<1>3. Max({m - 1, now - MaxLag}) = IF m - 1 >= now - MaxLag THEN m - 1 ELSE now - MaxLag
  BY <1>1, <1>2, MaxOfTwo
<1>4. EmitUpTo = IF m # 0 /\ m - 1 < now - 2 THEN Max({m - 1, now - MaxLag}) ELSE now - 2
  BY <1>1, <1>2 DEF EmitUpTo, flushLag, Never
<1>5. CASE m # 0 /\ m - 1 < now - 2
  <2>1. EmitUpTo = IF m - 1 >= now - MaxLag THEN m - 1 ELSE now - MaxLag
    BY <1>3, <1>4, <1>5
  <2> QED
    BY <1>1, <1>2, <1>5, <2>1 DEF flushLag, Never
<1>6. CASE ~(m # 0 /\ m - 1 < now - 2)
  BY <1>1, <1>2, <1>4, <1>6 DEF flushLag, Never
<1> QED
  BY <1>5, <1>6

\* Each worker's step keeps the types.
LEMMA TypeWorker == ASSUME TypeOK, NEW w \in Workers, Worker(w) PROVE TypeOK'
<1> USE DEF agg, outcome
<1>1. now \in Nat /\ now >= 2 /\ now \in Seconds
  BY SecondsAreNumbers DEF TypeOK
<1>2. pending[w].secs \in SUBSET Seconds /\ pending[w].through \in Nat /\ pending[w].final \in BOOLEAN
  BY BatchTypes DEF TypeOK
<1>3. \A S \in SUBSET Seconds, t \in Nat, f \in BOOLEAN :
        [on |-> TRUE, secs |-> S, through |-> t, final |-> f] \in Batches
  BY DEF Batches
<1>4. CASE Start(w)
  BY <1>4 DEF Start, TypeOK, Stages
<1>5. CASE Take(w)
  <2>1. buffer' \in [Workers -> SUBSET Seconds] /\ taken' \in SUBSET Samples
    BY <1>1, <1>5 DEF Take, TypeOK, Samples
  <2> QED
    BY <1>5, <2>1 DEF Take, TypeOK
<1>6. ASSUME NEW next \in Stages, FlushNow(w, next)
      PROVE  TypeOK'
  <2>1. buffer[w] \in SUBSET Seconds /\ now - 1 \in Nat
    BY <1>1 DEF TypeOK
  <2>2. Fold(w) \in Batches
    BY <1>2, <1>3, <2>1 DEF Fold
  <2>3. pending' \in [Workers -> Batches]
    BY <1>6, <2>2 DEF FlushNow, TypeOK
  <2> QED
    BY <1>1, <1>6, <2>3 DEF FlushNow, TypeOK
<1>7. CASE Flush(w)
  BY <1>6, <1>7 DEF Flush, Stages
<1>8. CASE Stop(w)
  BY <1>6, <1>8 DEF Stop, Stages
<1>9. CASE SendFinal(w)
  <2>1. pending' \in [Workers -> Batches]
    BY <1>1, <1>2, <1>3, <1>9 DEF SendFinal, TypeOK
  <2> QED
    BY <1>9, <2>1 DEF SendFinal, TypeOK, Stages
<1>10. ASSUME Returned(w)
       PROVE  stage' \in [Workers -> Stages]
              /\ post' \in [Workers -> {"none", "sent", "merged", "refused", "failed"}]
  BY <1>10 DEF Returned, TypeOK, Stages
<1>11. CASE Answered(w)
  BY <1>10, <1>11, BatchTypes DEF Answered, TypeOK
<1>12. CASE Unanswered(w)
  BY <1>10, <1>12 DEF Unanswered, TypeOK
<1>13. CASE Lose(w)
  BY <1>13 DEF Lose, TypeOK
<1>14. CASE Crash(w)
  BY <1>14, BatchTypes DEF Crash, TypeOK, Stages
<1>15. CASE Ingest(w)
  <2>1. CASE phase = "over"
    BY <1>15, <2>1 DEF Ingest, TypeOK
  <2>2. CASE phase # "over"
    <3>1. Merge(w)
      BY <1>15, <2>2 DEF Ingest
    <3>2. /\ total' \in [Samples -> Nat] /\ bucket' \in [Seconds -> Nat]
          /\ latest' \in [Workers -> Nat] /\ first' \in Nat
      BY <3>1, MergeTypes
    <3> QED
      BY <1>15, <2>2, <3>2 DEF Ingest, TypeOK
  <2> QED
    BY <2>1, <2>2
<1>16. CASE InstanceDone(w)
  BY <1>16 DEF InstanceDone, TypeOK, Never, worker
<1> QED
  BY <1>4, <1>5, <1>7, <1>8, <1>9, <1>11, <1>12, <1>13, <1>14, <1>15, <1>16 DEF Worker

LEMMA TypeInit == Init => TypeOK
<1>1. \A w \in Workers : NoBatch \in Batches
  BY BatchTypes
<1>2. 2 \in Seconds
  BY SecondsAreNumbers
<1> SUFFICES ASSUME Init
             PROVE  TypeOK
  OBVIOUS
<1>3. pending \in [Workers -> Batches]
  BY <1>1 DEF Init
<1>4. taken \in SUBSET Samples /\ points \in [Seconds -> Nat \cup {NoPoint}] /\ now \in Seconds
  BY <1>2 DEF Init
<1> QED
  BY <1>3, <1>4 DEF Init, TypeOK, Stages, Start0, Never

LEMMA TypeNext == TypeOK /\ [Next]_vars => TypeOK'
<1> SUFFICES ASSUME TypeOK, [Next]_vars
             PROVE  TypeOK'
  OBVIOUS
<1> USE DEF worker, agg, outcome
<1>1. ASSUME NEW w \in Workers, Worker(w)
      PROVE  TypeOK'
  BY <1>1, TypeWorker
<1>2. CASE Tick
  <2>1. Snapshots(EmitUpTo) /\ EmitUpTo \in Int
    BY <1>2, EmitUpToType DEF Tick
  <2> QED
    BY <1>2, <2>1, SnapshotsTypes DEF Tick, TypeOK
<1>3. CASE Drain
  <2>1. Snapshots(now + 1) /\ now + 1 \in Int
    BY <1>3, SecondsAreNumbers DEF Drain, TypeOK
  <2> QED
    BY <1>3, <2>1, SnapshotsTypes DEF Drain, TypeOK
<1>4. CASE Summarise
  BY <1>4 DEF Summarise, TypeOK
<1>5. CASE Unregister
  BY <1>5 DEF Unregister, TypeOK
<1>6. CASE Kill
  BY <1>6 DEF Kill, TypeOK
<1>7. CASE Clock
  <2>1. now' \in Seconds
    BY <1>7, LagAssumption DEF Clock, TypeOK, Seconds
  <2> QED
    BY <1>7, <2>1 DEF Clock, TypeOK
<1>8. CASE UNCHANGED vars
  BY <1>8 DEF vars, TypeOK
<1> QED
  BY <1>1, <1>2, <1>3, <1>4, <1>5, <1>6, <1>7, <1>8 DEF Next

\* The variables keep their types: every batch, watermark and point is what
\* the code's types make of it, and lastEmitted never falls before the run.
THEOREM TypeCorrect == Spec => []TypeOK
<1>1. Init => TypeOK
  BY TypeInit
<1>2. TypeOK /\ [Next]_vars => TypeOK'
  BY TypeNext
<1> QED
  BY <1>1, <1>2, PTL DEF Spec

-----------------------------------------------------------------------------
(* What a worker holds at each of its stages.                              *)

\* A step of one worker leaves the others, and the run's phase, alone.
LEMMA HeldOthers ==
  ASSUME HeldInv, NEW w \in Workers,
         \A v \in Workers \ {w} : /\ stage'[v] = stage[v] /\ buffer'[v] = buffer[v]
                                  /\ pending'[v] = pending[v] /\ post'[v] = post[v],
         UNCHANGED <<phase, killed>>,
         Ended(w) => Ended(w)',
         HeldAt(w)'
  PROVE  HeldInv'
<1>1. ASSUME NEW v \in Workers \ {w}
      PROVE  HeldAt(v)' /\ (Ended(v) => Ended(v)')
  BY <1>1 DEF HeldInv, HeldAt, Ended
<1> QED
  BY <1>1 DEF HeldInv

LEMMA HeldWorker ==
  ASSUME TypeOK, HeldInv, NEW w \in Workers, Worker(w) PROVE HeldInv'
<1> USE DEF agg, outcome, worker
<1>1. HeldAt(w)
  BY DEF HeldInv
<1>2. CASE Start(w)
  <2>1. HeldAt(w)' /\ ~Ended(w)
    BY <1>1, <1>2 DEF Start, HeldAt, Ended, TypeOK
  <2> QED
    BY <1>2, <2>1, HeldOthers DEF Start, TypeOK
<1>3. CASE Take(w)
  <2>1. HeldAt(w)' /\ ~Ended(w)
    BY <1>1, <1>3 DEF Take, HeldAt, Ended, TypeOK
  <2> QED
    BY <1>3, <2>1, HeldOthers DEF Take, TypeOK
<1>4. ASSUME NEW next \in {"up", "flushed"}, FlushNow(w, next)
      PROVE  HeldInv'
  <2>1. HeldAt(w)' /\ ~Ended(w)
    BY <1>1, <1>4 DEF FlushNow, HeldAt, Ended, TypeOK
  <2> QED
    BY <1>4, <2>1, HeldOthers DEF FlushNow, TypeOK
<1>5. CASE Flush(w) \/ Stop(w)
  BY <1>4, <1>5 DEF Flush, Stop
<1>6. CASE SendFinal(w)
  <2>1. HeldAt(w)' /\ ~Ended(w)
    BY <1>1, <1>6 DEF SendFinal, HeldAt, Ended, TypeOK
  <2> QED
    BY <1>6, <2>1, HeldOthers DEF SendFinal, TypeOK
<1>7. CASE Answered(w)
  <2>1. HeldAt(w)' /\ ~Ended(w)
    BY <1>1, <1>7 DEF Answered, Returned, HeldAt, Ended, TypeOK
  <2> QED
    BY <1>7, <2>1, HeldOthers DEF Answered, Returned, TypeOK
<1>8. CASE Unanswered(w)
  <2>1. post[w] \in {"failed", "merged", "refused"}
    BY <1>8 DEF Unanswered, Unknown
  <2>2. HeldAt(w)' /\ ~Ended(w)
    BY <1>1, <1>8, <2>1 DEF Unanswered, Returned, HeldAt, Ended, TypeOK
  <2> QED
    BY <1>8, <2>2, HeldOthers DEF Unanswered, Returned, TypeOK
<1>9. CASE Lose(w)
  <2>1. HeldAt(w)' /\ ~Ended(w)
    BY <1>1, <1>9 DEF Lose, HeldAt, Ended, TypeOK
  <2> QED
    BY <1>9, <2>1, HeldOthers DEF Lose, TypeOK
<1>10. CASE Crash(w)
  <2>1. HeldAt(w)' /\ ~Ended(w)
    BY <1>1, <1>10 DEF Crash, HeldAt, Ended, TypeOK
  <2> QED
    BY <1>10, <2>1, HeldOthers DEF Crash, TypeOK
<1>11. CASE Ingest(w)
  <2>1. post' = [post EXCEPT ![w] = IF phase = "over" THEN "refused" ELSE "merged"]
    BY <1>11 DEF Ingest
  <2>2. ~Ended(w) /\ UNCHANGED <<stage, buffer, pending, phase, killed>> /\ post[w] = "sent"
    BY <1>1, <1>11 DEF Ingest, HeldAt, Ended
  <2>3. phase = "over" => killed
    BY <2>2 DEF HeldInv
  <2>4. HeldAt(w)'
    BY <1>1, <2>1, <2>2, <2>3 DEF HeldAt, TypeOK
  <2> QED
    BY <2>1, <2>2, <2>4, HeldOthers DEF TypeOK
<1>12. CASE InstanceDone(w)
  BY <1>12 DEF InstanceDone, HeldInv, HeldAt, Ended
<1> QED
  BY <1>2, <1>3, <1>5, <1>6, <1>7, <1>8, <1>9, <1>10, <1>11, <1>12 DEF Worker

LEMMA HeldInit == Init => HeldInv
  BY DEF Init, HeldInv, HeldAt

LEMMA HeldNext == TypeOK /\ HeldInv /\ [Next]_vars => HeldInv'
<1> SUFFICES ASSUME TypeOK, HeldInv, [Next]_vars
             PROVE  HeldInv'
  OBVIOUS
<1> USE DEF agg, outcome, worker
<1>1. ASSUME NEW w \in Workers, Worker(w)
      PROVE  HeldInv'
  BY <1>1, HeldWorker
<1>2. CASE Tick
  BY <1>2 DEF Tick, HeldInv, HeldAt, Ended
<1>3. CASE Drain
  BY <1>3 DEF Drain, HeldInv, HeldAt, Ended
<1>4. CASE Summarise
  BY <1>4 DEF Summarise, HeldInv, HeldAt, Ended
<1>5. CASE Unregister
  BY <1>5 DEF Unregister, HeldInv, HeldAt, Ended
<1>6. CASE Kill
  BY <1>6 DEF Kill, HeldInv, HeldAt, Ended
<1>7. CASE Clock
  BY <1>7 DEF Clock, HeldInv, HeldAt, Ended
<1>8. CASE UNCHANGED vars
  BY <1>8 DEF vars, HeldInv, HeldAt, Ended
<1> QED
  BY <1>1, <1>2, <1>3, <1>4, <1>5, <1>6, <1>7, <1>8 DEF Next

-----------------------------------------------------------------------------
(* NothingLost.                                                            *)

\* A step of worker w, which takes nothing and counts nothing of the others.
LEMMA KeptOthers ==
  ASSUME KeptInv, NEW w \in Workers,
         \A v \in Workers \ {w} : /\ stage'[v] = stage[v] /\ buffer'[v] = buffer[v]
                                  /\ pending'[v] = pending[v] /\ post'[v] = post[v]
                                  /\ \A s \in Seconds : /\ total'[<<v, s>>] = total[<<v, s>>]
                                                        /\ <<v, s>> \in taken' <=> <<v, s>> \in taken,
         UNCHANGED <<phase, killed, summary>>,
         \A s \in Seconds : KeptAt(w, s)'
  PROVE  KeptInv'
<1>1. ASSUME NEW v \in Workers \ {w}, NEW s \in Seconds
      PROVE  KeptAt(v, s)'
  BY <1>1 DEF KeptInv, KeptAt, Summed
<1> QED
  BY <1>1 DEF KeptInv

\* What merge adds to the totals.
LEMMA MergedTotals ==
  ASSUME TypeOK, NEW w \in Workers, Merge(w), NEW v \in Workers, NEW s \in Seconds
  PROVE  total'[<<v, s>>] = IF v = w /\ s \in pending[w].secs THEN total[<<v, s>>] + 1 ELSE total[<<v, s>>]
<1>1. total' = [x \in Samples |-> IF x[1] = w /\ x[2] \in pending[w].secs THEN total[x] + 1 ELSE total[x]]
  BY DEF Merge
<1>2. <<v, s>> \in Samples /\ <<v, s>>[1] = v /\ <<v, s>>[2] = s
  BY DEF Samples
<1> QED
  BY <1>1, <1>2

LEMMA KeptWorker ==
  ASSUME "final" \notin Faults, TypeOK, HeldInv, KeptInv, NEW w \in Workers, Worker(w)
  PROVE  KeptInv'
<1> USE DEF agg, outcome, worker
<1>1. HeldAt(w) /\ \A s \in Seconds : KeptAt(w, s) /\ total[<<w, s>>] \in Nat
  BY DEF HeldInv, KeptInv, TypeOK, Samples
<1>2. CASE Start(w)
  <2>1. ASSUME NEW s \in Seconds PROVE KeptAt(w, s)'
    BY <1>1, <1>2, <2>1 DEF Start, KeptAt, Summed, TypeOK
  <2> QED
    BY <1>2, <2>1, KeptOthers DEF Start, TypeOK
<1>3. CASE Take(w)
  <2>1. ASSUME NEW s \in Seconds PROVE KeptAt(w, s)'
    BY <1>1, <1>3, <2>1 DEF Take, KeptAt, Summed, TypeOK
  <2> QED
    BY <1>3, <2>1, KeptOthers DEF Take, TypeOK
<1>4. ASSUME NEW next \in {"up", "flushed"}, FlushNow(w, next)
      PROVE  KeptInv'
  <2>1. ASSUME NEW s \in Seconds PROVE KeptAt(w, s)'
    BY <1>1, <1>4, <2>1 DEF FlushNow, Fold, KeptAt, Summed, TypeOK
  <2> QED
    BY <1>4, <2>1, KeptOthers DEF FlushNow, TypeOK
<1>5. CASE Flush(w) \/ Stop(w)
  BY <1>4, <1>5 DEF Flush, Stop
<1>6. CASE SendFinal(w)
  <2>1. ASSUME NEW s \in Seconds PROVE KeptAt(w, s)'
    BY <1>1, <1>6, <2>1 DEF SendFinal, KeptAt, Summed, TypeOK
  <2> QED
    BY <1>6, <2>1, KeptOthers DEF SendFinal, TypeOK
<1>7. CASE Answered(w)
  <2>1. ASSUME NEW s \in Seconds PROVE KeptAt(w, s)'
    BY <1>1, <1>7, <2>1 DEF Answered, Returned, NoBatch, HeldAt, KeptAt, Summed, TypeOK
  <2> QED
    BY <1>7, <2>1, KeptOthers DEF Answered, Returned, TypeOK
<1>8. CASE Unanswered(w)
  <2>1. post[w] \in {"failed", "merged", "refused"}
    BY <1>8 DEF Unanswered, Unknown
  <2>2. ASSUME NEW s \in Seconds PROVE KeptAt(w, s)'
    BY <1>1, <1>8, <2>1, <2>2 DEF Unanswered, Returned, HeldAt, KeptAt, Summed, TypeOK
  <2> QED
    BY <1>8, <2>2, KeptOthers DEF Unanswered, Returned, TypeOK
<1>9. CASE Lose(w)
  <2>1. ASSUME NEW s \in Seconds PROVE KeptAt(w, s)'
    BY <1>1, <1>9, <2>1 DEF Lose, KeptAt, Summed, TypeOK
  <2> QED
    BY <1>9, <2>1, KeptOthers DEF Lose, TypeOK
<1>10. CASE Crash(w)
  <2>1. ASSUME NEW s \in Seconds PROVE KeptAt(w, s)'
    BY <1>1, <1>10, <2>1 DEF Crash, KeptAt, Summed, TypeOK
  <2> QED
    BY <1>10, <2>1, KeptOthers DEF Crash, TypeOK
<1>11. CASE Ingest(w)
  <2>1. UNCHANGED <<stage, buffer, pending, phase, killed, taken, summary>> /\ post[w] = "sent"
    BY <1>11 DEF Ingest
  <2>2. CASE phase = "over"
    <3>1. post' = [post EXCEPT ![w] = "refused"] /\ UNCHANGED total
      BY <1>11, <2>2 DEF Ingest
    <3>2. ASSUME NEW s \in Seconds PROVE KeptAt(w, s)'
      BY <1>1, <2>1, <3>1, <3>2 DEF KeptAt, Summed, TypeOK
    <3> QED
      BY <2>1, <3>1, <3>2, KeptOthers DEF TypeOK
  <2>3. CASE phase # "over"
    <3>1. post' = [post EXCEPT ![w] = "merged"] /\ Merge(w)
      BY <1>11, <2>3 DEF Ingest
    <3>2. ~(Summed /\ ~killed)
      BY <1>1, <2>1 DEF HeldInv, HeldAt, Ended, Summed
    <3>3. ASSUME NEW s \in Seconds PROVE KeptAt(w, s)'
      <4>1. total'[<<w, s>>] = IF s \in pending[w].secs THEN total[<<w, s>>] + 1 ELSE total[<<w, s>>]
        BY <3>1, MergedTotals
      <4> QED
        BY <1>1, <2>1, <3>1, <3>2, <4>1 DEF KeptAt, Summed, TypeOK
    <3>4. \A v \in Workers \ {w}, s \in Seconds : total'[<<v, s>>] = total[<<v, s>>]
      BY <3>1, MergedTotals
    <3> QED
      BY <2>1, <3>1, <3>3, <3>4, KeptOthers DEF TypeOK
  <2> QED
    BY <2>2, <2>3
<1>12. CASE InstanceDone(w)
  BY <1>12 DEF InstanceDone, KeptInv, KeptAt, Summed
<1> QED
  BY <1>2, <1>3, <1>5, <1>6, <1>7, <1>8, <1>9, <1>10, <1>11, <1>12 DEF Worker

LEMMA KeptInit == Init => KeptInv
  BY DEF Init, KeptInv, KeptAt, Summed, NoBatch

LEMMA KeptNext ==
  ASSUME "final" \notin Faults, TypeOK, HeldInv, KeptInv, [Next]_vars
  PROVE  KeptInv'
<1> USE DEF agg, outcome, worker
<1>1. ASSUME NEW w \in Workers, Worker(w)
      PROVE  KeptInv'
  BY <1>1, KeptWorker
<1>2. CASE Tick
  BY <1>2 DEF Tick, KeptInv, KeptAt, Summed
<1>3. CASE Drain
  BY <1>3 DEF Drain, KeptInv, KeptAt, Summed
<1>4. CASE Summarise
  BY <1>4 DEF Summarise, KeptInv, KeptAt, Summed
<1>5. CASE Unregister
  BY <1>5 DEF Unregister, KeptInv, KeptAt, Summed
<1>6. CASE Kill
  BY <1>6 DEF Kill, KeptInv, KeptAt, Summed
<1>7. CASE Clock
  BY <1>7 DEF Clock, KeptInv, KeptAt, Summed
<1>8. CASE UNCHANGED vars
  BY <1>8 DEF vars, KeptInv, KeptAt, Summed
<1> QED
  BY <1>1, <1>2, <1>3, <1>4, <1>5, <1>6, <1>7, <1>8 DEF Next

\* A worker that came to its end holds no sample of a run that ended by itself.
LEMMA KeptImplies == ASSUME TypeOK, HeldInv, KeptInv PROVE NothingLost
<1> SUFFICES ASSUME Summed, ~killed, NEW x \in taken, stage[x[1]] = "gone"
             PROVE  summary[x] >= 1
  BY DEF NothingLost
<1>1. PICK w \in Workers, s \in Seconds : x = <<w, s>>
  BY DEF TypeOK, Samples
<1>2. buffer[w] = {} /\ stage[w] = "gone"
  BY <1>1 DEF HeldInv, HeldAt
<1>3. KeptAt(w, s)
  BY DEF KeptInv
<1> QED
  BY <1>1, <1>2, <1>3 DEF KeptAt

\* Unless the last POST of a worker is lost, whatever else goes wrong on the
\* way, the summary of a run that ended by itself has everything that was
\* measured by the workers that came to their end: fold keeps a batch that
\* failed, and Output.Stop sends what is left (output.go, aggregator.go).
THEOREM NothingIsLost == ASSUME "final" \notin Faults PROVE Spec => []NothingLost
<1>1. Init => TypeOK /\ HeldInv /\ KeptInv
  BY TypeInit, HeldInit, KeptInit
<1>2. TypeOK /\ HeldInv /\ KeptInv /\ [Next]_vars => (TypeOK /\ HeldInv /\ KeptInv)'
  BY TypeNext, HeldNext, KeptNext
<1>3. TypeOK /\ HeldInv /\ KeptInv => NothingLost
  BY KeptImplies
<1> QED
  BY <1>1, <1>2, <1>3, PTL DEF Spec

-----------------------------------------------------------------------------
(* SeriesIsRight: the watermarks.                                          *)

LEMMA WaterOthers ==
  ASSUME WaterInv, NEW w \in Workers,
         \A v \in Workers \ {w} : /\ stage'[v] = stage[v] /\ buffer'[v] = buffer[v]
                                  /\ pending'[v] = pending[v] /\ post'[v] = post[v]
                                  /\ latest'[v] = latest[v],
         UNCHANGED now,
         WaterAt(w)'
  PROVE  WaterInv'
<1>1. ASSUME NEW v \in Workers \ {w}
      PROVE  WaterAt(v)'
  BY <1>1 DEF WaterInv, WaterAt, Unmerged
<1> QED
  BY <1>1 DEF WaterInv

LEMMA WaterWorker ==
  ASSUME {"answer", "final"} \cap Faults = {}, TypeOK, HeldInv, WaterInv,
         NEW w \in Workers, Worker(w)
  PROVE  WaterInv'
<1> USE DEF agg, outcome, worker
<1>1. HeldAt(w) /\ WaterAt(w)
  BY DEF HeldInv, WaterInv
<1>2. /\ now \in Nat /\ latest[w] \in Nat
      /\ pending[w].secs \in SUBSET Seconds /\ pending[w].through \in Nat /\ pending[w].final \in BOOLEAN
      /\ buffer[w] \in SUBSET Seconds /\ Seconds \subseteq Nat
  BY BatchTypes, SecondsAreNumbers DEF TypeOK
<1>3. CASE Start(w)
  BY <1>1, <1>3 DEF Start, WaterAt
<1>4. CASE Take(w)
  <2>1. WaterAt(w)'
    BY <1>1, <1>2, <1>4 DEF Take, WaterAt, Unmerged, TypeOK
  <2> QED
    BY <1>4, <2>1, WaterOthers DEF Take, TypeOK
<1>5. ASSUME NEW next \in {"up", "flushed"}, FlushNow(w, next)
      PROVE  WaterInv'
  <2>1. /\ pending'[w] = Fold(w) /\ buffer'[w] = {} /\ post'[w] = "sent" /\ stage'[w] = next
        /\ UNCHANGED <<latest, now>> /\ post[w] = "none" /\ stage[w] = "up"
    BY <1>5 DEF FlushNow, TypeOK
  <2>2. WaterAt(w)'
    BY <1>1, <1>2, <2>1 DEF Fold, WaterAt, Unmerged
  <2> QED
    BY <1>5, <2>2, WaterOthers DEF FlushNow, TypeOK
<1>6. CASE Flush(w) \/ Stop(w)
  BY <1>5, <1>6 DEF Flush, Stop
<1>7. CASE SendFinal(w)
  <2>1. WaterAt(w)'
    BY <1>1, <1>2, <1>7 DEF SendFinal, HeldAt, WaterAt, Unmerged, TypeOK
  <2> QED
    BY <1>7, <2>1, WaterOthers DEF SendFinal, TypeOK
<1>8. CASE Answered(w)
  <2>1. /\ pending'[w] = NoBatch /\ post'[w] = "none" /\ UNCHANGED <<latest, now, buffer>>
        /\ stage'[w] = IF stage[w] = "final" THEN "gone" ELSE stage[w]
    BY <1>8 DEF Answered, Returned, TypeOK
  <2>2. now >= 2 /\ \A s \in Seconds : s > 0
    BY SecondsAreNumbers DEF TypeOK
  <2>3. pending'[w].secs = {} /\ pending'[w].through = 0 /\ pending'[w].final = FALSE
    BY <2>1 DEF NoBatch, Never
  <2>4. WaterAt(w)'
    <3>1. stage'[w] # "waiting" /\ \A s \in buffer'[w] : pending'[w].through < s
      BY <1>1, <1>2, <2>1, <2>2, <2>3 DEF WaterAt
    <3>4. stage'[w] = "up" => pending'[w].through < now' /\ latest'[w] < now'
      BY <1>1, <1>2, <2>1, <2>2, <2>3 DEF WaterAt
    <3>2. latest'[w] = Never => stage'[w] \in {"gone", "lost"} \/ (stage'[w] = "final" /\ post'[w] = "merged")
      BY <1>1, <2>1 DEF WaterAt
    <3>3. latest'[w] # Never => \A s \in Seconds : Unmerged(w, s)' => latest'[w] < s
      BY <1>1, <2>1, <2>3 DEF WaterAt, Unmerged
    <3> QED
      BY <2>1, <2>3, <3>1, <3>2, <3>3, <3>4 DEF WaterAt
  <2> QED
    BY <1>8, <2>4, WaterOthers DEF Answered, Returned, TypeOK
<1>9. CASE Unanswered(w)
  <2>1. post[w] = "failed" /\ stage[w] # "final"
    BY <1>1, <1>9 DEF Unanswered, Unknown, HeldAt
  <2>2. WaterAt(w)'
    BY <1>1, <1>2, <1>9, <2>1 DEF Unanswered, Returned, WaterAt, Unmerged, TypeOK
  <2> QED
    BY <1>9, <2>2, WaterOthers DEF Unanswered, Returned, TypeOK
<1>10. CASE Lose(w)
  <2>1. WaterAt(w)'
    BY <1>1, <1>2, <1>10 DEF Lose, WaterAt, Unmerged, TypeOK
  <2> QED
    BY <1>10, <2>1, WaterOthers DEF Lose, TypeOK
<1>11. CASE Crash(w)
  <2>1. WaterAt(w)'
    BY <1>1, <1>2, <1>11 DEF Crash, NoBatch, WaterAt, Unmerged, TypeOK
  <2> QED
    BY <1>11, <2>1, WaterOthers DEF Crash, TypeOK
<1>12. CASE Ingest(w)
  <2>1. UNCHANGED <<now, stage, buffer, pending>> /\ post[w] = "sent"
    BY <1>12 DEF Ingest
  <2>2. CASE phase = "over"
    <3>1. post' = [post EXCEPT ![w] = "refused"] /\ UNCHANGED latest
      BY <1>12, <2>2 DEF Ingest
    <3>2. WaterAt(w)'
      BY <1>1, <1>2, <2>1, <3>1 DEF WaterAt, Unmerged, TypeOK
    <3> QED
      BY <2>1, <3>1, <3>2, WaterOthers DEF TypeOK
  <2>3. CASE phase # "over"
    <3>1. post' = [post EXCEPT ![w] = "merged"]
      BY <1>12, <2>3 DEF Ingest
    <3>2. latest' = [latest EXCEPT ![w] = IF pending[w].final THEN Never
                                          ELSE Max({latest[w], pending[w].through})]
      BY <1>12, <2>3 DEF Ingest, Merge, TypeOK
    <3>3. Max({latest[w], pending[w].through}) = IF latest[w] >= pending[w].through THEN latest[w] ELSE pending[w].through
      BY <1>2, MaxOfTwo
    <3>4. post'[w] = "merged" /\ latest'[w] = IF pending[w].final THEN Never
                  ELSE IF latest[w] >= pending[w].through THEN latest[w] ELSE pending[w].through
      BY <3>1, <3>2, <3>3 DEF TypeOK
    <3>5. latest[w] # Never
      BY <1>1, <2>1 DEF HeldAt, WaterAt
    <3>6. WaterAt(w)'
      BY <1>1, <1>2, <2>1, <3>4, <3>5 DEF WaterAt, Unmerged, Never
    <3> QED
      BY <2>1, <3>1, <3>2, <3>6, WaterOthers DEF TypeOK
  <2> QED
    BY <2>2, <2>3
<1>13. CASE InstanceDone(w)
  <2>1. WaterAt(w)'
    BY <1>1, <1>13 DEF InstanceDone, Ended, WaterAt, Unmerged, TypeOK
  <2> QED
    BY <1>13, <2>1, WaterOthers DEF InstanceDone, TypeOK
<1> QED
  BY <1>3, <1>4, <1>6, <1>7, <1>8, <1>9, <1>10, <1>11, <1>12, <1>13 DEF Worker

LEMMA WaterInit == ASSUME Late = {}, Init PROVE WaterInv
  BY DEF Init, WaterInv, WaterAt, Unmerged, NoBatch, Start0, Never

LEMMA WaterNext ==
  ASSUME {"answer", "final"} \cap Faults = {}, TypeOK, HeldInv, WaterInv, [Next]_vars
  PROVE  WaterInv'
<1> USE DEF agg, outcome, worker
<1>1. ASSUME NEW w \in Workers, Worker(w)
      PROVE  WaterInv'
  BY <1>1, WaterWorker
<1>2. ASSUME UNCHANGED <<worker, latest>>, now' = now \/ now' = now + 1
      PROVE  WaterInv'
  <2>1. now \in Nat
    BY SecondsAreNumbers DEF TypeOK
  <2>2. \A w \in Workers : pending[w].through \in Nat /\ latest[w] \in Nat
    BY BatchTypes DEF TypeOK
  <2> QED
    BY <1>2, <2>1, <2>2 DEF WaterInv, WaterAt, Unmerged
<1>3. CASE Tick
  BY <1>2, <1>3 DEF Tick
<1>4. CASE Drain
  BY <1>2, <1>4 DEF Drain
<1>5. CASE Summarise
  BY <1>2, <1>5 DEF Summarise
<1>6. CASE Unregister
  BY <1>2, <1>6 DEF Unregister
<1>7. CASE Kill
  BY <1>2, <1>7 DEF Kill
<1>8. CASE Clock
  BY <1>2, <1>8 DEF Clock
<1>9. CASE UNCHANGED vars
  BY <1>2, <1>9 DEF vars
<1> QED
  BY <1>1, <1>3, <1>4, <1>5, <1>6, <1>7, <1>8, <1>9 DEF Next

\* A worker without a watermark holds nothing that is not merged.
LEMMA NothingUnmerged ==
  ASSUME HeldInv, WaterInv, NEW w \in Workers, latest[w] = Never, NEW s
  PROVE  ~Unmerged(w, s)
<1>1. HeldAt(w) /\ WaterAt(w)
  BY DEF HeldInv, WaterInv
<1> QED
  BY <1>1 DEF HeldAt, WaterAt, Unmerged, NoBatch

-----------------------------------------------------------------------------
(* SeriesIsRight: the points.                                              *)

\* What the invariants say together.
SeriesState == TypeOK /\ OnceInv /\ HeldInv /\ KeptInv /\ WaterInv /\ SeriesInv

\* The workers whose samples were merged are some of the workers.
LEMMA MergedFinite == \A s \in Seconds : IsFiniteSet(Merged(s))
  BY WorkersAssumption, FS_Subset DEF Merged

\* A step that emits nothing, merges nothing, and adds nothing to what a worker
\* still has to send of the seconds that have a point.
LEMMA SeriesKept ==
  ASSUME SeriesInv,
         UNCHANGED <<lastEmitted, points, bucket, total, killed, phase>>,
         now \in Nat, now' = now \/ now' = now + 1,
         first' # Never => first' \in Seconds,
         \A x \in taken' : x[2] <= now',
         phase # "running" /\ ~killed => taken' \subseteq taken,
         \A w \in Workers, s \in Seconds :
            phase = "running" /\ Unmerged(w, s)' => Unmerged(w, s) \/ s >= now
  PROVE  SeriesInv'
<1>1. ASSUME NEW s \in Seconds
      PROVE  SeriesAt(s)'
  <2>1. SeriesAt(s)
    BY DEF SeriesInv
  <2>2. Merged(s)' = Merged(s)
    BY DEF Merged
  <2>3. s \in Nat /\ MaxLag \in Nat
    BY SecondsAreNumbers, LagAssumption
  <2> QED
    BY <2>1, <2>2, <2>3 DEF SeriesAt
<1>2. phase' # "running" /\ ~killed' /\ lastEmitted' # Never => \A x \in taken' : x[2] <= lastEmitted'
  BY DEF SeriesInv
<1> QED
  BY <1>1, <1>2 DEF SeriesInv

\* The ingest of a batch counts each of its samples in its bucket, and none of
\* them has its point yet.
LEMMA SeriesMerge ==
  ASSUME SeriesState, NEW w \in Workers, Ingest(w), phase # "over"
  PROVE  SeriesInv'
<1>1. /\ UNCHANGED <<now, stage, buffer, pending, lastEmitted, points, killed, phase, taken>>
      /\ post[w] = "sent" /\ post' = [post EXCEPT ![w] = "merged"] /\ Merge(w)
  BY DEF Ingest, outcome
<1>2. phase = "running" \/ killed
  BY <1>1 DEF SeriesState, HeldInv, HeldAt, Ended
<1>3. TypeOK /\ SeriesInv /\ \A v \in Workers, s \in Seconds : OnceAt(v, s)
  BY DEF SeriesState, OnceInv
<1>4. \A v \in Workers, s \in Seconds : Unmerged(v, s)' => Unmerged(v, s)
  BY <1>1, <1>3 DEF Unmerged, TypeOK
<1>5. ASSUME NEW s \in Seconds
      PROVE  SeriesAt(s)'
  <2>1. SeriesAt(s) /\ bucket[s] \in Nat
    BY <1>3 DEF SeriesInv, TypeOK
  <2>2. CASE s \in pending[w].secs
    <3>1. total[<<w, s>>] = 0 /\ Unmerged(w, s)
      BY <1>1, <1>3, <2>2 DEF OnceAt, Unmerged
    <3>2. \A v \in Workers : total'[<<v, s>>] = IF v = w THEN total[<<v, s>>] + 1 ELSE total[<<v, s>>]
      BY <1>1, <1>3, <2>2, MergedTotals
    <3>3. Merged(s)' = Merged(s) \cup {w} /\ w \notin Merged(s)
      BY <3>1, <3>2 DEF Merged
    <3>4. Cardinality(Merged(s)') = Cardinality(Merged(s)) + 1
      BY <3>3, MergedFinite, FS_AddElement
    <3>5. bucket'[s] = bucket[s] + 1
      BY <1>1, <2>2 DEF Merge
    <3> QED
      BY <1>1, <1>2, <1>4, <2>1, <3>1, <3>4, <3>5 DEF SeriesAt
  <2>3. CASE s \notin pending[w].secs
    <3>1. \A v \in Workers : total'[<<v, s>>] = total[<<v, s>>]
      BY <1>1, <1>3, <2>3, MergedTotals
    <3>2. Merged(s)' = Merged(s)
      BY <3>1 DEF Merged
    <3>3. bucket'[s] = bucket[s]
      BY <1>1, <2>3 DEF Merge
    <3> QED
      BY <1>1, <1>4, <2>1, <3>2, <3>3 DEF SeriesAt
  <2> QED
    BY <2>2, <2>3
<1>6. first' # Never => first' \in Seconds
  BY <1>1, <1>3, MergeTypes DEF SeriesInv
<1> QED
  BY <1>1, <1>3, <1>5, <1>6 DEF SeriesInv

LEMMA SeriesWorker ==
  ASSUME "answer" \notin Faults, SeriesState, NEW w \in Workers, Worker(w)
  PROVE  SeriesInv'
<1> USE DEF agg, outcome, worker
<1>1. HeldAt(w) /\ WaterAt(w) /\ TypeOK /\ SeriesInv
  BY DEF SeriesState, HeldInv, WaterInv
<1>2. /\ now \in Nat /\ (\A x \in taken : x[2] <= now) /\ (first # Never => first \in Seconds)
      /\ phase # "running" /\ ~killed => Ended(w)
  BY <1>1, SecondsAreNumbers DEF SeriesInv, TypeOK, SeriesState, HeldInv
<1>3. ASSUME UNCHANGED <<now, lastEmitted, points, bucket, total, killed, phase, taken, first>>,
             \A v \in Workers, s \in Seconds : Unmerged(v, s)' => Unmerged(v, s)
      PROVE  SeriesInv'
  BY <1>1, <1>2, <1>3, SeriesKept
<1>4. CASE Start(w)
  BY <1>3, <1>4 DEF Start, Unmerged
<1>5. CASE Take(w)
  <2>1. /\ UNCHANGED <<now, lastEmitted, points, bucket, total, killed, phase, first>>
        /\ taken' = taken \cup {<<w, now>>} /\ stage[w] = "up"
    BY <1>5 DEF Take
  <2>2. \A v \in Workers, s \in Seconds : Unmerged(v, s)' => Unmerged(v, s) \/ s = now
    BY <1>1, <1>5 DEF Take, Unmerged, TypeOK
  <2>3. phase = "running" \/ killed
    BY <1>2, <2>1 DEF Ended
  <2> QED
    BY <1>1, <1>2, <2>1, <2>2, <2>3, SeriesKept
<1>6. ASSUME NEW next, FlushNow(w, next)
      PROVE  SeriesInv'
  <2>1. \A v \in Workers, s \in Seconds : Unmerged(v, s)' => Unmerged(v, s)
    BY <1>1, <1>6 DEF FlushNow, Fold, Unmerged, TypeOK
  <2> QED
    BY <1>3, <1>6, <2>1 DEF FlushNow
<1>7. CASE Flush(w) \/ Stop(w)
  BY <1>6, <1>7 DEF Flush, Stop
<1>8. CASE SendFinal(w)
  <2>1. \A v \in Workers, s \in Seconds : Unmerged(v, s)' => Unmerged(v, s)
    BY <1>1, <1>8 DEF SendFinal, Unmerged, TypeOK
  <2> QED
    BY <1>3, <1>8, <2>1 DEF SendFinal
<1>9. CASE Answered(w)
  <2>1. \A v \in Workers, s \in Seconds : Unmerged(v, s)' => Unmerged(v, s)
    BY <1>1, <1>9 DEF Answered, Returned, NoBatch, Unmerged, TypeOK
  <2> QED
    BY <1>3, <1>9, <2>1 DEF Answered
<1>10. CASE Unanswered(w)
  <2>1. \A v \in Workers, s \in Seconds : Unmerged(v, s)' => Unmerged(v, s)
    BY <1>1, <1>10 DEF Unanswered, Unknown, Returned, Unmerged, TypeOK
  <2> QED
    BY <1>3, <1>10, <2>1 DEF Unanswered
<1>11. CASE Lose(w)
  <2>1. \A v \in Workers, s \in Seconds : Unmerged(v, s)' => Unmerged(v, s)
    BY <1>1, <1>11 DEF Lose, Unmerged, TypeOK
  <2> QED
    BY <1>3, <1>11, <2>1 DEF Lose
<1>12. CASE Crash(w)
  <2>1. \A v \in Workers, s \in Seconds : Unmerged(v, s)' => Unmerged(v, s)
    BY <1>1, <1>12 DEF Crash, NoBatch, Unmerged, TypeOK
  <2> QED
    BY <1>3, <1>12, <2>1 DEF Crash
<1>13. CASE Ingest(w)
  <2>1. CASE phase = "over"
    <3>1. \A v \in Workers, s \in Seconds : Unmerged(v, s)' => Unmerged(v, s)
      BY <1>1, <1>13, <2>1 DEF Ingest, Unmerged, TypeOK
    <3> QED
      BY <1>3, <1>13, <2>1, <3>1 DEF Ingest
  <2>2. CASE phase # "over"
    BY <1>13, <2>2, SeriesMerge
  <2> QED
    BY <2>1, <2>2
<1>14. CASE InstanceDone(w)
  BY <1>3, <1>14 DEF InstanceDone, Unmerged
<1> QED
  BY <1>4, <1>5, <1>7, <1>8, <1>9, <1>10, <1>11, <1>12, <1>13, <1>14 DEF Worker

\* snapshots: a second gets its point from what its bucket holds, no second is
\* left out, and the buckets that are left are those after the last point.
LEMMA SnapshotsSeries ==
  ASSUME TypeOK, SeriesInv, NEW upTo \in Int, Snapshots(upTo), NEW s \in Seconds
  PROVE  /\ points'[s] = points[s] \/ (lastEmitted < s /\ s <= upTo /\ points'[s] = bucket[s])
         /\ points'[s] # NoPoint => s <= lastEmitted'
         /\ \A q \in Seconds : q <= s /\ s <= lastEmitted' /\ points'[q] # NoPoint => points'[s] # NoPoint
         /\ lastEmitted' < s => lastEmitted < s /\ bucket'[s] = bucket[s]
         /\ lastEmitted' # Never => upTo <= lastEmitted'
<1>1. /\ lastEmitted \in Nat /\ first \in Nat /\ s \in Nat /\ s >= 2
      /\ \A q \in Seconds : /\ q \in Nat /\ q >= 2 /\ bucket[q] \in Nat
                            /\ points[q] \in Nat \cup {NoPoint}
  BY SecondsAreNumbers DEF TypeOK
<1>2. \A q \in Seconds :
        /\ points[q] # NoPoint => q <= lastEmitted
        /\ \A r \in Seconds : r <= q /\ q <= lastEmitted /\ points[r] # NoPoint => points[q] # NoPoint
  BY DEF SeriesInv, SeriesAt
<1>3. CASE lastEmitted = Never /\ first = Never
  <2>1. UNCHANGED <<points, bucket, lastEmitted>>
    BY <1>3 DEF Snapshots
  <2> QED
    BY <1>2, <1>3, <2>1
<1>4. CASE ~(lastEmitted = Never /\ first = Never)
  <2>1. PICK base : base = Base
    OBVIOUS
  <2>2. base \in Nat /\ lastEmitted <= base /\ (lastEmitted # 0 => base = lastEmitted)
    BY <1>1, <1>4, <2>1 DEF Base, Never
  <2>3. Max({base, upTo}) = IF base >= upTo THEN base ELSE upTo
    BY <2>2, MaxOfTwo
  <2>4. PICK last : last = IF base >= upTo THEN base ELSE upTo
    OBVIOUS
  <2>5. /\ points' = [q \in Seconds |-> IF base < q /\ q <= upTo THEN bucket[q] ELSE points[q]]
        /\ bucket' = [q \in Seconds |-> IF q <= last THEN 0 ELSE bucket[q]]
        /\ lastEmitted' = last
    BY <1>4, <2>1, <2>3, <2>4 DEF Snapshots
  <2>6. \A q \in Seconds : /\ points'[q] = IF base < q /\ q <= upTo THEN bucket[q] ELSE points[q]
                           /\ bucket'[q] = IF q <= last THEN 0 ELSE bucket[q]
    BY <2>5
  <2>7. points'[s] # NoPoint => s <= last
    <3>1. CASE base < s /\ s <= upTo
      BY <1>1, <2>2, <2>4, <3>1
    <3>2. CASE ~(base < s /\ s <= upTo)
      BY <1>1, <1>2, <2>2, <2>4, <2>6, <3>2
    <3> QED
      BY <3>1, <3>2
  <2>8. ASSUME NEW q \in Seconds, q <= s, s <= last, points'[q] # NoPoint
        PROVE  points'[s] # NoPoint
    <3>1. CASE base < s
      <4>1. s <= upTo
        BY <1>1, <2>2, <2>4, <2>8, <3>1
      <4> QED
        BY <1>1, <2>6, <3>1, <4>1 DEF NoPoint
    <3>2. CASE ~(base < s)
      <4>1. points'[q] = points[q] /\ points'[s] = points[s]
        BY <1>1, <2>2, <2>6, <2>8, <3>2
      <4>2. q <= lastEmitted
        BY <1>2, <2>8, <4>1
      <4>3. s <= lastEmitted
        BY <1>1, <2>2, <3>2, <4>2
      <4> QED
        BY <1>2, <2>8, <4>1, <4>3
    <3> QED
      BY <3>1, <3>2
  <2>9. points'[s] = points[s] \/ (lastEmitted < s /\ s <= upTo /\ points'[s] = bucket[s])
    BY <1>1, <2>2, <2>6
  <2>10. last < s => lastEmitted < s /\ bucket'[s] = bucket[s]
    BY <1>1, <2>2, <2>4, <2>6
  <2>11. upTo <= last
    BY <2>2, <2>4
  <2> QED
    BY <2>5, <2>7, <2>8, <2>9, <2>10, <2>11
<1> QED
  BY <1>3, <1>4

\* A tick gives a second its point only when it is older than the lag allowed
\* or every worker has reported past it.
LEMMA SeriesTick == ASSUME SeriesState, Tick PROVE SeriesInv'
<1>1. /\ UNCHANGED <<now, worker, latest, first, total, phase, killed, taken>>
      /\ phase = "running" /\ Snapshots(EmitUpTo)
  BY DEF Tick
<1>2. TypeOK /\ SeriesInv /\ HeldInv /\ WaterInv
  BY DEF SeriesState
<1>3. EmitUpTo \in Int
  BY <1>2, EmitUpToType
<1>4. ASSUME NEW s \in Seconds
      PROVE  SeriesAt(s)'
  <2>1. SeriesAt(s) /\ Merged(s)' = Merged(s) /\ s \in Nat /\ now \in Nat /\ MaxLag \in Nat
    BY <1>1, <1>2, SecondsAreNumbers, LagAssumption DEF SeriesInv, Merged, TypeOK
  <2>2. \A w \in Workers : Unmerged(w, s)' = Unmerged(w, s)
    BY <1>1 DEF Unmerged, worker
  <2>3. ASSUME s <= EmitUpTo, now - MaxLag < s
        PROVE  s < now /\ \A w \in Workers : ~Unmerged(w, s)
    <3>1. EmitUpTo <= now - 2 /\ (Watermark # Never => EmitUpTo < Watermark)
      BY <1>2, <1>3, <2>1, <2>3, EmitUpToType DEF flushLag
    <3>2. s < now
      BY <1>3, <2>1, <2>3, <3>1
    <3>3. ASSUME NEW w \in Workers, Unmerged(w, s)
          PROVE  FALSE
      <4>1. latest[w] # Never
        BY <1>2, <3>3, NothingUnmerged
      <4>2. latest[w] < s /\ latest[w] \in Nat
        BY <1>2, <3>3, <4>1 DEF WaterInv, WaterAt, TypeOK
      <4>3. Watermark \in Nat /\ Watermark # Never /\ Watermark <= latest[w]
        BY <1>2, <4>1, WatermarkIsOldest
      <4> QED
        BY <1>3, <2>1, <2>3, <3>1, <4>2, <4>3
    <3> QED
      BY <3>2, <3>3
  <2>4. points'[s] = points[s] \/ (lastEmitted < s /\ s <= EmitUpTo /\ points'[s] = bucket[s])
    BY <1>1, <1>2, <1>3, SnapshotsSeries
  <2>5. ASSUME points'[s] # NoPoint, now - MaxLag < s
        PROVE  /\ points'[s] = Cardinality(Merged(s))
               /\ s < now /\ \A w \in Workers : ~Unmerged(w, s)
    BY <1>1, <2>1, <2>3, <2>4, <2>5 DEF SeriesAt
  <2>6. /\ points'[s] # NoPoint => s <= lastEmitted'
        /\ \A q \in Seconds : q <= s /\ s <= lastEmitted' /\ points'[q] # NoPoint => points'[s] # NoPoint
        /\ lastEmitted' < s => lastEmitted < s /\ bucket'[s] = bucket[s]
    BY <1>1, <1>2, <1>3, SnapshotsSeries
  <2> QED
    BY <1>1, <2>1, <2>2, <2>5, <2>6 DEF SeriesAt
<1>5. \A x \in taken' : x[2] <= now'
  BY <1>1, <1>2 DEF SeriesInv
<1> QED
  BY <1>1, <1>2, <1>4, <1>5 DEF SeriesInv

\* At its end every remaining second gets its point.  A run that ended by itself
\* has nothing left to merge.
LEMMA SeriesDrain == ASSUME SeriesState, Drain PROVE SeriesInv'
<1>1. /\ UNCHANGED <<now, worker, latest, first, total, killed, taken>>
      /\ phase = "running" /\ phase' = "drained" /\ Snapshots(now + 1)
  BY DEF Drain
<1>2. TypeOK /\ SeriesInv
  BY DEF SeriesState
<1>3. now \in Nat /\ now + 1 \in Int
  BY <1>2, SecondsAreNumbers DEF TypeOK
<1>4. ASSUME NEW s \in Seconds
      PROVE  SeriesAt(s)'
  <2>1. SeriesAt(s) /\ Merged(s)' = Merged(s)
    BY <1>1, <1>2 DEF SeriesInv, Merged
  <2>2. points'[s] = points[s] \/ (lastEmitted < s /\ points'[s] = bucket[s])
    BY <1>1, <1>2, <1>3, SnapshotsSeries
  <2>3. points'[s] # NoPoint /\ now - MaxLag < s => points'[s] = Cardinality(Merged(s))
    BY <1>1, <2>1, <2>2 DEF SeriesAt
  <2>4. /\ points'[s] # NoPoint => s <= lastEmitted'
        /\ \A q \in Seconds : q <= s /\ s <= lastEmitted' /\ points'[q] # NoPoint => points'[s] # NoPoint
        /\ lastEmitted' < s => lastEmitted < s /\ bucket'[s] = bucket[s]
    BY <1>1, <1>2, <1>3, SnapshotsSeries
  <2> QED
    BY <1>1, <2>1, <2>3, <2>4 DEF SeriesAt
<1>5. \A x \in taken' : x[2] <= now' /\ x[2] \in Nat
  BY <1>1, <1>2, SecondsAreNumbers DEF SeriesInv, TypeOK, Samples
<1>6. lastEmitted' # Never => \A x \in taken' : x[2] <= lastEmitted'
  <2>1. lastEmitted' # Never => now + 1 <= lastEmitted'
    BY <1>1, <1>2, <1>3, SecondsAreNumbers, SnapshotsSeries
  <2>2. lastEmitted' \in Nat
    BY <1>1, <1>2, <1>3, SnapshotsTypes
  <2> QED
    BY <1>1, <1>3, <1>5, <2>1, <2>2
<1> QED
  BY <1>1, <1>2, <1>4, <1>5, <1>6 DEF SeriesInv

LEMMA SeriesInit == ASSUME Init PROVE SeriesInv
<1>1. ASSUME NEW s \in Seconds
      PROVE  SeriesAt(s)
  <2>1. Merged(s) = {}
    BY DEF Init, Merged, Samples
  <2>2. Cardinality(Merged(s)) = 0
    BY <2>1, FS_EmptySet
  <2> QED
    BY <2>2 DEF Init, SeriesAt
<1> QED
  BY <1>1 DEF Init, SeriesInv

LEMMA SeriesNext ==
  ASSUME {"answer", "final"} \cap Faults = {}, SeriesState, [Next]_vars
  PROVE  SeriesState'
<1>1. TypeOK' /\ OnceInv' /\ HeldInv' /\ KeptInv' /\ WaterInv'
  BY TypeNext, OnceNext, HeldNext, KeptNext, WaterNext DEF SeriesState
<1> SUFFICES SeriesInv'
  BY <1>1 DEF SeriesState
<1> USE DEF agg, outcome, worker
<1>2. ASSUME UNCHANGED <<worker, agg, points, taken>>, now' = now \/ now' = now + 1,
             (phase = "running" /\ phase' = "running")
               \/ ((phase = "running" <=> phase' = "running") /\ killed' = killed)
      PROVE  SeriesInv'
  <2>1. now \in Nat /\ MaxLag \in Nat /\ SeriesInv
    BY SecondsAreNumbers, LagAssumption DEF SeriesState, TypeOK
  <2>2. ASSUME NEW s \in Seconds
        PROVE  SeriesAt(s)'
    <3>1. SeriesAt(s) /\ Merged(s)' = Merged(s) /\ s \in Nat
      BY <1>2, <2>1, SecondsAreNumbers DEF SeriesInv, Merged
    <3>2. \A w \in Workers : Unmerged(w, s)' = Unmerged(w, s)
      BY <1>2 DEF Unmerged
    <3> QED
      BY <1>2, <2>1, <3>1, <3>2 DEF SeriesAt
  <2>3. \A x \in taken' : x[2] <= now'
    <3>1. \A x \in taken : x[2] <= now /\ x[2] \in Nat
      BY <2>1, SecondsAreNumbers DEF SeriesInv, SeriesState, TypeOK, Samples
    <3> QED
      BY <1>2, <2>1, <3>1
  <2> QED
    BY <1>2, <2>1, <2>2, <2>3 DEF SeriesInv
<1>3. ASSUME NEW w \in Workers, Worker(w)
      PROVE  SeriesInv'
  BY <1>3, SeriesWorker
<1>4. CASE Tick
  BY <1>4, SeriesTick
<1>5. CASE Drain
  BY <1>5, SeriesDrain
<1>6. CASE Summarise
  BY <1>2, <1>6 DEF Summarise
<1>7. CASE Unregister
  BY <1>2, <1>7 DEF Unregister
<1>8. CASE Kill
  BY <1>2, <1>8 DEF Kill
<1>9. CASE Clock
  BY <1>2, <1>9 DEF Clock
<1>10. CASE UNCHANGED vars
  BY <1>2, <1>10 DEF vars
<1> QED
  BY <1>3, <1>4, <1>5, <1>6, <1>7, <1>8, <1>9, <1>10 DEF Next

\* What has been merged of a second was taken in it.
LEMMA MergedWasTaken ==
  ASSUME SeriesState, NEW w \in Workers, NEW s \in Seconds, total[<<w, s>>] > 0
  PROVE  <<w, s>> \in taken
<1>1. OnceAt(w, s)
  BY DEF SeriesState, OnceInv
<1> QED
  BY <1>1 DEF OnceAt

\* A point that is not too old holds what was merged, which is what was taken
\* but for what died with its worker.
LEMMA SeriesComplete == ASSUME SeriesState PROVE PointsComplete
<1> SUFFICES ASSUME phase = "running", NEW s \in Seconds, points[s] # NoPoint, s > now - MaxLag
             PROVE  LET took == {w \in Workers : <<w, s>> \in taken}
                    IN  points[s] \in Cardinality({w \in took : stage[w] # "lost"}) .. Cardinality(took)
  BY DEF PointsComplete
<1> DEFINE took == {w \in Workers : <<w, s>> \in taken}
           kept == {w \in took : stage[w] # "lost"}
<1>1. points[s] = Cardinality(Merged(s)) /\ \A w \in Workers : ~Unmerged(w, s)
  <2>1. SeriesAt(s) /\ s \in Nat /\ now \in Nat /\ MaxLag \in Nat
    BY SecondsAreNumbers, LagAssumption DEF SeriesState, SeriesInv, TypeOK
  <2> QED
    BY <2>1 DEF SeriesAt
<1>2. Merged(s) \subseteq took
  BY MergedWasTaken DEF Merged
<1>3. ASSUME NEW w \in kept
      PROVE  w \in Merged(s)
  <2>1. KeptAt(w, s) /\ total[<<w, s>>] \in Nat
    BY DEF SeriesState, KeptInv, TypeOK, Samples
  <2>2. total[<<w, s>>] >= 1
    BY <1>1, <2>1 DEF KeptAt, Unmerged
  <2> QED
    BY <2>1, <2>2 DEF Merged
<1>4. IsFiniteSet(took) /\ IsFiniteSet(Merged(s))
  BY MergedFinite, WorkersAssumption, FS_Subset
<1>5. Cardinality(kept) <= Cardinality(Merged(s)) /\ Cardinality(Merged(s)) <= Cardinality(took)
  <2>1. kept \in SUBSET Merged(s) /\ Merged(s) \in SUBSET took
    BY <1>2, <1>3
  <2> HIDE DEF took, kept
  <2> QED
    BY <1>4, <2>1, FS_Subset
<1>6. Cardinality(kept) \in Nat /\ Cardinality(Merged(s)) \in Nat /\ Cardinality(took) \in Nat
  <2>1. kept \in SUBSET took
    OBVIOUS
  <2> HIDE DEF took, kept
  <2> QED
    BY <1>4, <2>1, FS_Subset, FS_CardinalityType
<1> QED
  BY <1>1, <1>5, <1>6

\* The points of a run that is not longer than the lag allowed are the summary,
\* from the first of them on.
LEMMA SeriesMatches ==
  ASSUME SeriesState, MaxClock <= MaxLag
  PROVE  PointsMatchSummary
<1> SUFFICES ASSUME Summed, ~killed, NEW s \in Seconds, NEW q \in Seconds, q <= s, points[q] # NoPoint
             PROVE  Shown(s) = Cardinality(Measured(s))
  BY DEF PointsMatchSummary
<1>1. /\ TypeOK /\ phase # "running" /\ SeriesAt(s) /\ SeriesAt(q)
      /\ lastEmitted # Never => \A x \in taken : x[2] <= lastEmitted
  BY DEF Summed, SeriesState, SeriesInv
<1>2. s \in Nat /\ q \in Nat /\ q >= 2 /\ lastEmitted \in Nat
  BY <1>1, SecondsAreNumbers DEF TypeOK
<1>3. now - MaxLag < s
  BY <1>1, <1>2, SecondsAreNumbers, LagAssumption DEF TypeOK
<1>4. Measured(s) = Merged(s)
  BY DEF SeriesState, KeptInv, KeptAt, Measured, Merged
<1>5. CASE s <= lastEmitted
  <2>1. points[s] # NoPoint
    BY <1>1, <1>5 DEF SeriesAt
  <2> QED
    BY <1>1, <1>3, <1>4, <2>1 DEF SeriesAt, Shown
<1>6. CASE ~(s <= lastEmitted)
  <2>1. points[s] = NoPoint /\ lastEmitted # Never
    BY <1>1, <1>2, <1>6 DEF SeriesAt, Never
  <2>2. \A w \in Workers : <<w, s>> \notin taken
    BY <1>1, <1>6, <2>1
  <2>3. Merged(s) = {}
    BY <2>2, MergedWasTaken DEF Merged
  <2> QED
    BY <1>4, <2>1, <2>3, FS_EmptySet DEF Shown
<1> QED
  BY <1>5, <1>6

LEMMA SeriesStates ==
  ASSUME {"answer", "final"} \cap Faults = {}, Late = {}
  PROVE  Spec => []SeriesState
<1>1. Init => SeriesState
  BY TypeInit, OnceInit, HeldInit, KeptInit, WaterInit, SeriesInit DEF SeriesState
<1>2. SeriesState /\ [Next]_vars => SeriesState'
  BY SeriesNext
<1> QED
  BY <1>1, <1>2, PTL DEF Spec

\* When every worker has reported before the first tick, no answer and no last
\* POST is lost, a point that is not older than the lag allowed is complete,
\* whatever POSTs fail, workers crash or hang: it waits for the watermark
\* (aggregator.go's emitUpTo), and a worker's watermark is older than what it
\* has not delivered (output.go's through).
THEOREM PointsAreComplete ==
  ASSUME {"answer", "final"} \cap Faults = {}, Late = {}
  PROVE  Spec => []PointsComplete
<1>1. SeriesState => PointsComplete
  BY SeriesComplete
<1>2. Spec => []SeriesState
  BY SeriesStates
<1> QED
  BY <1>1, <1>2, PTL

\* If moreover no worker can be behind by more than the lag allowed, what the
\* user sees as the series at the end is the summary, second by second.
THEOREM SeriesCorrect ==
  ASSUME {"answer", "final"} \cap Faults = {}, Late = {}, MaxClock <= MaxLag
  PROVE  Spec => []SeriesIsRight
<1>1. SeriesState => SeriesIsRight
  <2> SUFFICES ASSUME SeriesState
               PROVE  SeriesIsRight
    OBVIOUS
  <2>1. NothingLost
    BY KeptImplies DEF SeriesState
  <2> QED
    BY <2>1, SeriesComplete, SeriesMatches DEF SeriesIsRight
<1>2. Spec => []SeriesState
  BY SeriesStates
<1> QED
  BY <1>1, <1>2, PTL
=============================================================================
