-------------------------- MODULE MetricsPipeline ---------------------------
(***************************************************************************)
(* How a cluster run's samples become its series and its summary.  Every   *)
(* worker folds its samples into a pending batch and posts it once a       *)
(* second (apps/k6-output); the control plane merges the batches, emits a  *)
(* point for each second every worker has reported past, and at the end    *)
(* the summary of everything merged (engine/aggregator.go, ingest.go).     *)
(*                                                                         *)
(* A worker takes at most one sample a second: <<w, s>> stands for what    *)
(* worker w measured in second s, and the counts of these stand for the    *)
(* sums and histograms that the code adds up in the same places.           *)
(***************************************************************************)
EXTENDS Integers, FiniteSets, FiniteSetsExt

CONSTANTS
  Workers,
  MaxLag,      \* maxIngestLag, 30 seconds in the code
  Faults,      \* what goes wrong in this model, a subset of FaultKinds
  Late,        \* the workers that have not started yet when the model begins
  MaxClock,    \* bound: the last second
  MaxSample    \* bound: the last second in which k6 measures something

\* A POST may not arrive ("request"), nor the last one of a worker ("final");
\* its answer may be lost ("answer"); a worker may die ("crash"); the run may
\* be killed ("kill").
FaultKinds == {"request", "final", "answer", "crash", "kill"}

ASSUME LagAssumption == MaxLag \in Nat /\ {MaxClock, MaxSample} \subseteq Nat \ {0, 1}
ASSUME FaultsAssumption == Faults \subseteq FaultKinds
ASSUME WorkersAssumption == IsFiniteSet(Workers) /\ Late \subseteq Workers

flushLag == 1
Never    == 0
Start0   == 1               \* the workers that are not late have reported it
Seconds  == 2 .. MaxClock

VARIABLES
  now,
  \* the workers (k6 with the opensynapse output)
  stage,       \* see Stages
  buffer,      \* seconds whose samples k6 has buffered
  pending,     \* Output.pending
  post,        \* the POST in progress, while Output.mu is held
  flushed,     \* the second of the flusher's last tick
  \* the aggregator
  latest,      \* each reporting worker's watermark, or Never
  first,       \* the second of firstTS, or Never
  bucket,      \* samples merged into each second and not emitted yet
  total,       \* how often each sample was added to the run totals
  lastEmitted,
  \* what the control plane has made of them
  points,      \* the emitted series: samples in each second, or NoPoint
  summary,     \* how often each sample was counted in the summary, once Summed
  phase,       \* "running", "drained", "completed" or "over"
  killed,
  \* history
  taken        \* the samples k6 took

worker   == <<stage, buffer, pending, post, flushed>>
agg      == <<latest, first, bucket, total, lastEmitted>>
outcome  == <<points, summary, phase>>
vars     == <<now, worker, agg, outcome, killed, taken>>

\* A worker is waiting for its pod, up, has flushed for the last time, sends its
\* final batch, has ended, or was lost.
Stages == {"waiting", "up", "flushed", "final", "gone", "lost"}
NoPoint == -1
Samples == Workers \X Seconds

\* Output.pending is nil when on is FALSE.
NoBatch == [on |-> FALSE, secs |-> {}, through |-> Never, final |-> FALSE]
Batches == [on: {TRUE}, secs: SUBSET Seconds, through: Nat, final: BOOLEAN] \cup {NoBatch}

TypeOK ==
  /\ now \in Seconds
  /\ stage \in [Workers -> Stages]
  /\ buffer \in [Workers -> SUBSET Seconds]
  /\ pending \in [Workers -> Batches]
  /\ post \in [Workers -> {"none", "sent", "merged", "refused", "failed"}]
  /\ flushed \in [Workers -> Nat]
  /\ latest \in [Workers -> Nat]
  /\ first \in Nat
  /\ bucket \in [Seconds -> Nat]
  /\ total \in [Samples -> Nat]
  /\ lastEmitted \in Nat
  /\ points \in [Seconds -> Nat \cup {NoPoint}]
  /\ summary \in [Samples -> Nat]
  /\ phase \in {"running", "drained", "completed", "over"}
  /\ killed \in BOOLEAN
  /\ taken \in SUBSET Samples

Init ==
  /\ now = 2
  /\ stage = [w \in Workers |-> IF w \in Late THEN "waiting" ELSE "up"]
  /\ buffer = [w \in Workers |-> {}]
  /\ pending = [w \in Workers |-> NoBatch]
  /\ post = [w \in Workers |-> "none"]
  /\ flushed = [w \in Workers |-> Start0]
  /\ latest = [w \in Workers |-> IF w \in Late THEN Never ELSE Start0]
  /\ first = Never
  /\ bucket = [s \in Seconds |-> 0]
  /\ total = [x \in Samples |-> 0]
  /\ lastEmitted = Never
  /\ points = [s \in Seconds |-> NoPoint]
  /\ summary = [x \in Samples |-> 0]
  /\ phase = "running"
  /\ killed = FALSE
  /\ taken = {}

-----------------------------------------------------------------------------
(* The worker                                                              *)

Start(w) ==
  /\ stage[w] = "waiting"
  /\ stage' = [stage EXCEPT ![w] = "up"]
  /\ UNCHANGED <<now, buffer, pending, post, flushed, agg, outcome, killed, taken>>

\* k6 measures something and hands it to the output's buffer.
Take(w) ==
  /\ stage[w] = "up" /\ now <= MaxSample /\ <<w, now>> \notin taken
  /\ buffer' = [buffer EXCEPT ![w] = @ \cup {now}]
  /\ taken' = taken \cup {<<w, now>>}
  /\ UNCHANGED <<now, stage, pending, post, flushed, agg, outcome, killed>>

\* Mutant of Fold: the samples of a batch that failed are forgotten.
Fold_Fresh(w) == [on |-> TRUE, secs |-> buffer[w], through |-> now - 1, final |-> FALSE]

\* fold: the buffered samples join the ones that were not sent yet.
Fold(w) == [on |-> TRUE, secs |-> pending[w].secs \cup buffer[w],
            through |-> now - 1, final |-> FALSE]

\* Mutant of FlushNow: the samples stay in k6's buffer too.
FlushNow_Keeps(w, next) ==
  /\ stage[w] = "up" /\ post[w] = "none"
  /\ pending' = [pending EXCEPT ![w] = Fold(w)]
  /\ post' = [post EXCEPT ![w] = "sent"]
  /\ flushed' = [flushed EXCEPT ![w] = now]
  /\ stage' = [stage EXCEPT ![w] = next]
  /\ UNCHANGED <<now, buffer, agg, outcome, killed, taken>>

\* flush folds and posts.
FlushNow(w, next) ==
  /\ stage[w] = "up" /\ post[w] = "none"
  /\ pending' = [pending EXCEPT ![w] = Fold(w)]
  /\ buffer' = [buffer EXCEPT ![w] = {}]
  /\ post' = [post EXCEPT ![w] = "sent"]
  /\ flushed' = [flushed EXCEPT ![w] = now]
  /\ stage' = [stage EXCEPT ![w] = next]
  /\ UNCHANGED <<now, agg, outcome, killed, taken>>

\* The flusher's tick, once a second.
Flush(w) == flushed[w] < now /\ FlushNow(w, "up")

\* k6 ends: Output.Stop stops the flusher, which flushes a last time.
Stop(w) == FlushNow(w, "flushed")

\* Mutant of SendFinal: without a batch left over there is none to mark.
SendFinal_Nil(w) ==
  /\ stage[w] = "flushed" /\ post[w] = "none"
  /\ pending' = [pending EXCEPT ![w] = [on |-> pending[w].on, secs |-> pending[w].secs,
                                         through |-> now, final |-> TRUE]]
  /\ post' = [post EXCEPT ![w] = "sent"]
  /\ stage' = [stage EXCEPT ![w] = "final"]
  /\ UNCHANGED <<now, buffer, flushed, agg, outcome, killed, taken>>

\* After the last flush Stop sends what is left, marked as final.
SendFinal(w) ==
  /\ stage[w] = "flushed" /\ post[w] = "none"
  /\ pending' = [pending EXCEPT ![w] = [on |-> TRUE, secs |-> pending[w].secs,
                                         through |-> now, final |-> TRUE]]
  /\ post' = [post EXCEPT ![w] = "sent"]
  /\ stage' = [stage EXCEPT ![w] = "final"]
  /\ UNCHANGED <<now, buffer, flushed, agg, outcome, killed, taken>>

Ended(w) == stage[w] \in {"gone", "lost"}

\* k6 exits once the final POST is over, whatever came of it.
Returned(w) ==
  /\ post' = [post EXCEPT ![w] = "none"]
  /\ stage' = [stage EXCEPT ![w] = IF @ = "final" THEN "gone" ELSE @]

\* sendLocked: a batch that was taken is dropped, and one that was refused
\* with a 4xx too, since retrying cannot help.
Answered(w) ==
  /\ post[w] \in {"merged", "refused"}
  /\ pending' = [pending EXCEPT ![w] = NoBatch]
  /\ Returned(w)
  /\ UNCHANGED <<now, buffer, flushed, agg, outcome, killed, taken>>

\* A batch that failed stays for the next flush, and so does one whose answer
\* was lost.
Unknown == {"failed"} \cup IF "answer" \in Faults THEN {"merged", "refused"} ELSE {}

Unanswered(w) ==
  /\ post[w] \in Unknown
  /\ Returned(w)
  /\ UNCHANGED <<now, buffer, pending, flushed, agg, outcome, killed, taken>>

\* The POST does not reach the control plane.
Lose(w) ==
  /\ post[w] = "sent"
  /\ IF stage[w] = "final" THEN "final" \in Faults ELSE "request" \in Faults
  /\ post' = [post EXCEPT ![w] = "failed"]
  /\ UNCHANGED <<now, stage, buffer, pending, flushed, agg, outcome, killed, taken>>

\* The worker's pod is lost, and with it what it had not sent.
Crash(w) ==
  /\ "crash" \in Faults /\ stage[w] \in {"up", "flushed", "final"}
  /\ stage' = [stage EXCEPT ![w] = "lost"]
  /\ buffer' = [buffer EXCEPT ![w] = {}]
  /\ pending' = [pending EXCEPT ![w] = NoBatch]
  /\ post' = [post EXCEPT ![w] = "none"]
  /\ UNCHANGED <<now, flushed, agg, outcome, killed, taken>>

-----------------------------------------------------------------------------
(* The aggregator                                                          *)

\* merge, under the aggregator's lock.
Merge(w) ==
  LET b     == pending[w]
      early == IF first = Never THEN b.secs ELSE b.secs \cup {first}
  IN  /\ total' = [x \in Samples |->
                     IF x[1] = w /\ x[2] \in b.secs THEN total[x] + 1 ELSE total[x]]
      /\ bucket' = [s \in Seconds |-> IF s \in b.secs THEN bucket[s] + 1 ELSE bucket[s]]
      /\ first' = IF early = {} THEN first ELSE Min(early)
      /\ latest' = [latest EXCEPT ![w] = IF b.final THEN Never ELSE Max({@, b.through})]

\* Engine.Ingest: refused once the run is no longer active.
Ingest(w) ==
  /\ post[w] = "sent"
  /\ IF phase = "over"
     THEN post' = [post EXCEPT ![w] = "refused"] /\ UNCHANGED agg
     ELSE /\ post' = [post EXCEPT ![w] = "merged"]
          /\ Merge(w)
          /\ UNCHANGED lastEmitted
  /\ UNCHANGED <<now, stage, buffer, pending, flushed, outcome, killed, taken>>

\* The log of a pod that is gone has been read to its end: instanceDone.
InstanceDone(w) ==
  /\ Ended(w) /\ latest[w] # Never
  /\ latest' = [latest EXCEPT ![w] = Never]
  /\ UNCHANGED <<now, worker, first, bucket, total, lastEmitted, outcome, killed, taken>>

\* watermark: the oldest report, of the workers that have reported and not
\* finished; Never when there is none.
Watermark ==
  LET reports == {latest[w] : w \in Workers} \ {Never}
  IN  IF reports = {} THEN Never ELSE Min(reports)

\* Mutant of EmitUpTo: the watermark is waited for whatever its age.
EmitUpTo_Patient ==
  LET upTo == now - flushLag - 1
  IN  IF Watermark # Never /\ Watermark - 1 < upTo THEN Watermark - 1 ELSE upTo

\* emitUpTo: a little behind the clock, and behind the watermark unless that
\* is too old.
EmitUpTo ==
  LET upTo == now - flushLag - 1
  IN  IF Watermark # Never /\ Watermark - 1 < upTo
      THEN Max({Watermark - 1, now - MaxLag})
      ELSE upTo

\* The series has been emitted up to here, once there has been a sample.
Base == IF lastEmitted = Never THEN first - 1 ELSE lastEmitted

\* snapshots: a point for every second up to upTo, with what has been merged
\* into it by then; what was merged too late is dropped.
Snapshots(upTo) ==
  LET last == Max({Base, upTo})
  IN  IF lastEmitted = Never /\ first = Never
      THEN UNCHANGED <<points, bucket, lastEmitted>>
      ELSE /\ points' = [s \in Seconds |->
                           IF Base < s /\ s <= upTo THEN bucket[s] ELSE points[s]]
           /\ bucket' = [s \in Seconds |-> IF s <= last THEN 0 ELSE bucket[s]]
           /\ lastEmitted' = last

\* A tick of the run's loop.
Tick ==
  /\ phase = "running"
  /\ Snapshots(EmitUpTo)
  /\ UNCHANGED <<now, worker, latest, first, total, summary, phase, killed, taken>>

\* The backend's wait has returned: every worker is gone, or the TestRun was
\* deleted.  complete first emits every remaining second ...
Drain ==
  /\ phase = "running"
  /\ killed \/ \A w \in Workers : Ended(w)
  /\ Snapshots(now + 1)
  /\ phase' = "drained"
  /\ UNCHANGED <<now, worker, latest, first, total, summary, killed, taken>>

\* ... and then sums up.
Summarise ==
  /\ phase = "drained"
  /\ summary' = total
  /\ phase' = "completed"
  /\ UNCHANGED <<now, worker, agg, points, killed, taken>>

Unregister ==
  /\ phase = "completed"
  /\ phase' = "over"
  /\ UNCHANGED <<now, worker, agg, points, summary, killed, taken>>

\* The user kills the run: its TestRun is deleted, and the pods end on their own.
Kill ==
  /\ "kill" \in Faults /\ phase = "running" /\ ~killed
  /\ killed' = TRUE
  /\ UNCHANGED <<now, worker, agg, outcome, taken>>

Clock ==
  /\ now < MaxClock
  /\ now' = now + 1
  /\ UNCHANGED <<worker, agg, outcome, killed, taken>>

-----------------------------------------------------------------------------
Worker(w) ==
  \/ Start(w) \/ Take(w) \/ Flush(w) \/ Stop(w) \/ SendFinal(w)
  \/ Answered(w) \/ Unanswered(w) \/ Lose(w) \/ Crash(w) \/ Ingest(w)
  \/ InstanceDone(w)

Next ==
  \/ \E w \in Workers : Worker(w)
  \/ Tick \/ Drain \/ Summarise \/ Unregister \/ Kill \/ Clock

\* The run's loop ticks; workers may hang, and time may stop at any second.
Fairness == WF_vars(Tick)

Spec     == Init /\ [][Next]_vars
FairSpec == Spec /\ Fairness

-----------------------------------------------------------------------------
(* Properties                                                              *)

\* No sample is added to the run totals twice.
CountedOnce == \A x \in Samples : total[x] <= 1

\* While a run goes on, a point that is not older than the lag allowed holds
\* every sample that was taken in its second, on every worker that is not lost.
PointsComplete ==
  phase = "running" =>
    \A s \in Seconds :
      LET took == {w \in Workers : <<w, s>> \in taken}
      IN  points[s] # NoPoint /\ s > now - MaxLag
            => points[s] \in Cardinality({w \in took : stage[w] # "lost"}) .. Cardinality(took)

\* The summary of the run is there.
Summed == phase \in {"completed", "over"}

\* What the series says about a second, and the workers whose sample of it the
\* summary counts.
Shown(s)    == IF points[s] = NoPoint THEN 0 ELSE points[s]
Measured(s) == {w \in Workers : summary[<<w, s>>] > 0}

\* The series of a run that ended by itself adds up to its summary.
SeriesMatchesSummary ==
  Summed /\ ~killed
    => MapThenSumSet(LAMBDA x : summary[x], Samples) = MapThenSumSet(Shown, Seconds)

\* From its first point on, the series of such a run holds second by second
\* what the summary counts, each sample once: nothing was merged into a second
\* after its point, and the end of the run emitted the rest.
PointsMatchSummary ==
  Summed /\ ~killed =>
    \A s \in Seconds :
      (\E q \in Seconds : q <= s /\ points[q] # NoPoint)
        => Shown(s) = Cardinality(Measured(s))

\* What was measured by a worker that came to its end is in the summary of a
\* run that did.
NothingLost ==
  Summed /\ ~killed =>
    \A x \in taken : stage[x[1]] = "gone" => summary[x] >= 1

\* The series holds what was measured: complete while the run goes on, equal to
\* the summary at its end, and the summary lacks nothing.
SeriesIsRight == PointsComplete /\ PointsMatchSummary /\ NothingLost

-----------------------------------------------------------------------------
(* The inductive invariants behind SeriesIsRight.                          *)

\* What a worker holds at each of its stages, and that a run that ended by
\* itself has outlived its workers.
HeldAt(w) ==
  /\ stage[w] # "up" => buffer[w] = {}
  /\ stage[w] \in {"waiting", "gone", "lost"} => post[w] = "none"
  /\ stage[w] \in {"waiting", "lost"} => pending[w] = NoBatch
  /\ post[w] = "refused" => phase = "over" /\ killed
  /\ stage[w] = "final" => post[w] # "none"
  /\ stage[w] = "final" /\ post[w] = "failed" => "final" \in Faults

HeldInv ==
  /\ phase # "running" /\ ~killed => \A w \in Workers : Ended(w)
  /\ \A w \in Workers : HeldAt(w)

\* Where a sample is that was taken by a worker that is not lost: with the
\* worker, or counted.  Once the run is summed up, the summary has it.
KeptAt(w, s) ==
  LET counted == total[<<w, s>>] >= 1
  IN  /\ post[w] = "merged" /\ s \in pending[w].secs => counted
      /\ <<w, s>> \in taken /\ stage[w] # "lost" /\ ~(phase = "over" /\ killed)
           => \/ s \in buffer[w]
              \/ s \in pending[w].secs /\ stage[w] # "gone"
              \/ counted
      /\ Summed /\ ~killed => summary[<<w, s>>] = total[<<w, s>>]

KeptInv == \A w \in Workers, s \in Seconds : KeptAt(w, s)

\* What worker w has not merged of second s is newer than its watermark; it has
\* none only when everything is merged.
Unmerged(w, s) == s \in buffer[w] \/ (s \in pending[w].secs /\ post[w] # "merged")

WaterAt(w) ==
  /\ stage[w] # "waiting"
  /\ stage[w] = "gone" => pending[w] = NoBatch
  /\ stage[w] = "up" => pending[w].through < now /\ latest[w] < now
  /\ pending[w].final => stage[w] = "final"
  /\ \A s \in buffer[w] : pending[w].through < s
  /\ latest[w] = Never => stage[w] \in {"gone", "lost"} \/ (stage[w] = "final" /\ post[w] = "merged")
  /\ latest[w] # Never => \A s \in Seconds : Unmerged(w, s) => latest[w] < s

WaterInv == \A w \in Workers : WaterAt(w)

\* The workers whose sample of second s has been merged.
Merged(s) == {w \in Workers : total[<<w, s>>] > 0}

\* The series has no gaps, and each second holds what was merged into it:
\* before its point in the bucket, and then, unless the point is older than the
\* lag allowed, in the point, after which nothing more of it comes.
SeriesAt(s) ==
  /\ points[s] # NoPoint => s <= lastEmitted
  /\ \A q \in Seconds : q <= s /\ s <= lastEmitted /\ points[q] # NoPoint => points[s] # NoPoint
  /\ lastEmitted < s => bucket[s] = Cardinality(Merged(s))
  /\ points[s] # NoPoint /\ now - MaxLag < s =>
       /\ phase = "running" \/ ~killed => points[s] = Cardinality(Merged(s))
       /\ phase = "running" => s < now /\ \A w \in Workers : ~Unmerged(w, s)

SeriesInv ==
  /\ first # Never => first \in Seconds
  /\ \A x \in taken : x[2] <= now
  /\ phase # "running" /\ ~killed /\ lastEmitted # Never => \A x \in taken : x[2] <= lastEmitted
  /\ \A s \in Seconds : SeriesAt(s)

\* A worker that hangs holds the series back for MaxLag seconds, not for ever:
\* a series that is further behind catches up.
NoStall ==
  (phase = "running" /\ first # Never /\ Base < now - MaxLag)
    ~> lastEmitted >= now - MaxLag
=============================================================================
