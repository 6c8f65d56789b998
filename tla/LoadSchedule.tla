---------------------------- MODULE LoadSchedule ----------------------------
(***************************************************************************)
(* The VU profile of a run as a function of time: engine/schedule.go.      *)
(* Times are whole seconds.  A schedule is a record [start, stages], and a *)
(* stage a record [len, target]: ramp linearly to target over len.         *)
(***************************************************************************)
EXTENDS Integers, Sequences, FiniteSetsExt

\* Nothing keeps the numbers of a plan's stages from being negative.
Schedules == [start: Int, stages: Seq([len: Int, target: Int])]

\* Mutant: the conversion to int without math.Round.
Round_Down(a, b) == IF a >= 0 THEN a \div b ELSE -((-a) \div b)

\* math.Round(a / b) for b > 0: the nearest integer, halves away from zero.
Round(a, b) ==
  IF a >= 0 THEN (2*a + b) \div (2*b) ELSE -((b - 2*a) \div (2*b))

\* When each stage ends; stage 0 is the moment the schedule starts.
StageEnds(s) ==
  LET end[i \in 0 .. Len(s.stages)] ==
        IF i = 0 THEN 0 ELSE end[i-1] + s.stages[i].len
  IN  end

\* The VU count a stage starts from.
StageFrom(s, i) == IF i = 1 THEN s.start ELSE s.stages[i-1].target

Duration(s) == StageEnds(s)[Len(s.stages)]

PeakVUs(s) == Max({s.start} \cup {s.stages[i].target : i \in DOMAIN s.stages})

TargetIn(s, i, t) ==
  LET stage == s.stages[i]
      from  == StageFrom(s, i)
      begin == StageEnds(s)[i-1]
  IN  IF stage.len <= 0
      THEN stage.target
      ELSE Round(from * stage.len + (t - begin) * (stage.target - from), stage.len)

\* The VU count the schedule calls for t seconds into the run: that of the
\* first stage that has not ended, and the last target when all have.
TargetAt(s, t) ==
  LET open == {i \in DOMAIN s.stages : t < StageEnds(s)[i]}
  IN  IF open = {} THEN StageFrom(s, Len(s.stages) + 1) ELSE TargetIn(s, Min(open), t)

\* The longest a run may be extended to: the plan and half of it again, at
\* least minBuffer (5 minutes in the code) and at most maxBuffer (24 hours).
MaxDurationFor(planned, minBuffer, maxBuffer) ==
  planned + Min({Max({planned \div 2, minBuffer}), maxBuffer})
-----------------------------------------------------------------------------
(* What TargetAt is to compute                                             *)

\* The stages of the profile before stage i, laid end to end.
Before(s, i) ==
  LET begin[j \in 1 .. Len(s.stages) + 1] == IF j = 1 THEN 0 ELSE begin[j-1] + s.stages[j-1].len
  IN  begin[i]

\* Within a stage the VU count is the integer nearest to the straight line
\* from where the last stage ended to the target; after the last stage it is
\* the last target (Schedule.TargetAt).
OnRamp(s, t) ==
  LET n == Len(s.stages) IN
  \/ /\ t >= Before(s, n + 1)
     /\ TargetAt(s, t) = IF n = 0 THEN s.start ELSE s.stages[n].target
  \/ \E i \in 1 .. n :
       LET stage == s.stages[i]
           from  == IF i = 1 THEN s.start ELSE s.stages[i-1].target
           miss  == (TargetAt(s, t) - from) * stage.len - (t - Before(s, i)) * (stage.target - from)
       IN  /\ Before(s, i) <= t /\ t < Before(s, i + 1)
           /\ 2 * miss <= stage.len /\ -2 * miss <= stage.len
=============================================================================
