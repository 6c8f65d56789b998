-------------------------- MODULE PlanPartsProofs ---------------------------
(***************************************************************************)
(* What the computations of a plan do for every input: the VU schedule of  *)
(* a run and the limits compiled beside it, the branches of a random       *)
(* controller, the keys of the scenarios, and the parameters and requests  *)
(* a plan is generated from.                                               *)
(***************************************************************************)
EXTENDS PlanParts, WellFoundedInduction, FiniteSetTheorems, SequenceTheorems, TLAPS

-----------------------------------------------------------------------------
(* Numbers and lists.  Facts about every number or element are proved      *)
(* without induction theorems: the least exception would have none before. *)

\* A set of numbers that is not empty has a least element.
LEMMA LeastNumber ==
  ASSUME NEW S \in SUBSET Nat, S # {}
  PROVE  \E x \in S : \A y \in S : x <= y
<1> DEFINE R == {p \in Nat \X Nat : p[1] < p[2]}
<1>1. IsWellFoundedOn(R, Nat)
  <2>1. R = OpToRel(<, Nat)
    BY Zenon DEF OpToRel
  <2> QED
    BY <2>1, NatLessThanWellFounded, Zenon
<1>2. PICK x \in S : \A y \in S : ~(<<y, x>> \in R)
  <2> HIDE DEF R
  <2> QED
    BY <1>1, WFMin
<1>3. ASSUME NEW y \in S
      PROVE  x <= y
  <2>1. x \in Nat /\ y \in Nat
    OBVIOUS
  <2>2. ~(y < x)
    BY <1>2, <2>1
  <2> QED
    BY <2>1, <2>2
<1> QED
  BY <1>3

\* What is true of 0, and of each number up to n after the one before it, is
\* true up to n: the least exception would have none before it.
LEMMA UpTo ==
  ASSUME NEW n \in Nat, NEW T \in SUBSET (0 .. n),
         0 \in T, \A k \in 1 .. n : k - 1 \in T => k \in T
  PROVE  T = 0 .. n
<1> DEFINE Bad == (0 .. n) \ T
<1> SUFFICES ASSUME Bad # {}
             PROVE  FALSE
  OBVIOUS
<1>1. PICK k \in Bad : \A j \in Bad : k <= j
  <2>1. Bad \in SUBSET Nat
    OBVIOUS
  <2> HIDE DEF Bad
  <2> QED
    BY <2>1, LeastNumber
<1>2. k \in 1 .. n
  OBVIOUS
<1>3. k - 1 \in 0 .. n /\ ~(k <= k - 1)
  BY <1>2
<1>4. k - 1 \in T
  BY <1>1, <1>3
<1> QED
  BY <1>2, <1>4

\* The i-th step makes F[i][x] of x; it stays in the set, and the values made
\* from a first one in n steps are f[0] to f[n].
StaysIn(F, n, S) == \A i \in 1 .. n : \A x \in S : F[i][x] \in S
MadeBy(f, F, n, S, a) == f \in [0 .. n -> S] /\ f[0] = a /\ \A i \in 1 .. n : f[i] = F[i][f[i-1]]

\* Steps that stay in a set make a list of its values.
LEMMA StepByStep ==
  ASSUME NEW n \in Nat, NEW S, NEW a \in S, NEW F, StaysIn(F, n, S)
  PROVE  \E f : MadeBy(f, F, n, S, a)
<1> DEFINE T == {k \in 0 .. n : \E f : MadeBy(f, F, k, S, a)}
<1>1. 0 \in T
  <2>1. MadeBy([i \in 0 .. 0 |-> a], F, 0, S, a)
    BY DEF MadeBy
  <2> QED
    BY <2>1
<1>2. ASSUME NEW k \in 1 .. n, k - 1 \in T
      PROVE  k \in T
  <2>1. PICK f : MadeBy(f, F, k - 1, S, a)
    BY <1>2
  <2>2. f \in [0 .. k - 1 -> S] /\ f[0] = a /\ \A i \in 1 .. k - 1 : f[i] = F[i][f[i-1]]
    BY <2>1 DEF MadeBy
  <2> DEFINE g == [i \in 0 .. k |-> IF i = k THEN F[k][f[k-1]] ELSE f[i]]
  <2>3. f[k-1] \in S /\ F[k][f[k-1]] \in S
    BY <1>2, <2>2 DEF StaysIn
  <2>4. g \in [0 .. k -> S] /\ g[0] = a
    BY <1>2, <2>2, <2>3
  <2>5. ASSUME NEW i \in 1 .. k
        PROVE  g[i] = F[i][g[i-1]]
    <3>1. i - 1 \in 0 .. k /\ i - 1 # k /\ i \in 0 .. k
      BY <1>2
    <3>2. g[i-1] = f[i-1]
      BY <3>1
    <3>3. CASE i = k
      BY <3>1, <3>2, <3>3
    <3>4. CASE i # k
      <4>1. i \in 1 .. k - 1
        BY <1>2, <3>4
      <4> QED
        BY <2>2, <3>1, <3>2, <3>4, <4>1
    <3> QED
      BY <3>3, <3>4
  <2> HIDE DEF g
  <2>6. MadeBy(g, F, k, S, a)
    BY <2>4, <2>5 DEF MadeBy
  <2> QED
    BY <1>2, <2>6
<1>3. T = 0 .. n
  <2>1. T \in SUBSET (0 .. n)
    OBVIOUS
  <2> HIDE DEF T
  <2> QED
    BY <1>1, <1>2, <2>1, UpTo
<1> QED
  BY <1>3

\* What is made of values of a set by steps that stay in it is in the set.
LEMMA StepsStay ==
  ASSUME NEW n \in Nat, NEW S, NEW f, f[0] \in S, \A i \in 1 .. n : f[i-1] \in S => f[i] \in S
  PROVE  \A i \in 0 .. n : f[i] \in S
<1> DEFINE T == {k \in 0 .. n : f[k] \in S}
<1>1. T \in SUBSET (0 .. n) /\ 0 \in T /\ \A k \in 1 .. n : k - 1 \in T => k \in T
  OBVIOUS
<1>2. T = 0 .. n
  <2> HIDE DEF T
  <2> QED
    BY <1>1, UpTo
<1> QED
  BY <1>2

-----------------------------------------------------------------------------
(* The schedule                                                            *)

\* The recursive function in StageEnds exists.
LEMMA StageEndsAre ==
  ASSUME NEW s \in Schedules
  PROVE  StageEnds(s) = [i \in 0 .. Len(s.stages) |->
                           IF i = 0 THEN 0 ELSE StageEnds(s)[i-1] + s.stages[i].len]
<1> DEFINE n == Len(s.stages)
           Ends(g, k) == g = [i \in 0 .. k |-> IF i = 0 THEN 0 ELSE g[i-1] + s.stages[i].len]
           T == {k \in 0 .. n : \E g : Ends(g, k)}
<1>1. n \in Nat
  BY DEF Schedules
<1>2. 0 \in T
  <2>1. Ends([i \in 0 .. 0 |-> 0], 0)
    OBVIOUS
  <2> HIDE DEF Ends, n
  <2> QED
    BY <1>1, <2>1
<1>3. ASSUME NEW k \in 1 .. n, k - 1 \in T
      PROVE  k \in T
  <2>1. PICK g : Ends(g, k - 1)
    BY <1>3
  <2> DEFINE h == [i \in 0 .. k |-> IF i = k THEN g[k-1] + s.stages[k].len ELSE g[i]]
  <2>2. \A i \in 0 .. k - 1 : h[i] = g[i] /\ g[i] = IF i = 0 THEN 0 ELSE g[i-1] + s.stages[i].len
    BY <1>1, <1>3, <2>1
  <2>3. ASSUME NEW i \in 0 .. k
        PROVE  h[i] = IF i = 0 THEN 0 ELSE h[i-1] + s.stages[i].len
    <3>1. CASE i = k
      <4>1. h[i] = g[k-1] + s.stages[k].len /\ k - 1 \in 0 .. k - 1 /\ i # 0
        BY <1>1, <1>3, <3>1
      <4>2. h[k-1] = g[k-1]
        BY <2>2, <4>1
      <4> QED
        BY <3>1, <4>1, <4>2
    <3>2. CASE i # k
      <4>1. i \in 0 .. k - 1 /\ (i # 0 => i - 1 \in 0 .. k - 1)
        BY <1>1, <1>3, <3>2
      <4> HIDE DEF h
      <4> QED
        BY <2>2, <4>1
    <3> QED
      BY <3>1, <3>2
  <2>4. Ends(h, k)
    <3>1. h = [i \in 0 .. k |-> h[i]]
      OBVIOUS
    <3> HIDE DEF h
    <3> QED
      BY <2>3, <3>1
  <2> HIDE DEF Ends, h
  <2> QED
    BY <1>1, <2>4
<1>4. n \in T
  <2>1. T \in SUBSET (0 .. n)
    OBVIOUS
  <2> HIDE DEF T, n
  <2>2. T = 0 .. n
    BY <1>1, <1>2, <1>3, <2>1, UpTo
  <2> QED
    BY <1>1, <2>2
<1>5. StageEnds(s) = CHOOSE g : Ends(g, n)
  BY DEF StageEnds
<1>6. Ends(StageEnds(s), n)
  <2> HIDE DEF Ends, n
  <2> QED
    BY <1>4, <1>5
<1> QED
  BY <1>6

\* The stages of a schedule.
LEMMA StagesType ==
  ASSUME NEW s \in Schedules
  PROVE  /\ Len(s.stages) \in Nat /\ DOMAIN s.stages = 1 .. Len(s.stages) /\ s.start \in Int
         /\ \A i \in 1 .. Len(s.stages) : s.stages[i].len \in Int /\ s.stages[i].target \in Int
<1>1. s.start \in Int /\ s.stages \in Seq([len: Int, target: Int])
  BY DEF Schedules
<1>2. \A i \in 1 .. Len(s.stages) : s.stages[i] \in [len: Int, target: Int]
  <2>1. PICK Stage : Stage = [len: Int, target: Int]
    OBVIOUS
  <2>2. PICK stages : stages = s.stages
    OBVIOUS
  <2>3. stages \in Seq(Stage)
    BY <1>1, <2>1, <2>2
  <2>4. \A i \in 1 .. Len(stages) : stages[i] \in Stage
    BY <2>3
  <2> QED
    BY <2>1, <2>2, <2>4
<1> QED
  BY <1>1, <1>2

\* A stage ends its length after the one before it.
LEMMA StageEndsFacts ==
  ASSUME NEW s \in Schedules
  PROVE  LET ends == StageEnds(s)
         IN  /\ ends \in [0 .. Len(s.stages) -> Int]
             /\ ends[0] = 0
             /\ \A i \in 1 .. Len(s.stages) : ends[i] = ends[i-1] + s.stages[i].len
<1> DEFINE n == Len(s.stages)
<1>1. PICK ends : ends = StageEnds(s)
  OBVIOUS
<1>2. ends = [i \in 0 .. n |-> IF i = 0 THEN 0 ELSE ends[i-1] + s.stages[i].len]
  BY <1>1, StageEndsAre
<1>3. n \in Nat /\ \A i \in 1 .. n : s.stages[i].len \in Int
  BY StagesType
<1> HIDE DEF n
<1>4. ends[0] = 0 /\ \A i \in 1 .. n : ends[i] = ends[i-1] + s.stages[i].len
  BY <1>2, <1>3
<1> DEFINE T == {k \in 0 .. n : ends[k] \in Int}
<1>5. T = 0 .. n
  <2>1. T \in SUBSET (0 .. n) /\ 0 \in T
    BY <1>3, <1>4
  <2>2. \A k \in 1 .. n : k - 1 \in T => k \in T
    BY <1>3, <1>4
  <2> HIDE DEF T
  <2> QED
    BY <1>3, <2>1, <2>2, UpTo
<1>6. \A i \in 0 .. n : ends[i] \in Int
  BY <1>5
<1>7. ends \in [0 .. n -> Int]
  BY <1>2, <1>6
<1> QED
  BY <1>1, <1>4, <1>7 DEF n

\* Min is the least element.
LEMMA MinIsLeast ==
  ASSUME NEW S \in SUBSET Nat, S # {}
  PROVE  Min(S) \in S /\ \A y \in S : Min(S) <= y
BY LeastNumber DEF Min

\* The stage TargetAt looks into: it has not ended, and those before it have.
LEMMA OpenStage ==
  ASSUME NEW s \in Schedules, NEW t \in Int
  PROVE  LET ends == StageEnds(s)
         IN  \/ /\ TargetAt(s, t) = StageFrom(s, Len(s.stages) + 1)
                /\ \A i \in 1 .. Len(s.stages) : ~(t < ends[i])
             \/ \E i \in 1 .. Len(s.stages) :
                  /\ TargetAt(s, t) = TargetIn(s, i, t)
                  /\ t < ends[i]
                  /\ i = 1 \/ (i - 1 \in 1 .. Len(s.stages) /\ ~(t < ends[i-1]))
<1> DEFINE n == Len(s.stages)
           open == {i \in DOMAIN s.stages : t < StageEnds(s)[i]}
<1>1. n \in Nat /\ DOMAIN s.stages = 1 .. n
  BY StagesType
<1>2. CASE open = {}
  BY <1>1, <1>2 DEF TargetAt
<1>3. CASE open # {}
  <2>1. TargetAt(s, t) = TargetIn(s, Min(open), t)
    BY <1>3 DEF TargetAt
  <2>2. open \in SUBSET Nat
    BY <1>1
  <2>3. Min(open) \in open /\ \A j \in open : Min(open) <= j
    <3> HIDE DEF open
    <3> QED
      BY <1>3, <2>2, MinIsLeast
  <2>4. PICK i : i = Min(open)
    OBVIOUS
  <2>5. i \in 1 .. n /\ t < StageEnds(s)[i]
    BY <1>1, <2>3, <2>4
  <2>6. i = 1 \/ (i - 1 \in 1 .. n /\ ~(t < StageEnds(s)[i-1]))
    <3>1. CASE i = 1
      BY <3>1
    <3>2. CASE i # 1
      <4>1. i - 1 \in 1 .. n /\ ~(i <= i - 1)
        BY <1>1, <2>5, <3>2
      <4>2. i - 1 \notin open
        BY <2>3, <2>4, <4>1
      <4> QED
        BY <1>1, <4>1, <4>2
    <3> QED
      BY <3>1, <3>2
  <2> HIDE DEF open
  <2> QED
    BY <2>1, <2>4, <2>5, <2>6
<1> QED
  BY <1>2, <1>3

\* Round gives a number for every quotient.
LEMMA RoundType ==
  ASSUME NEW a \in Int, NEW b \in Nat \ {0}
  PROVE  Round(a, b) \in Int
BY DEF Round

\* The numerator of the interpolation.
LEMMA RampType ==
  ASSUME NEW from \in Int, NEW target \in Int, NEW len \in Int, NEW d \in Int
  PROVE  from * len + d * (target - from) \in Int
<1>1. from * len \in Int /\ target - from \in Int
  OBVIOUS
<1>2. d * (target - from) \in Int
  BY <1>1
<1> QED
  BY <1>1, <1>2

\* The VU count at any time is a number.
LEMMA TargetAtType ==
  ASSUME NEW s \in Schedules, NEW t \in Int
  PROVE  TargetAt(s, t) \in Int
<1>1. \A i \in 1 .. Len(s.stages) + 1 : StageFrom(s, i) \in Int
  BY StagesType DEF StageFrom
<1>2. ASSUME NEW i \in 1 .. Len(s.stages)
      PROVE  TargetIn(s, i, t) \in Int
  <2>1. s.stages[i].len \in Int /\ s.stages[i].target \in Int /\ StageFrom(s, i) \in Int
    BY <1>1, StagesType
  <2>2. StageEnds(s)[i-1] \in Int
    <3>1. i - 1 \in 0 .. Len(s.stages)
      BY StagesType
    <3>2. StageEnds(s) \in [0 .. Len(s.stages) -> Int]
      BY StageEndsFacts
    <3> QED
      BY <3>1, <3>2
  <2>3. PICK len, from, target, begin :
          len = s.stages[i].len /\ target = s.stages[i].target /\ from = StageFrom(s, i) /\ begin = StageEnds(s)[i-1]
    OBVIOUS
  <2>7. PICK a : a = from * len + (t - begin) * (target - from)
    OBVIOUS
  <2>4. a \in Int
    <3>1. t - begin \in Int
      BY <2>2, <2>3
    <3> QED
      BY <2>1, <2>3, <2>7, <3>1, RampType
  <2>5. TargetIn(s, i, t) = IF len <= 0 THEN target ELSE Round(a, len)
    BY <2>3, <2>7 DEF TargetIn
  <2>8. len \in Int /\ target \in Int
    BY <2>1, <2>3
  <2>6. CASE len <= 0
    BY <2>5, <2>6, <2>8
  <2>9. CASE ~(len <= 0)
    <3>1. len \in Nat \ {0}
      BY <2>8, <2>9
    <3>2. Round(a, len) \in Int
      BY <2>4, <3>1, RoundType
    <3> QED
      BY <2>5, <2>9, <3>2
  <2> QED
    BY <2>6, <2>9
<1>3. Len(s.stages) + 1 \in 1 .. Len(s.stages) + 1
  BY StagesType
<1> QED
  BY <1>1, <1>2, <1>3, OpenStage

\* The interpolation of a stage stays between nothing and the peak.
LEMMA RampInRange ==
  ASSUME NEW from \in Nat, NEW target \in Nat, NEW len \in Nat, NEW d \in 0 .. len,
         NEW peak \in Nat, from <= peak, target <= peak
  PROVE  LET a == from * len + d * (target - from)
         IN  a \in Nat /\ a <= peak * len
<1>1. PICK r : r = len - d
  OBVIOUS
<1>2. r \in Nat /\ d \in Nat /\ len = r + d /\ peak - from \in Nat /\ peak - target \in Nat
  BY <1>1
<1>3. from * len + d * (target - from) = from * r + d * target
  BY <1>2
<1>4. from * r \in Nat /\ d * target \in Nat
  BY <1>2
<1>5. peak * len = (from * r + d * target) + ((peak - from) * r + (peak - target) * d)
  BY <1>2
<1>6. (peak - from) * r \in Nat /\ (peak - target) * d \in Nat
  BY <1>2
<1> QED
  BY <1>3, <1>4, <1>5, <1>6

\* So does its rounding.
LEMMA RoundInRange ==
  ASSUME NEW a \in Nat, NEW b \in Nat \ {0}, NEW peak \in Nat, a <= peak * b
  PROVE  Round(a, b) \in 0 .. peak
<1>1. PICK q : q = (2 * a + b) \div (2 * b)
  OBVIOUS
<1>2. 2 * a + b \in Nat /\ 2 * b \in Nat \ {0}
  OBVIOUS
<1>3. q \in Int /\ (2 * b) * q <= 2 * a + b /\ 2 * a + b < (2 * b) * (q + 1)
  BY <1>1, <1>2
<1>4. Round(a, b) = q
  BY <1>1 DEF Round
<1>5. q >= 0
  BY <1>2, <1>3
<1>6. ~(q >= peak + 1)
  <2> SUFFICES ASSUME q >= peak + 1
               PROVE  FALSE
    OBVIOUS
  <2>1. (2 * b) * q >= (2 * b) * (peak + 1)
    BY <1>2, <1>3
  <2>2. (2 * b) * (peak + 1) = 2 * (peak * b) + 2 * b
    OBVIOUS
  <2> QED
    BY <1>2, <1>3, <2>1, <2>2
<1> QED
  BY <1>3, <1>4, <1>5, <1>6

\* The peak is no less than the start and every target.
LEMMA PeakIsPeak ==
  ASSUME NEW s \in Schedules
  PROVE  /\ PeakVUs(s) \in {s.start} \cup {s.stages[i].target : i \in DOMAIN s.stages}
         /\ s.start <= PeakVUs(s)
         /\ \A i \in 1 .. Len(s.stages) : s.stages[i].target <= PeakVUs(s)
<1> DEFINE n == Len(s.stages)
           g(i) == s.stages[i].target
           S == {s.start} \cup {g(i) : i \in 1 .. n}
           Tops(k, m) == m \in S /\ s.start <= m /\ \A i \in 1 .. k : g(i) <= m
           T == {k \in 0 .. n : \E m \in S : Tops(k, m)}
<1>1. n \in Nat /\ s.start \in Int /\ \A i \in 1 .. n : g(i) \in Int
  BY StagesType
<1>2. S \in SUBSET Int /\ s.start \in S /\ \A i \in 1 .. n : g(i) \in S
  BY <1>1
<1> HIDE DEF n, g, S
<1>3. 0 \in T
  <2>1. Tops(0, s.start)
    BY <1>1, <1>2
  <2> QED
    BY <1>1, <1>2, <2>1
<1>4. ASSUME NEW k \in 1 .. n, k - 1 \in T
      PROVE  k \in T
  <2>1. PICK m \in S : Tops(k - 1, m)
    BY <1>4
  <2>2. m \in Int /\ g(k) \in Int /\ g(k) \in S
    BY <1>1, <1>2
  <2>3. \A i \in 1 .. k : i = k \/ i \in 1 .. k - 1
    BY <1>1, <1>4
  <2>4. CASE g(k) <= m
    <3>1. Tops(k, m)
      BY <2>1, <2>3, <2>4
    <3> QED
      BY <1>1, <3>1
  <2>5. CASE ~(g(k) <= m)
    <3>1. \A i \in 1 .. k : g(i) <= g(k)
      <4>1. ASSUME NEW i \in 1 .. k, i # k
            PROVE  g(i) <= g(k)
        <5>1. i \in 1 .. k - 1 /\ i \in 1 .. n
          BY <1>1, <1>4, <4>1
        <5>2. g(i) <= m /\ g(i) \in Int
          BY <1>1, <2>1, <5>1
        <5> QED
          BY <2>2, <2>5, <5>2
      <4>2. g(k) <= g(k)
        BY <2>2
      <4> QED
        BY <4>1, <4>2
    <3>2. s.start <= g(k)
      BY <1>1, <2>1, <2>2, <2>5
    <3>3. Tops(k, g(k))
      BY <2>2, <3>1, <3>2
    <3> QED
      BY <1>1, <2>2, <3>3
  <2> QED
    BY <2>4, <2>5
<1>5. n \in T
  <2>1. T \in SUBSET (0 .. n)
    OBVIOUS
  <2> HIDE DEF T
  <2>2. T = 0 .. n
    BY <1>1, <1>3, <1>4, <2>1, UpTo
  <2> QED
    BY <1>1, <2>2
<1>6. PICK m \in S : Tops(n, m)
  BY <1>5
<1>7. \A x \in S : x <= m
  <2>1. \A x \in S : x = s.start \/ \E i \in 1 .. n : x = g(i)
    BY DEF S
  <2> QED
    BY <1>6, <2>1
<1>8. PeakVUs(s) = Max(S)
  <2>1. DOMAIN s.stages = 1 .. n
    BY StagesType DEF n
  <2> QED
    BY <2>1 DEF PeakVUs, S, g
<1>9. Max(S) = m
  <2>1. Max(S) \in S /\ \A x \in S : Max(S) >= x
    BY <1>2, <1>6, <1>7 DEF Max
  <2>2. m \in Int /\ m \in S /\ Max(S) \in Int
    BY <1>2, <1>6, <2>1
  <2>3. Max(S) >= m /\ Max(S) <= m
    BY <1>7, <2>1, <2>2
  <2> QED
    BY <2>2, <2>3
<1>10. PeakVUs(s) \in S /\ s.start <= PeakVUs(s) /\ \A i \in 1 .. n : g(i) <= PeakVUs(s)
  BY <1>6, <1>8, <1>9
<1>11. DOMAIN s.stages = 1 .. n
  BY StagesType DEF n
<1> QED
  BY <1>10, <1>11 DEF S, g, n

\* A plan without negative numbers never calls for fewer than no VUs or more
\* than its peak, at any second of the run (schedule.go: TargetAt, PeakVUs).
THEOREM TargetInRange ==
  ASSUME NEW s \in Schedules, NEW t \in Nat, s.start \in Nat,
         \A i \in 1 .. Len(s.stages) : s.stages[i].len \in Nat /\ s.stages[i].target \in Nat
  PROVE  TargetAt(s, t) \in 0 .. PeakVUs(s)
<1>1. PICK peak : peak = PeakVUs(s)
  OBVIOUS
<1>2. \A i \in 1 .. Len(s.stages) + 1 : StageFrom(s, i) \in 0 .. peak
  <2>1. peak \in Int /\ s.start \in 0 .. peak
    BY <1>1, PeakIsPeak, StagesType
  <2>2. \A i \in 1 .. Len(s.stages) : s.stages[i].target \in 0 .. peak
    BY <1>1, <2>1, PeakIsPeak
  <2>3. Len(s.stages) \in Nat
    BY StagesType
  <2>4. ASSUME NEW i \in 1 .. Len(s.stages) + 1, i # 1
        PROVE  i - 1 \in 1 .. Len(s.stages)
    BY <2>3, <2>4
  <2> QED
    BY <2>1, <2>2, <2>4 DEF StageFrom
<1>3. peak \in Nat
  <2>1. Len(s.stages) + 1 \in 1 .. Len(s.stages) + 1
    BY StagesType
  <2>2. PICK x : x \in 0 .. peak
    BY <1>2, <2>1
  <2>3. peak \in Int
    BY <1>1, PeakIsPeak, StagesType
  <2> QED
    BY <2>2, <2>3
<1>4. ASSUME NEW i \in 1 .. Len(s.stages), t < StageEnds(s)[i],
             i = 1 \/ (i - 1 \in 1 .. Len(s.stages) /\ ~(t < StageEnds(s)[i-1]))
      PROVE  TargetIn(s, i, t) \in 0 .. peak
  <2>1. Len(s.stages) \in Nat /\ i \in 1 .. Len(s.stages) + 1 /\ i - 1 \in 0 .. Len(s.stages)
    BY StagesType
  <2>2. PICK len, from, target, begin :
          len = s.stages[i].len /\ target = s.stages[i].target /\ from = StageFrom(s, i) /\ begin = StageEnds(s)[i-1]
    OBVIOUS
  <2>3. begin \in Int /\ StageEnds(s)[i] = begin + len
    BY <2>1, <2>2, StageEndsFacts
  <2>4. len \in Nat /\ from \in 0 .. peak /\ target \in Nat /\ target <= peak
    BY <1>1, <1>2, <2>1, <2>2, PeakIsPeak
  <2>5. begin <= t
    <3>1. CASE i = 1
      BY <2>2, <3>1, StageEndsFacts
    <3>2. CASE i # 1
      BY <1>4, <2>2, <2>3, <3>2
    <3> QED
      BY <3>1, <3>2
  <2>6. t - begin \in 0 .. len /\ len \in Nat \ {0}
    BY <1>4, <2>3, <2>4, <2>5
  <2>7. PICK a : a = from * len + (t - begin) * (target - from)
    OBVIOUS
  <2>8. a \in Nat /\ a <= peak * len
    <3>1. len \in Nat /\ from \in Nat /\ from <= peak /\ t - begin \in 0 .. len
      BY <1>3, <2>4, <2>6
    <3> QED
      BY <1>3, <2>4, <2>7, <3>1, RampInRange
  <2>9. Round(a, len) \in 0 .. peak
    BY <1>3, <2>6, <2>8, RoundInRange
  <2>10. TargetIn(s, i, t) = Round(a, len)
    BY <2>2, <2>6, <2>7 DEF TargetIn
  <2> QED
    BY <2>9, <2>10
<1>5. Len(s.stages) + 1 \in 1 .. Len(s.stages) + 1
  BY StagesType
<1> QED
  BY <1>1, <1>2, <1>4, <1>5, OpenStage
\* Laying the stages end to end ends them where StageEnds says.
LEMMA BeforeIs ==
  ASSUME NEW s \in Schedules, NEW i \in 1 .. Len(s.stages) + 1
  PROVE  Before(s, i) = StageEnds(s)[i-1]
<1> DEFINE n == Len(s.stages)
           Lays(g) == g = [j \in 1 .. n + 1 |-> IF j = 1 THEN 0 ELSE g[j-1] + s.stages[j-1].len]
           begin == CHOOSE g : Lays(g)
<1>1. PICK ends : ends = StageEnds(s)
  OBVIOUS
<1>2. /\ n \in Nat /\ ends \in [0 .. n -> Int] /\ ends[0] = 0
      /\ \A j \in 1 .. n : ends[j] = ends[j-1] + s.stages[j].len
  BY <1>1, StagesType, StageEndsFacts
<1>3. Before(s, i) = begin[i]
  BY DEF Before
<1> HIDE DEF n
<1>4. Lays([j \in 1 .. n + 1 |-> ends[j-1]])
  <2> DEFINE h == [j \in 1 .. n + 1 |-> ends[j-1]]
  <2>1. ASSUME NEW j \in 1 .. n + 1
        PROVE  h[j] = IF j = 1 THEN 0 ELSE h[j-1] + s.stages[j-1].len
    <3>1. CASE j = 1
      BY <1>2, <3>1
    <3>2. CASE j # 1
      <4>1. j - 1 \in 1 .. n /\ j - 1 \in 1 .. n + 1
        BY <1>2, <3>2
      <4>2. h[j-1] = ends[(j-1)-1] /\ h[j] = ends[j-1]
        BY <4>1
      <4> QED
        BY <1>2, <3>2, <4>1, <4>2
    <3> QED
      BY <3>1, <3>2
  <2>2. h = [j \in 1 .. n + 1 |-> h[j]]
    OBVIOUS
  <2> HIDE DEF h
  <2>3. Lays(h)
    BY <2>1, <2>2
  <2> QED
    BY <2>3 DEF h
<1>5. Lays(begin)
  <2> HIDE DEF Lays
  <2> QED
    BY <1>4
<1> HIDE DEF begin
<1>6. \A j \in 1 .. n + 1 : begin[j] = IF j = 1 THEN 0 ELSE begin[j-1] + s.stages[j-1].len
  BY <1>5
<1> DEFINE T == {k \in 0 .. n : begin[k+1] = ends[k]}
<1>7. 0 \in T
  BY <1>2, <1>6
<1>8. ASSUME NEW k \in 1 .. n, k - 1 \in T
      PROVE  k \in T
  <2>1. begin[k] = ends[k-1]
    <3>1. (k - 1) + 1 = k
      BY <1>2
    <3> QED
      BY <1>8, <3>1
  <2>2. k + 1 \in 1 .. n + 1 /\ k + 1 # 1 /\ (k + 1) - 1 = k
    BY <1>2
  <2>3. begin[k+1] = begin[k] + s.stages[k].len
    BY <1>6, <2>2
  <2> QED
    BY <1>2, <2>1, <2>3
<1>9. T = 0 .. n
  <2>1. T \in SUBSET (0 .. n)
    OBVIOUS
  <2> HIDE DEF T
  <2> QED
    BY <1>2, <1>7, <1>8, <2>1, UpTo
<1>10. i - 1 \in 0 .. n /\ (i - 1) + 1 = i
  BY <1>2 DEF n
<1>11. begin[i] = ends[i-1]
  BY <1>9, <1>10
<1> QED
  BY <1>1, <1>3, <1>11

\* Round is off by no more than a half.
LEMMA RoundIsNearest ==
  ASSUME NEW a \in Int, NEW b \in Nat \ {0}
  PROVE  2 * (Round(a, b) * b - a) <= b /\ -2 * (Round(a, b) * b - a) <= b
<1>1. CASE a >= 0
  <2>1. PICK q : q = (2 * a + b) \div (2 * b)
    OBVIOUS
  <2>2. q \in Int /\ (2 * b) * q <= 2 * a + b /\ 2 * a + b < (2 * b) * (q + 1)
    BY <2>1
  <2>3. Round(a, b) = q
    BY <1>1, <2>1 DEF Round
  <2>4. (2 * b) * q = 2 * (q * b) /\ (2 * b) * (q + 1) = 2 * (q * b) + 2 * b /\ q * b \in Int
    BY <2>2
  <2> QED
    BY <2>2, <2>3, <2>4
<1>2. CASE a < 0
  <2>1. PICK q : q = (b - 2 * a) \div (2 * b)
    OBVIOUS
  <2>2. q \in Int /\ (2 * b) * q <= b - 2 * a /\ b - 2 * a < (2 * b) * (q + 1)
    BY <2>1
  <2>3. Round(a, b) = -q
    BY <1>2, <2>1 DEF Round
  <2>4. (2 * b) * q = 2 * (q * b) /\ (2 * b) * (q + 1) = 2 * (q * b) + 2 * b /\ q * b \in Int /\ (-q) * b = -(q * b)
    BY <2>2
  <2> QED
    BY <2>2, <2>3, <2>4
<1> QED
  BY <1>1, <1>2

\* For every plan and every second, the VU count is the integer nearest to the
\* straight line of the stage that second falls into, and the last target when
\* all stages are over (schedule.go: TargetAt).
THEOREM TargetOnRamp ==
  ASSUME NEW s \in Schedules, NEW t \in Nat
  PROVE  OnRamp(s, t)
<1> DEFINE n == Len(s.stages)
<1>1. n \in Nat /\ \A i \in 1 .. n + 1 : Before(s, i) = StageEnds(s)[i-1]
  BY BeforeIs, StagesType
<1>2. /\ StageEnds(s) \in [0 .. n -> Int] /\ StageEnds(s)[0] = 0
      /\ \A i \in 1 .. n : StageEnds(s)[i] = StageEnds(s)[i-1] + s.stages[i].len
  BY StageEndsFacts
<1>3. CASE TargetAt(s, t) = StageFrom(s, n + 1) /\ \A i \in 1 .. n : ~(t < StageEnds(s)[i])
  <2>1. Before(s, n + 1) = StageEnds(s)[n]
    <3>1. n + 1 \in 1 .. n + 1 /\ (n + 1) - 1 = n
      BY <1>1
    <3> QED
      BY <1>1, <3>1
  <2>2. t >= StageEnds(s)[n]
    <3>1. CASE n = 0
      BY <1>2, <3>1
    <3>2. CASE n # 0
      <4>1. n \in 1 .. n /\ n \in 0 .. n
        BY <1>1, <3>2
      <4>2. StageEnds(s)[n] \in Int /\ ~(t < StageEnds(s)[n])
        BY <1>2, <1>3, <4>1
      <4> QED
        BY <4>2
    <3> QED
      BY <3>1, <3>2
  <2>3. StageFrom(s, n + 1) = IF n = 0 THEN s.start ELSE s.stages[n].target
    <3>1. (n + 1) - 1 = n /\ (n + 1 = 1 <=> n = 0)
      BY <1>1
    <3> QED
      BY <3>1 DEF StageFrom
  <2> QED
    BY <1>3, <2>1, <2>2, <2>3 DEF OnRamp
<1>4. ASSUME NEW i \in 1 .. n, TargetAt(s, t) = TargetIn(s, i, t), t < StageEnds(s)[i],
             i = 1 \/ (i - 1 \in 1 .. n /\ ~(t < StageEnds(s)[i-1]))
      PROVE  OnRamp(s, t)
  <2>1. PICK len, from, target, begin :
          len = s.stages[i].len /\ target = s.stages[i].target /\ from = StageFrom(s, i) /\ begin = StageEnds(s)[i-1]
    OBVIOUS
  <2>2. i \in 1 .. n + 1 /\ i + 1 \in 1 .. n + 1 /\ (i + 1) - 1 = i /\ i - 1 \in 0 .. n /\ (i # 1 => i - 1 \in 1 .. n)
    BY <1>1
  <2>3. from = (IF i = 1 THEN s.start ELSE s.stages[i-1].target) /\ from \in Int
    BY <2>1, <2>2, StagesType DEF StageFrom
  <2>4. len \in Int /\ target \in Int /\ begin \in Int /\ StageEnds(s)[i] = begin + len
    BY <1>2, <2>1, <2>2, StagesType
  <2>5. Before(s, i) = begin /\ Before(s, i + 1) = begin + len
    BY <1>1, <2>1, <2>2, <2>4
  <2>6. begin <= t
    <3>1. CASE i = 1
      BY <1>2, <2>1, <3>1
    <3>2. CASE i # 1
      BY <1>4, <2>1, <2>4, <3>2
    <3> QED
      BY <3>1, <3>2
  <2>7. t < begin + len /\ len \in Nat \ {0}
    BY <1>4, <2>4, <2>6
  <2>8. PICK a : a = from * len + (t - begin) * (target - from)
    OBVIOUS
  <2>9. a \in Int
    <3>1. t - begin \in Int
      BY <2>4
    <3> QED
      BY <2>3, <2>4, <2>8, <3>1, RampType
  <2>10. TargetAt(s, t) = Round(a, len) /\ Round(a, len) \in Int
    <3>1. TargetIn(s, i, t) = Round(a, len)
      BY <2>1, <2>7, <2>8 DEF TargetIn
    <3> QED
      BY <1>4, <2>7, <2>9, <3>1, RoundType
  <2>11. PICK v : v = Round(a, len)
    OBVIOUS
  <2>12. 2 * (v * len - a) <= len /\ -2 * (v * len - a) <= len /\ v \in Int
    BY <2>7, <2>9, <2>10, <2>11, RoundIsNearest
  <2>13. (v - from) * len - (t - begin) * (target - from) = v * len - a
    <3>1. (v - from) * len = v * len - from * len /\ v * len \in Int /\ from * len \in Int
      BY <2>3, <2>4, <2>12
    <3>2. PICK d : d = (t - begin) * (target - from)
      OBVIOUS
    <3>3. d \in Int
      <4>1. t - begin \in Int /\ target - from \in Int
        BY <2>3, <2>4
      <4> QED
        BY <3>2, <4>1
    <3> QED
      BY <2>8, <3>1, <3>2, <3>3
  <2>14. TargetAt(s, t) = v
    BY <2>10, <2>11
  <2>15. /\ Before(s, i) <= t /\ t < Before(s, i + 1)
         /\ 2 * ((TargetAt(s, t) - from) * len - (t - Before(s, i)) * (target - from)) <= len
         /\ -2 * ((TargetAt(s, t) - from) * len - (t - Before(s, i)) * (target - from)) <= len
    BY <2>5, <2>6, <2>7, <2>12, <2>13, <2>14
  <2> QED
    BY <2>1, <2>3, <2>15 DEF OnRamp
<1> QED
  BY <1>3, <1>4, OpenStage

-----------------------------------------------------------------------------
(* The load of a scenario                                                  *)

\* The interpolation of a stage stays below the peak, with negative numbers too.
LEMMA RampBelow ==
  ASSUME NEW from \in Int, NEW target \in Int, NEW len \in Nat, NEW d \in 0 .. len,
         NEW peak \in Int, from <= peak, target <= peak
  PROVE  from * len + d * (target - from) <= peak * len
<1>1. PICK r, x, y : r = len - d /\ x = peak - from /\ y = peak - target
  OBVIOUS
<1>2. r \in Nat /\ x \in Nat /\ y \in Nat /\ d \in Nat /\ len = r + d /\ from = peak - x /\ target = peak - y
  BY <1>1
<1>3. from * len + d * (target - from) = peak * len - (x * r + y * d)
  BY <1>2
<1>4. x * r \in Nat /\ y * d \in Nat /\ peak * len \in Int
  BY <1>2
<1> QED
  BY <1>3, <1>4

\* So does its rounding.
LEMMA RoundBelow ==
  ASSUME NEW a \in Int, NEW b \in Nat \ {0}, NEW peak \in Int, a <= peak * b
  PROVE  Round(a, b) <= peak
<1>1. PICK q : q = Round(a, b)
  OBVIOUS
<1>2. q \in Int /\ 2 * (q * b - a) <= b
  BY <1>1, RoundType, RoundIsNearest
<1> SUFFICES ASSUME q >= peak + 1
             PROVE  FALSE
  BY <1>1, <1>2
<1>3. PICK e : e = q - (peak + 1)
  OBVIOUS
<1>4. e \in Nat /\ q = peak + 1 + e
  BY <1>2, <1>3
<1>5. q * b = peak * b + b + e * b /\ e * b \in Nat /\ peak * b \in Int /\ q * b \in Int
  BY <1>2, <1>4
<1> QED
  BY <1>2, <1>5

\* A schedule never asks for more VUs than its peak.
LEMMA NeverAbovePeak ==
  ASSUME NEW s \in Schedules, NEW t \in Nat
  PROVE  TargetAt(s, t) <= PeakVUs(s)
<1>1. PICK peak : peak = PeakVUs(s)
  OBVIOUS
<1>2. peak \in Int
  BY <1>1, PeakIsPeak, StagesType
<1>3. ASSUME NEW i \in 1 .. Len(s.stages) + 1
      PROVE  StageFrom(s, i) \in Int /\ StageFrom(s, i) <= peak
  <2>1. CASE i = 1
    BY <1>1, <2>1, PeakIsPeak, StagesType DEF StageFrom
  <2>2. CASE i # 1
    <3>1. i - 1 \in 1 .. Len(s.stages)
      BY <2>2, StagesType
    <3> QED
      BY <1>1, <2>2, <3>1, PeakIsPeak, StagesType DEF StageFrom
  <2> QED
    BY <2>1, <2>2
<1>4. ASSUME NEW i \in 1 .. Len(s.stages), t < StageEnds(s)[i],
             i = 1 \/ (i - 1 \in 1 .. Len(s.stages) /\ ~(t < StageEnds(s)[i-1]))
      PROVE  TargetIn(s, i, t) <= peak
  <2>1. Len(s.stages) \in Nat /\ i \in 1 .. Len(s.stages) + 1 /\ i - 1 \in 0 .. Len(s.stages)
    BY StagesType
  <2>2. PICK len, from, target, begin :
          len = s.stages[i].len /\ target = s.stages[i].target /\ from = StageFrom(s, i) /\ begin = StageEnds(s)[i-1]
    OBVIOUS
  <2>3. begin \in Int /\ StageEnds(s)[i] = begin + len /\ len \in Int
    BY <2>1, <2>2, StageEndsFacts, StagesType
  <2>4. from \in Int /\ from <= peak /\ target \in Int /\ target <= peak
    BY <1>1, <1>3, <2>1, <2>2, PeakIsPeak, StagesType
  <2>5. begin <= t
    <3>1. CASE i = 1
      BY <2>2, <3>1, StageEndsFacts
    <3>2. CASE i # 1
      BY <1>4, <2>2, <2>3, <3>2
    <3> QED
      BY <3>1, <3>2
  <2>6. t - begin \in 0 .. len /\ len \in Nat \ {0}
    BY <1>4, <2>2, <2>3, <2>5
  <2>7. PICK a : a = from * len + (t - begin) * (target - from)
    OBVIOUS
  <2>8. a \in Int /\ a <= peak * len
    <3>1. t - begin \in Int
      BY <2>3
    <3>2. a \in Int
      BY <2>3, <2>4, <2>7, <3>1, RampType
    <3> QED
      BY <1>2, <2>4, <2>6, <2>7, <3>2, RampBelow
  <2>9. Round(a, len) <= peak
    BY <1>2, <2>6, <2>8, RoundBelow
  <2>10. TargetIn(s, i, t) = Round(a, len)
    BY <2>2, <2>6, <2>7 DEF TargetIn
  <2> QED
    BY <2>9, <2>10
<1>5. Len(s.stages) + 1 \in 1 .. Len(s.stages) + 1
  BY StagesType
<1> QED
  BY <1>1, <1>3, <1>4, <1>5, OpenStage

\* A steady load has one VU count, and lasts as long as it says.
LEMMA SteadyIs ==
  ASSUME NEW v \in Int, NEW len \in Int
  PROVE  /\ Steady(v, len) \in Schedules /\ Duration(Steady(v, len)) = len
         /\ \A t \in Nat : TargetAt(Steady(v, len), t) = v
<1>1. PICK s : s = Steady(v, len)
  OBVIOUS
<1>2. s.start = v /\ s.stages = <<[len |-> len, target |-> v]>> /\ s = [start |-> s.start, stages |-> s.stages]
  BY <1>1 DEF Steady
<1>3. Len(s.stages) = 1 /\ s.stages[1] = [len |-> len, target |-> v]
  BY <1>2
<1>4. s \in Schedules
  <2>1. PICK Stage : Stage = [len: Int, target: Int]
    OBVIOUS
  <2>2. [len |-> len, target |-> v] \in Stage
    BY <2>1
  <2>3. s.stages \in Seq(Stage)
    BY <1>2, <2>2
  <2> QED
    BY <1>2, <2>1, <2>3 DEF Schedules
<1>5. StageEnds(s)[0] = 0 /\ StageEnds(s)[1] = len
  <2>1. StageEnds(s)[1] = StageEnds(s)[1-1] + s.stages[1].len
    BY <1>3, <1>4, StageEndsFacts
  <2>2. StageEnds(s)[0] = 0
    BY <1>4, StageEndsFacts
  <2> QED
    BY <1>3, <2>1, <2>2
<1>6. Duration(s) = len
  BY <1>3, <1>5 DEF Duration
<1>7. ASSUME NEW t \in Nat
      PROVE  TargetAt(s, t) = v
  <2>1. CASE TargetAt(s, t) = StageFrom(s, Len(s.stages) + 1)
    <3>1. (Len(s.stages) + 1) # 1 /\ (Len(s.stages) + 1) - 1 = 1
      BY <1>3
    <3>2. StageFrom(s, Len(s.stages) + 1) = s.stages[1].target
      BY <3>1 DEF StageFrom
    <3> QED
      BY <1>3, <2>1, <3>2
  <2>2. CASE TargetAt(s, t) = TargetIn(s, 1, t)
    <3>1. StageFrom(s, 1) = v /\ s.stages[1].len = len /\ s.stages[1].target = v
      BY <1>2, <1>3 DEF StageFrom
    <3>2. CASE len <= 0
      BY <2>2, <3>1, <3>2 DEF TargetIn
    <3>3. CASE ~(len <= 0)
      <4>1. PICK a : a = v * len + (t - StageEnds(s)[1-1]) * (v - v)
        OBVIOUS
      <4>2. a = v * len /\ a \in Int
        BY <1>5, <4>1
      <4>3. TargetIn(s, 1, t) = Round(a, len)
        BY <3>1, <3>3, <4>1 DEF TargetIn
      <4>4. PICK q : q = Round(a, len)
        OBVIOUS
      <4>5. q \in Int /\ 2 * (q * len - a) <= len /\ -2 * (q * len - a) <= len /\ len \in Nat \ {0}
        BY <3>3, <4>2, <4>4, RoundType, RoundIsNearest
      <4>6. PICK d : d = q - v
        OBVIOUS
      <4>7. d \in Int /\ q * len - a = d * len /\ d * len \in Int
        BY <4>2, <4>5, <4>6
      <4>8. ~(d >= 1)
        <5> SUFFICES ASSUME d >= 1
                     PROVE  FALSE
          OBVIOUS
        <5>1. PICK e : e = d - 1
          OBVIOUS
        <5>2. e \in Nat /\ d * len = len + e * len /\ e * len \in Nat
          BY <4>5, <4>7, <5>1
        <5> QED
          BY <4>5, <4>7, <5>2
      <4>9. ~(d <= -1)
        <5> SUFFICES ASSUME d <= -1
                     PROVE  FALSE
          OBVIOUS
        <5>1. PICK e : e = -1 - d
          OBVIOUS
        <5>2. e \in Nat /\ d * len = -len - e * len /\ e * len \in Nat
          BY <4>5, <4>7, <5>1
        <5> QED
          BY <4>5, <4>7, <5>2
      <4> QED
        BY <2>2, <4>3, <4>4, <4>5, <4>6, <4>7, <4>8, <4>9
    <3> QED
      BY <3>2, <3>3
  <2>3. \A i \in 1 .. Len(s.stages) : i = 1
    BY <1>3
  <2> QED
    BY <1>4, <2>1, <2>2, <2>3, OpenStage
<1> QED
  BY <1>1, <1>4, <1>6, <1>7

\* The longest a run may be extended to is no shorter than its plan.
LEMMA RoomToExtend ==
  ASSUME NEW planned \in Int, NEW m \in Nat, NEW b \in Nat
  PROVE  planned <= MaxDurationFor(planned, m, b)
<1>1. PICK x : x = Max({planned \div 2, m})
  OBVIOUS
<1>2. x \in {planned \div 2, m} /\ x >= m
  <2>1. planned \div 2 \in Int
    OBVIOUS
  <2>2. \E y \in {planned \div 2, m} : \A z \in {planned \div 2, m} : y >= z
    <3>1. CASE planned \div 2 >= m
      BY <2>1, <3>1
    <3>2. CASE ~(planned \div 2 >= m)
      BY <2>1, <3>2
    <3> QED
      BY <3>1, <3>2
  <2> QED
    BY <1>1, <2>2 DEF Max
<1>3. x \in Nat
  <2>1. planned \div 2 \in Int
    OBVIOUS
  <2> QED
    BY <1>2, <2>1
<1>4. PICK y : y = Min({x, b})
  OBVIOUS
<1>5. y \in {x, b}
  <2>1. {x, b} \in SUBSET Nat /\ {x, b} # {}
    BY <1>3
  <2> QED
    BY <1>4, <2>1, MinIsLeast
<1>6. MaxDurationFor(planned, m, b) = planned + y
  BY <1>1, <1>4 DEF MaxDurationFor
<1> QED
  BY <1>3, <1>5, <1>6

\* The stages and the numbers a plan and the Run dialog may hold, negative ones
\* too: nothing keeps them out.
StageLists == Seq([len: Int, target: Int])
Loads == [executor: STRING, vus: Int, start: Int, maxVUs: Int, prealloc: Int, len: Int,
          stages: StageLists, rate: Int, iterations: Int]
RunOverrides == [vus: Int, len: Int, rps: Int, stages: StageLists]

\* The profile of a scenario is a schedule.
LEMMA ProfileType ==
  ASSUME NEW load \in Loads, NEW ov \in RunOverrides
  PROVE  ProfileFor(load, ov) \in Schedules
<1> DEFINE plan == IF load.executor = "ramping-vus"
                   THEN [start |-> load.start, stages |-> load.stages]
                   ELSE Steady(Given(load.vus, 1), Given(load.len, 30))
<1>1. /\ load.start \in Int /\ load.vus \in Int /\ load.len \in Int /\ load.stages \in StageLists
      /\ ov.vus \in Int /\ ov.len \in Int /\ ov.stages \in StageLists
  BY DEF Loads, RunOverrides
<1>2. plan \in Schedules
  <2>1. [start |-> load.start, stages |-> load.stages] \in Schedules
    BY <1>1 DEF Schedules, StageLists
  <2>2. Given(load.vus, 1) \in Int /\ Given(load.len, 30) \in Int
    BY <1>1 DEF Given
  <2>3. Steady(Given(load.vus, 1), Given(load.len, 30)) \in Schedules
    BY <2>2, SteadyIs
  <2> QED
    BY <2>1, <2>3
<1> HIDE DEF plan
<1>3. PeakVUs(plan) \in Int /\ Duration(plan) \in Int
  <2>1. PeakVUs(plan) \in Int
    BY <1>2, PeakIsPeak, StagesType
  <2>2. Len(plan.stages) \in 0 .. Len(plan.stages)
    BY <1>2, StagesType
  <2> QED
    BY <1>2, <2>1, <2>2, StageEndsFacts DEF Duration
<1>4. Steady(Given(ov.vus, PeakVUs(plan)), Given(ov.len, Duration(plan))) \in Schedules
  <2>1. Given(ov.vus, PeakVUs(plan)) \in Int /\ Given(ov.len, Duration(plan)) \in Int
    BY <1>1, <1>3 DEF Given
  <2> QED
    BY <2>1, SteadyIs
<1>5. [start |-> 0, stages |-> ov.stages] \in Schedules
  BY <1>1 DEF Schedules, StageLists
<1> QED
  BY <1>2, <1>4, <1>5 DEF ProfileFor, plan

\* Whatever a plan and the Run dialog say, the profile a run is started with is
\* followed within the limits compiled beside it: the VU count is never above
\* maxVUs, the plan ends within the longest duration, and the VU count and the
\* duration asked for in the dialog are those of the run, at every second
\* (compiler.go: profileFor, MaxDurationFor, emitScenario).
THEOREM LoadWithinLimits ==
  ASSUME NEW load \in Loads, NEW ov \in RunOverrides, NEW t \in Nat,
         NEW MinBuffer \in Nat, NEW MaxBuffer \in Nat
  PROVE  LET profile == ProfileFor(load, ov)
             maxVUs  == MaxVUsFor(load, profile)
         IN  /\ profile \in Schedules /\ maxVUs \in Nat \ {0} /\ PeakVUs(profile) <= maxVUs
             /\ OnRamp(profile, t)
             /\ Suits(profile, maxVUs, MaxDurationFor(Duration(profile), MinBuffer, MaxBuffer), ov, t)
<1>1. PICK profile, top : profile = ProfileFor(load, ov) /\ top = MaxVUsFor(load, profile)
  OBVIOUS
<1>2. profile \in Schedules
  BY <1>1, ProfileType
<1>3. PeakVUs(profile) \in Int /\ Duration(profile) \in Int
  <2>1. PeakVUs(profile) \in Int
    BY <1>2, PeakIsPeak, StagesType
  <2>2. Len(profile.stages) \in 0 .. Len(profile.stages)
    BY <1>2, StagesType
  <2> QED
    BY <1>2, <2>1, <2>2, StageEndsFacts DEF Duration
<1>4. top \in Nat \ {0} /\ PeakVUs(profile) <= top
  <2>1. load.maxVUs \in Int
    BY DEF Loads
  <2> QED
    BY <1>1, <1>3, <2>1 DEF MaxVUsFor, LongerOf
<1>5. TargetAt(profile, t) <= top
  BY <1>2, <1>3, <1>4, NeverAbovePeak, TargetAtType
<1>6. Duration(profile) <= MaxDurationFor(Duration(profile), MinBuffer, MaxBuffer)
  BY <1>3, RoomToExtend
<1>7. ASSUME ov.stages = <<>>
      PROVE  /\ ov.vus > 0 => TargetAt(profile, t) = ov.vus
             /\ ov.len > 0 => Duration(profile) = ov.len
  <2>1. CASE ov.vus > 0 \/ ov.len > 0
    <3> DEFINE plan == IF load.executor = "ramping-vus"
                       THEN [start |-> load.start, stages |-> load.stages]
                       ELSE Steady(Given(load.vus, 1), Given(load.len, 30))
    <3>1. PICK v, l : v = Given(ov.vus, PeakVUs(plan)) /\ l = Given(ov.len, Duration(plan))
      OBVIOUS
    <3>2. profile = Steady(v, l)
      BY <1>1, <1>7, <2>1, <3>1 DEF ProfileFor
    <3>3. profile.start = v /\ profile.stages[1].len = l /\ Len(profile.stages) = 1
      BY <3>2 DEF Steady
    <3>4. v \in Int /\ l \in Int
      BY <1>2, <3>3, StagesType
    <3>5. TargetAt(profile, t) = v /\ Duration(profile) = l
      BY <3>2, <3>4, SteadyIs
    <3> HIDE DEF plan
    <3> QED
      BY <3>1, <3>5 DEF Given
  <2>2. CASE ~(ov.vus > 0 \/ ov.len > 0)
    BY <2>2
  <2> QED
    BY <2>1, <2>2
<1>8. OnRamp(profile, t)
  BY <1>2, TargetOnRamp
<1>9. Suits(profile, top, MaxDurationFor(Duration(profile), MinBuffer, MaxBuffer), ov, t)
  BY <1>5, <1>6, <1>7 DEF Suits
<1> QED
  BY <1>1, <1>2, <1>4, <1>8, <1>9

-----------------------------------------------------------------------------
(* Chance                                                                  *)

\* The sums grow by the weights.
LEMMA SumsAre ==
  ASSUME NEW w \in Seq(Nat)
  PROVE  /\ SumsOf(w) \in [0 .. Len(w) -> Nat] /\ SumsOf(w)[0] = 0
         /\ \A i \in 1 .. Len(w) : SumsOf(w)[i] = SumsOf(w)[i-1] + w[i]
<1> DEFINE n == Len(w)
           Sums(g) == g = [i \in 0 .. n |-> IF i = 0 THEN 0 ELSE g[i-1] + w[i]]
           F == [i \in 1 .. n |-> [x \in Nat |-> x + w[i]]]
<1>1. n \in Nat /\ \A i \in 1 .. n : w[i] \in Nat
  OBVIOUS
<1>2. \A i \in 1 .. n : \A x \in Nat : F[i][x] \in Nat
  BY <1>1
<1>3. PICK f \in [0 .. n -> Nat] : f[0] = 0 /\ \A i \in 1 .. n : f[i] = F[i][f[i-1]]
  <2> HIDE DEF F, n
  <2>1. StaysIn(F, n, Nat)
    BY <1>2 DEF StaysIn
  <2>2. \E f : MadeBy(f, F, n, Nat, 0)
    BY <1>1, <2>1, StepByStep
  <2> QED
    BY <2>2 DEF MadeBy
<1>4. ASSUME NEW i \in 1 .. n
      PROVE  f[i] = f[i-1] + w[i]
  <2>1. i - 1 \in 0 .. n
    BY <1>1
  <2>2. f[i-1] \in Nat /\ f[i] = F[i][f[i-1]]
    BY <1>3, <2>1
  <2> QED
    BY <2>2
<1> HIDE DEF F
<1>5. Sums(f)
  <2>1. \A i \in 0 .. n : f[i] = IF i = 0 THEN 0 ELSE f[i-1] + w[i]
    BY <1>1, <1>3, <1>4
  <2> QED
    BY <2>1
<1>6. SumsOf(w) = CHOOSE g : Sums(g)
  BY DEF SumsOf
<1>7. Sums(SumsOf(w))
  <2> HIDE DEF Sums
  <2> QED
    BY <1>5, <1>6
<1>8. PICK g : g = SumsOf(w)
  OBVIOUS
<1>9. g = [i \in 0 .. n |-> IF i = 0 THEN 0 ELSE g[i-1] + w[i]]
  BY <1>7, <1>8
<1> HIDE DEF n
<1>10. g[0] = 0 /\ \A i \in 1 .. n : g[i] = g[i-1] + w[i]
  BY <1>1, <1>9
<1>11. \A i \in 0 .. n : g[i] \in Nat
  <2>1. PICK S : S = Nat
    OBVIOUS
  <2>2. g[0] \in Nat /\ \A i \in 1 .. n : g[i-1] \in Nat => g[i] \in Nat
    <3>1. ASSUME NEW i \in 1 .. n, g[i-1] \in Nat
          PROVE  g[i] \in Nat
      <4>1. PICK x, y : x = g[i-1] /\ y = w[i]
        OBVIOUS
      <4>2. x \in Nat /\ y \in Nat
        BY <1>1, <3>1, <4>1
      <4>3. g[i] = x + y
        BY <1>10, <4>1
      <4> QED
        BY <4>2, <4>3
    <3> QED
      BY <1>10, <3>1
  <2>3. \A i \in 0 .. n : g[i] \in S
    BY <1>1, <2>1, <2>2, StepsStay
  <2> QED
    BY <2>1, <2>3
<1>12. g \in [0 .. n -> Nat]
  BY <1>9, <1>11
<1> QED
  BY <1>8, <1>10, <1>12 DEF n

\* The sums do not fall from one branch to the next.
LEMMA SumsRise ==
  ASSUME NEW w \in Seq(Nat), NEW j \in 0 .. Len(w), NEW i \in 0 .. j
  PROVE  SumsOf(w)[i] <= SumsOf(w)[j]
<1>1. PICK n, s : n = Len(w) /\ s = SumsOf(w)
  OBVIOUS
<1>2. n \in Nat /\ s \in [0 .. n -> Nat] /\ \A k \in 1 .. n : s[k] = s[k-1] + w[k] /\ w[k] \in Nat
  <2>1. Len(w) \in Nat /\ \A k \in 1 .. Len(w) : w[k] \in Nat
    OBVIOUS
  <2> QED
    BY <1>1, <2>1, SumsAre
<1> DEFINE T == {k \in 0 .. n : \A l \in 0 .. k : s[l] <= s[k]}
<1>3. T \in SUBSET (0 .. n) /\ 0 \in T
  BY <1>2
<1>4. ASSUME NEW k \in 1 .. n, k - 1 \in T
      PROVE  k \in T
  <2>1. s[k] = s[k-1] + w[k] /\ w[k] \in Nat /\ k - 1 \in 0 .. n /\ s[k-1] \in Nat /\ s[k] \in Nat
    BY <1>2
  <2>2. ASSUME NEW l \in 0 .. k
        PROVE  s[l] <= s[k]
    <3>1. CASE l = k
      BY <2>1, <3>1
    <3>2. CASE l # k
      <4>1. l \in 0 .. k - 1 /\ s[l] \in Nat
        BY <1>2, <3>2
      <4>2. s[l] <= s[k-1]
        BY <1>4, <4>1
      <4> QED
        BY <2>1, <4>1, <4>2
    <3> QED
      BY <3>1, <3>2
  <2> QED
    BY <2>2
<1>5. T = 0 .. n
  <2> HIDE DEF T
  <2> QED
    BY <1>2, <1>3, <1>4, UpTo
<1> QED
  BY <1>1, <1>5

\* Of the whole numbers below the sum of the weights, the one drawn is in the
\* share of the branch that is taken, and of no other: each branch is taken for
\* as many of them as its weight (compiler.go: emitRandomController).
THEOREM BranchesByWeight ==
  ASSUME NEW w \in Seq(Nat), NEW i \in 1 .. Len(w)
  PROVE  /\ \A r \in 0 .. SumsOf(w)[Len(w)] - 1 : BranchTaken(Bounds(w), r) = i <=> r \in Share(w, i)
         /\ Cardinality(Share(w, i)) = w[i]
<1>1. PICK n, s : n = Len(w) /\ s = SumsOf(w)
  OBVIOUS
<1>2. /\ n \in Nat /\ s \in [0 .. n -> Nat] /\ s[0] = 0
      /\ \A k \in 1 .. n : s[k] = s[k-1] + w[k] /\ w[k] \in Nat
  <2>1. Len(w) \in Nat /\ \A k \in 1 .. Len(w) : w[k] \in Nat
    OBVIOUS
  <2> QED
    BY <1>1, <2>1, SumsAre
<1>3. i \in 1 .. n /\ i - 1 \in 0 .. n /\ i \in 0 .. n
  BY <1>1, <1>2
<1>4. s[i-1] \in Nat /\ s[i] \in Nat /\ s[i] = s[i-1] + w[i] /\ w[i] \in Nat
  BY <1>2, <1>3
<1>5. Share(w, i) = s[i-1] .. s[i] - 1
  BY <1>1 DEF Share
<1>6. Cardinality(Share(w, i)) = w[i]
  <2>1. PICK a, b : a = s[i-1] /\ b = s[i] - 1
    OBVIOUS
  <2>2. a \in Int /\ b \in Int
    BY <1>4, <2>1
  <2>3. Cardinality(a .. b) = IF a > b THEN 0 ELSE b - a + 1
    BY <2>2, FS_Interval
  <2> QED
    BY <1>4, <1>5, <2>1, <2>3
<1>7. ASSUME NEW r \in 0 .. s[n] - 1
      PROVE  BranchTaken(Bounds(w), r) = i <=> r \in Share(w, i)
  <2> DEFINE below == {k \in 1 .. n : r < s[k]}
  <2>1. Bounds(w) = [k \in 1 .. n |-> s[k]]
    BY <1>1 DEF Bounds
  <2>2. Len(Bounds(w)) = n /\ \A k \in 1 .. n : Bounds(w)[k] = s[k]
    BY <1>2, <2>1
  <2>3. BranchTaken(Bounds(w), r) = IF below # {} THEN Min(below) ELSE IF n = 1 THEN 0 ELSE n
    <3>1. {k \in 1 .. Len(Bounds(w)) : r < Bounds(w)[k]} = below
      BY <2>2
    <3> QED
      BY <2>2, <3>1 DEF BranchTaken
  <2>4. n \in below
    BY <1>2, <1>3
  <2>5. PICK m : m = Min(below)
    OBVIOUS
  <2>6. m \in below /\ \A k \in below : m <= k
    <3>1. 1 .. n \in SUBSET Nat /\ below \in SUBSET (1 .. n)
      BY <1>2
    <3>2. below # {}
      BY <2>4
    <3> HIDE DEF below
    <3> QED
      BY <2>5, <3>1, <3>2, MinIsLeast
  <2>7. m \in 1 .. n /\ m \in 0 .. n /\ r < s[m] /\ r \in Nat
    BY <2>6, <1>2
  <2>8. BranchTaken(Bounds(w), r) = m
    BY <2>3, <2>4, <2>5
  <2>9. ASSUME m = i
        PROVE  r \in s[i-1] .. s[i] - 1
    <3>1. s[i-1] <= r
      <4>1. CASE i = 1
        BY <1>2, <2>7, <4>1
      <4>2. CASE i # 1
        <5>1. i - 1 \in 1 .. n /\ ~(m <= i - 1)
          BY <1>2, <1>3, <2>9, <4>2
        <5>2. ~(r < s[i-1])
          BY <2>6, <5>1
        <5> QED
          BY <1>4, <2>7, <5>2
      <4> QED
        BY <4>1, <4>2
    <3> QED
      BY <1>4, <2>7, <2>9, <3>1
  <2>10. ASSUME r \in s[i-1] .. s[i] - 1
         PROVE  m = i
    <3>1. r < s[i] /\ s[i-1] <= r
      BY <1>4, <2>10
    <3>2. m <= i
      BY <1>3, <2>6, <3>1
    <3>3. ~(m <= i - 1)
      <4> SUFFICES ASSUME m <= i - 1
                   PROVE  FALSE
        OBVIOUS
      <4>1. m \in 0 .. i - 1 /\ i - 1 \in 0 .. Len(w)
        BY <1>1, <1>2, <1>3, <2>7
      <4>2. s[m] <= s[i-1]
        BY <1>1, <4>1, SumsRise
      <4>3. s[m] \in Nat
        BY <1>2, <2>7
      <4> QED
        BY <1>4, <2>7, <3>1, <4>2, <4>3
    <3> QED
      BY <1>3, <2>7, <3>2, <3>3
  <2> QED
    BY <1>5, <2>8, <2>9, <2>10
<1> QED
  BY <1>1, <1>6, <1>7

-----------------------------------------------------------------------------
(* The keys of the scenarios                                               *)

\* A name that was taken, as the i-th scenario has it.
Numbered(name, i) == name \o <<"-", ToString(i)>>

\* Names with two different numbers are different.
LEMMA NumbersApart ==
  ASSUME NEW L, NEW u \in Seq(L), NEW v \in Seq(L), NEW i, NEW j, Numbered(u, i) = Numbered(v, j)
  PROVE  ToString(i) = ToString(j)
<1>1. PICK U : U = L \cup {"-", ToString(i), ToString(j)}
  OBVIOUS
<1>2. Len(u) \in Nat /\ Len(v) \in Nat /\ u \in Seq(U) /\ v \in Seq(U)
  BY <1>1
<1>3. <<"-", ToString(i)>> \in Seq(U) /\ <<"-", ToString(j)>> \in Seq(U)
  BY <1>1
<1>4. /\ Len(u \o <<"-", ToString(i)>>) = Len(u) + 2 /\ (u \o <<"-", ToString(i)>>)[Len(u) + 2] = ToString(i)
      /\ Len(v \o <<"-", ToString(j)>>) = Len(v) + 2 /\ (v \o <<"-", ToString(j)>>)[Len(v) + 2] = ToString(j)
  BY <1>2, <1>3
<1>5. u \o <<"-", ToString(i)>> = v \o <<"-", ToString(j)>>
  BY DEF Numbered
<1> QED
  BY <1>2, <1>4, <1>5

\* What the loop over the keys so far makes of a name, where none of them is
\* the name with its number.
LEMMA UniqueKeyIs ==
  ASSUME NEW name, NEW keys, NEW i \in Nat \ {0}, Len(keys) = i - 1,
         \A j \in 1 .. i - 1 : keys[j] # Numbered(name, i)
  PROVE  UniqueKey(name, keys) = IF \E j \in 1 .. i - 1 : keys[j] = name THEN Numbered(name, i) ELSE name
<1>0. (i - 1) + 1 = i
  OBVIOUS
<1>1. PICK n, other : n = Len(keys) /\ other = Numbered(name, n + 1)
  OBVIOUS
<1>2. n \in Nat /\ \A j \in 1 .. n : keys[j] # other
  BY <1>0, <1>1
<1> DEFINE Loops(g) == g = [l \in 0 .. n |->
                              IF l = 0 THEN name
                              ELSE IF keys[l] = g[l-1] THEN g[l-1] \o <<"-", ToString(n + 1)>> ELSE g[l-1]]
           f == [l \in 0 .. n |-> IF \E j \in 1 .. l : keys[j] = name THEN other ELSE name]
<1>3. other = name \o <<"-", ToString(n + 1)>>
  BY <1>1 DEF Numbered
<1>4. f[0] = name /\ f[n] = IF \E j \in 1 .. n : keys[j] = name THEN other ELSE name
  BY <1>2
<1>5. ASSUME NEW l \in 1 .. n
      PROVE  f[l] = IF keys[l] = f[l-1] THEN f[l-1] \o <<"-", ToString(n + 1)>> ELSE f[l-1]
  <2>1. l - 1 \in 0 .. n /\ l \in 0 .. n /\ \A j \in 1 .. l : j = l \/ j \in 1 .. l - 1
    BY <1>2
  <2>2. \A j \in 1 .. l - 1 : j \in 1 .. l
    BY <1>2
  <2>3. /\ f[l-1] = IF \E j \in 1 .. l - 1 : keys[j] = name THEN other ELSE name
        /\ f[l] = IF \E j \in 1 .. l : keys[j] = name THEN other ELSE name
    BY <2>1
  <2> HIDE DEF f
  <2>4. CASE \E j \in 1 .. l - 1 : keys[j] = name
    <3>1. f[l-1] = other /\ f[l] = other
      BY <2>2, <2>3, <2>4
    <3> QED
      BY <1>2, <3>1
  <2>5. CASE ~\E j \in 1 .. l - 1 : keys[j] = name
    <3>1. f[l-1] = name
      BY <2>3, <2>5
    <3>2. CASE keys[l] = name
      <4>1. l \in 1 .. l
        BY <1>2
      <4>2. f[l] = other
        BY <2>3, <3>2, <4>1
      <4> QED
        BY <1>3, <3>1, <3>2, <4>2
    <3>3. CASE keys[l] # name
      <4>1. f[l] = name
        BY <2>1, <2>3, <2>5, <3>3
      <4> QED
        BY <3>1, <3>3, <4>1
    <3> QED
      BY <3>2, <3>3
  <2> QED
    BY <2>4, <2>5
<1>6. Loops(f)
  <2>1. f = [l \in 0 .. n |-> f[l]]
    OBVIOUS
  <2>2. \A l \in 0 .. n : l = 0 \/ l \in 1 .. n
    BY <1>2
  <2> HIDE DEF f
  <2>3. \A l \in 0 .. n : f[l] = IF l = 0 THEN name
                                 ELSE IF keys[l] = f[l-1] THEN f[l-1] \o <<"-", ToString(n + 1)>> ELSE f[l-1]
    BY <1>4, <1>5, <2>2
  <2> QED
    BY <2>1, <2>3
<1>7. UniqueKey(name, keys) = (CHOOSE g : Loops(g))[n]
  BY <1>1 DEF UniqueKey
<1>8. PICK g : g = CHOOSE h : Loops(h)
  OBVIOUS
<1>9. Loops(g)
  <2> HIDE DEF Loops
  <2> QED
    BY <1>6, <1>8
<1>10. g[0] = name /\ \A l \in 1 .. n : g[l] = IF keys[l] = g[l-1] THEN g[l-1] \o <<"-", ToString(n + 1)>> ELSE g[l-1]
  <2>1. 0 \in 0 .. n /\ \A l \in 1 .. n : l \in 0 .. n /\ l # 0
    BY <1>2
  <2> QED
    BY <1>9, <2>1
<1> DEFINE T == {k \in 0 .. n : g[k] = f[k]}
<1>11. n \in T
  <2> HIDE DEF f, Loops
  <2>1. T \in SUBSET (0 .. n) /\ 0 \in T
    BY <1>2, <1>4, <1>10
  <2>2. ASSUME NEW k \in 1 .. n, k - 1 \in T
        PROVE  k \in T
    <3>1. g[k-1] = f[k-1] /\ k \in 0 .. n
      BY <1>2, <2>2
    <3>2. g[k] = f[k]
      BY <1>5, <1>10, <3>1
    <3> QED
      BY <3>1, <3>2
  <2> HIDE DEF T
  <2>3. T = 0 .. n
    BY <1>2, <2>1, <2>2, UpTo
  <2> QED
    BY <1>2, <2>3
<1> HIDE DEF f, Loops
<1> QED
  BY <1>0, <1>1, <1>4, <1>7, <1>8, <1>11

\* The key of each name alone: a name that came before takes its number.
KeyOf(names, i) ==
  IF \E j \in 1 .. i - 1 : names[j] = names[i] THEN Numbered(names[i], i) ELSE names[i]

\* A name has been seen as a name when it has been seen as a key.
LEMMA SeenAsKey ==
  ASSUME NEW names, NEW n \in Nat, NEW i \in 1 .. n,
         \A j, k, m \in 1 .. n : names[j] # Numbered(names[k], m)
  PROVE  (\E j \in 1 .. i - 1 : KeyOf(names, j) = names[i]) <=> \E j \in 1 .. i - 1 : names[j] = names[i]
<1>1. ASSUME NEW j \in 1 .. i - 1, KeyOf(names, j) = names[i]
      PROVE  names[j] = names[i]
  <2>1. j \in 1 .. n
    OBVIOUS
  <2> QED
    BY <1>1, <2>1 DEF KeyOf
<1>2. ASSUME NEW j \in 1 .. i - 1, names[j] = names[i]
      PROVE  \E k \in 1 .. i - 1 : KeyOf(names, k) = names[i]
  <2> DEFINE S == {k \in 1 .. i - 1 : names[k] = names[i]}
  <2>1. S \in SUBSET Nat /\ S # {}
    BY <1>2
  <2>2. PICK k \in S : \A l \in S : k <= l
    <3> HIDE DEF S
    <3> QED
      BY <2>1, LeastNumber
  <2>3. k \in 1 .. i - 1 /\ names[k] = names[i]
    OBVIOUS
  <2>4. ~\E l \in 1 .. k - 1 : names[l] = names[k]
    <3> SUFFICES ASSUME NEW l \in 1 .. k - 1, names[l] = names[k]
                 PROVE  FALSE
      OBVIOUS
    <3>1. l \in 1 .. i - 1 /\ ~(k <= l)
      BY <2>3
    <3>2. l \in S
      BY <2>3, <3>1
    <3> QED
      BY <2>2, <3>1, <3>2
  <2>5. KeyOf(names, k) = names[i]
    BY <2>3, <2>4 DEF KeyOf
  <2> QED
    BY <2>3, <2>5
<1> QED
  BY <1>1, <1>2

\* Where no name is another followed by a dash and a number, the key of a
\* scenario is its name, or its name and its number if the name came before.
LEMMA KeysAre ==
  ASSUME NEW L, NEW names \in Seq(Seq(L)),
         \A j, k, m \in 1 .. Len(names) : names[j] # Numbered(names[k], m),
         \A i, j \in 1 .. Len(names) : ToString(i) = ToString(j) => i = j
  PROVE  KeysOf(names) = [i \in 1 .. Len(names) |-> KeyOf(names, i)]
<1>1. PICK n : n = Len(names)
  OBVIOUS
<1>2. n \in Nat /\ \A i \in 1 .. n : names[i] \in Seq(L)
  <2>1. PICK N : N = Seq(L)
    OBVIOUS
  <2>2. \A i \in 1 .. Len(names) : names[i] \in N
    BY <2>1
  <2> QED
    BY <1>1, <2>1, <2>2
<1> DEFINE Keys(g) == g = [i \in 0 .. n |-> IF i = 0 THEN <<>> ELSE Append(g[i-1], UniqueKey(names[i], g[i-1]))]
           Upto(i) == [j \in 1 .. i |-> KeyOf(names, j)]
           f == [i \in 0 .. n |-> Upto(i)]
<1>3. ASSUME NEW i \in 1 .. n
      PROVE  Upto(i) = Append(Upto(i-1), UniqueKey(names[i], Upto(i-1)))
  <2>1. PICK u : u = Upto(i-1)
    OBVIOUS
  <2>2. Len(u) = i - 1 /\ \A j \in 1 .. i - 1 : u[j] = KeyOf(names, j)
    BY <1>2, <2>1
  <2>3. i \in Nat \ {0}
    BY <1>2
  <2>4. \A j \in 1 .. i - 1 : KeyOf(names, j) # Numbered(names[i], i)
    <3>1. ASSUME NEW j \in 1 .. i - 1
          PROVE  KeyOf(names, j) # Numbered(names[i], i)
      <4>1. j \in 1 .. n /\ j # i
        BY <1>2
      <4>2. names[i] # Numbered(names[j], j) /\ names[j] # Numbered(names[i], i)
        BY <1>1, <4>1
      <4>3. Numbered(names[j], j) # Numbered(names[i], i)
        BY <1>1, <1>2, <4>1, NumbersApart
      <4> QED
        BY <4>2, <4>3 DEF KeyOf
    <3> QED
      BY <3>1
  <2>5. UniqueKey(names[i], u) = IF \E j \in 1 .. i - 1 : u[j] = names[i] THEN Numbered(names[i], i) ELSE names[i]
    <3>1. PICK name : name = names[i]
      OBVIOUS
    <3>2. Len(u) = i - 1 /\ \A j \in 1 .. i - 1 : u[j] # Numbered(name, i)
      BY <2>2, <2>4, <3>1
    <3>3. UniqueKey(name, u) = IF \E j \in 1 .. i - 1 : u[j] = name THEN Numbered(name, i) ELSE name
      BY <2>3, <3>2, UniqueKeyIs
    <3> QED
      BY <3>1, <3>3
  <2>6. UniqueKey(names[i], u) = KeyOf(names, i)
    <3>1. (\E j \in 1 .. i - 1 : u[j] = names[i]) <=> \E j \in 1 .. i - 1 : names[j] = names[i]
      BY <1>1, <1>2, <2>2, SeenAsKey
    <3> QED
      BY <2>5, <3>1 DEF KeyOf
  <2>7. Append(u, KeyOf(names, i)) = Upto(i)
    BY <1>2, <2>1
  <2> QED
    BY <2>1, <2>6, <2>7
<1>4. Upto(0) = <<>>
  OBVIOUS
<1> HIDE DEF Upto
<1>5. Keys(f)
  <2>1. ASSUME NEW i \in 0 .. n
        PROVE  f[i] = IF i = 0 THEN <<>> ELSE Append(f[i-1], UniqueKey(names[i], f[i-1]))
    <3>1. CASE i = 0
      BY <1>4, <3>1
    <3>2. CASE i # 0
      <4>1. i \in 1 .. n /\ i - 1 \in 0 .. n
        BY <1>2, <3>2
      <4>2. f[i] = Upto(i) /\ f[i-1] = Upto(i-1)
        BY <4>1
      <4> QED
        BY <1>3, <3>2, <4>1, <4>2
    <3> QED
      BY <3>1, <3>2
  <2>2. f = [i \in 0 .. n |-> f[i]]
    OBVIOUS
  <2> HIDE DEF f
  <2> QED
    BY <2>1, <2>2
<1>6. KeysOf(names) = (CHOOSE g : Keys(g))[n]
  BY <1>1 DEF KeysOf
<1>7. PICK g : g = CHOOSE h : Keys(h)
  OBVIOUS
<1>8. Keys(g)
  <2> HIDE DEF Keys
  <2> QED
    BY <1>5, <1>7
<1>9. g[0] = <<>> /\ \A i \in 1 .. n : g[i] = Append(g[i-1], UniqueKey(names[i], g[i-1]))
  <2>1. 0 \in 0 .. n /\ \A i \in 1 .. n : i \in 0 .. n /\ i # 0
    BY <1>2
  <2> QED
    BY <1>8, <2>1
<1> DEFINE T == {k \in 0 .. n : g[k] = Upto(k)}
<1>10. n \in T
  <2> HIDE DEF f, Keys
  <2>1. T \in SUBSET (0 .. n) /\ 0 \in T
    BY <1>2, <1>4, <1>9
  <2>2. ASSUME NEW k \in 1 .. n, k - 1 \in T
        PROVE  k \in T
    <3>1. g[k-1] = Upto(k-1) /\ k \in 0 .. n
      BY <1>2, <2>2
    <3>2. g[k] = Upto(k)
      BY <1>3, <1>9, <3>1
    <3> QED
      BY <3>1, <3>2
  <2> HIDE DEF T
  <2>3. T = 0 .. n
    BY <1>2, <2>1, <2>2, UpTo
  <2> QED
    BY <1>2, <2>3
<1> HIDE DEF Keys, f
<1> QED
  BY <1>1, <1>6, <1>7, <1>10 DEF Upto

\* No two scenarios of a plan have one key, unless a name is that of another
\* followed by a dash and a number (compiler.go: emitScenario; "x-3", "x", "x"
\* have two).  That two numbers do not read the same is all it takes of ToString.
THEOREM KeysApart ==
  ASSUME NEW L, NEW names \in Seq(Seq(L)),
         \A j, k, m \in 1 .. Len(names) : names[j] # Numbered(names[k], m),
         \A i, j \in 1 .. Len(names) : ToString(i) = ToString(j) => i = j
  PROVE  /\ Len(KeysOf(names)) = Len(names)
         /\ \A i, j \in 1 .. Len(names) : KeysOf(names)[i] = KeysOf(names)[j] => i = j
<1>1. PICK n, keys : n = Len(names) /\ keys = KeysOf(names)
  OBVIOUS
<1>2. n \in Nat /\ keys = [i \in 1 .. n |-> KeyOf(names, i)] /\ \A i \in 1 .. n : names[i] \in Seq(L)
  <2>1. PICK N : N = Seq(L)
    OBVIOUS
  <2>2. names \in Seq(N)
    BY <2>1
  <2>3. \A i \in 1 .. Len(names) : names[i] \in N
    BY <2>2
  <2> QED
    BY <1>1, <2>1, <2>3, KeysAre
<1>3. ASSUME NEW i \in 1 .. n, NEW j \in 1 .. n, Numbered(names[i], i) = Numbered(names[j], j)
      PROVE  i = j
  BY <1>1, <1>2, <1>3, NumbersApart
<1>4. ASSUME NEW i \in 1 .. n, NEW j \in 1 .. n, KeyOf(names, i) = KeyOf(names, j)
      PROVE  i = j
  <2>1. CASE KeyOf(names, i) = Numbered(names[i], i) /\ KeyOf(names, j) = Numbered(names[j], j)
    BY <1>3, <1>4, <2>1
  <2>2. CASE KeyOf(names, i) # Numbered(names[i], i) /\ KeyOf(names, j) # Numbered(names[j], j)
    <3>1. /\ KeyOf(names, i) = names[i] /\ KeyOf(names, j) = names[j]
          /\ ~\E k \in 1 .. i - 1 : names[k] = names[i]
          /\ ~\E k \in 1 .. j - 1 : names[k] = names[j]
      BY <2>2 DEF KeyOf
    <3>2. i \notin 1 .. j - 1 /\ j \notin 1 .. i - 1
      BY <1>4, <3>1
    <3> QED
      BY <1>2, <3>2
  <2>3. CASE KeyOf(names, i) = Numbered(names[i], i) /\ KeyOf(names, j) # Numbered(names[j], j)
    BY <1>1, <1>4, <2>3 DEF KeyOf
  <2>4. CASE KeyOf(names, i) # Numbered(names[i], i) /\ KeyOf(names, j) = Numbered(names[j], j)
    BY <1>1, <1>4, <2>4 DEF KeyOf
  <2> QED
    BY <2>1, <2>2, <2>3, <2>4
<1>5. Len(keys) = n
  BY <1>2
<1> QED
  BY <1>1, <1>2, <1>4, <1>5

-----------------------------------------------------------------------------
(* Parameters and requests                                                 *)

\* A list the operation starts with, and what is added to it for each
\* parameter of the path.
Gathers(take, own, shared, P) ==
  /\ take \in [0 .. Len(shared) -> Seq(P)] /\ take[0] = own /\ take[Len(shared)] = WithShared(own, shared)
  /\ \A i \in 1 .. Len(shared) :
       take[i] = IF \E j \in DOMAIN take[i-1] : Same(take[i-1][j], shared[i]) THEN take[i-1]
                 ELSE Append(take[i-1], shared[i])

\* WithShared is the last of these lists.
LEMMA WithSharedAre ==
  ASSUME NEW P, NEW own \in Seq(P), NEW shared \in Seq(P)
  PROVE  \E take : Gathers(take, own, shared, P)
<1> DEFINE n == Len(shared)
           Takes(g) == g = [i \in 0 .. n |->
                              IF i = 0 THEN own
                              ELSE IF \E j \in DOMAIN g[i-1] : Same(g[i-1][j], shared[i]) THEN g[i-1]
                                   ELSE Append(g[i-1], shared[i])]
           F == [i \in 1 .. n |-> [x \in Seq(P) |->
                   IF \E j \in DOMAIN x : Same(x[j], shared[i]) THEN x ELSE Append(x, shared[i])]]
<1>1. n \in Nat /\ \A i \in 1 .. n : shared[i] \in P
  OBVIOUS
<1>2. ASSUME NEW i \in 1 .. n, NEW x \in Seq(P)
      PROVE  /\ F[i][x] = IF \E j \in DOMAIN x : Same(x[j], shared[i]) THEN x ELSE Append(x, shared[i])
             /\ F[i][x] \in Seq(P)
  <2>1. F[i][x] = IF \E j \in DOMAIN x : Same(x[j], shared[i]) THEN x ELSE Append(x, shared[i])
    OBVIOUS
  <2>2. Append(x, shared[i]) \in Seq(P)
    BY <1>1
  <2> HIDE DEF F
  <2> QED
    BY <2>1, <2>2
<1> HIDE DEF F
<1>3. PICK f : MadeBy(f, F, n, Seq(P), own)
  <2>1. StaysIn(F, n, Seq(P))
    BY <1>2 DEF StaysIn
  <2> QED
    BY <1>1, <2>1, StepByStep
<1>4. f \in [0 .. n -> Seq(P)] /\ f[0] = own /\ \A i \in 1 .. n : f[i] = F[i][f[i-1]]
  BY <1>3 DEF MadeBy
<1>5. \A i \in 0 .. n : f[i] = IF i = 0 THEN own
                               ELSE IF \E j \in DOMAIN f[i-1] : Same(f[i-1][j], shared[i]) THEN f[i-1]
                                    ELSE Append(f[i-1], shared[i])
  <2>1. ASSUME NEW i \in 0 .. n, i # 0
        PROVE  f[i] = IF \E j \in DOMAIN f[i-1] : Same(f[i-1][j], shared[i]) THEN f[i-1]
                      ELSE Append(f[i-1], shared[i])
    <3>1. i \in 1 .. n /\ i - 1 \in 0 .. n
      BY <1>1, <2>1
    <3>2. f[i-1] \in Seq(P) /\ f[i] = F[i][f[i-1]]
      BY <1>4, <3>1
    <3> QED
      BY <1>2, <3>1, <3>2
  <2> QED
    BY <1>4, <2>1
<1>6. Takes(f)
  <2>1. f = [i \in 0 .. n |-> f[i]]
    BY <1>4
  <2> QED
    BY <1>5, <2>1
<1>7. WithShared(own, shared) = (CHOOSE g : Takes(g))[n]
  BY DEF WithShared
<1>8. PICK g : g = CHOOSE h : Takes(h)
  OBVIOUS
<1>9. Takes(g)
  <2> HIDE DEF Takes
  <2> QED
    BY <1>6, <1>8
<1>10. DOMAIN g = 0 .. n /\ g[0] = own
  BY <1>1, <1>9
<1>11. ASSUME NEW i \in 1 .. n
       PROVE  /\ g[i] = IF \E j \in DOMAIN g[i-1] : Same(g[i-1][j], shared[i]) THEN g[i-1]
                        ELSE Append(g[i-1], shared[i])
              /\ g[i-1] \in Seq(P) => g[i] \in Seq(P)
  <2>1. i \in 0 .. n /\ i # 0
    BY <1>1
  <2>2. g[i] = IF \E j \in DOMAIN g[i-1] : Same(g[i-1][j], shared[i]) THEN g[i-1]
               ELSE Append(g[i-1], shared[i])
    BY <1>9, <2>1
  <2>3. g[i-1] \in Seq(P) => Append(g[i-1], shared[i]) \in Seq(P)
    BY <1>1
  <2> QED
    BY <2>2, <2>3
<1>12. \A i \in 0 .. n : g[i] \in Seq(P)
  <2> HIDE DEF n
  <2> QED
    BY <1>1, <1>10, <1>11, StepsStay
<1>13. g \in [0 .. n -> Seq(P)]
  <2>1. g = [i \in 0 .. n |-> g[i]]
    BY <1>9
  <2> QED
    BY <1>12, <2>1
<1> HIDE DEF Takes
<1>14. Gathers(g, own, shared, P)
  BY <1>7, <1>8, <1>10, <1>11, <1>13 DEF Gathers
<1> QED
  BY <1>14

\* An operation's parameters are its own, in their places, and after them those
\* of the path it does not have itself, each name and place once; none is lost
\* and none made up (openapi.go: PathItem.UnmarshalJSON).
THEOREM ParametersKept ==
  ASSUME NEW P, NEW own \in Seq(P), NEW shared \in Seq(P)
  PROVE  LET params == WithShared(own, shared)
             n      == Len(own)
         IN  /\ params \in Seq(P) /\ n <= Len(params) /\ \A i \in 1 .. n : params[i] = own[i]
             /\ \A i \in 1 .. Len(shared) : \E j \in 1 .. Len(params) : Same(params[j], shared[i])
             /\ \A j \in n + 1 .. Len(params) :
                  /\ \E i \in 1 .. Len(shared) : params[j] = shared[i]
                  /\ \A l \in 1 .. j - 1 : ~Same(params[l], params[j])
<1> DEFINE Kept(w, k) ==
             /\ Len(own) <= Len(w) /\ \A i \in 1 .. Len(own) : w[i] = own[i]
             /\ \A i \in 1 .. k : \E j \in 1 .. Len(w) : Same(w[j], shared[i])
             /\ \A j \in Len(own) + 1 .. Len(w) :
                  /\ \E i \in 1 .. k : w[j] = shared[i]
                  /\ \A l \in 1 .. j - 1 : ~Same(w[l], w[j])
<1>0. PICK take : Gathers(take, own, shared, P)
  BY WithSharedAre
<1>1. /\ take \in [0 .. Len(shared) -> Seq(P)] /\ take[0] = own /\ take[Len(shared)] = WithShared(own, shared)
      /\ \A i \in 1 .. Len(shared) :
           take[i] = IF \E j \in DOMAIN take[i-1] : Same(take[i-1][j], shared[i]) THEN take[i-1]
                     ELSE Append(take[i-1], shared[i])
  BY <1>0 DEF Gathers
<1>2. PICK n : n = Len(shared)
  OBVIOUS
<1>3. n \in Nat /\ \A i \in 1 .. n : shared[i] \in P
  BY <1>2
<1> DEFINE T == {k \in 0 .. n : Kept(take[k], k)}
<1>4. 0 \in T
  <2>1. Len(own) \in Nat
    OBVIOUS
  <2> QED
    BY <1>1, <1>3, <2>1
<1>5. ASSUME NEW k \in 1 .. n, k - 1 \in T
      PROVE  k \in T
  <2>1. PICK v, w, p : v = take[k-1] /\ w = take[k] /\ p = shared[k]
    OBVIOUS
  <2>2. v \in Seq(P) /\ p \in P /\ w = IF \E j \in DOMAIN v : Same(v[j], p) THEN v ELSE Append(v, p)
    <3>1. k - 1 \in 0 .. n
      BY <1>3
    <3> QED
      BY <1>1, <1>2, <1>3, <2>1, <3>1
  <2>3. Kept(v, k - 1)
    BY <1>5, <2>1
  <2>4. k \in Nat /\ k - 1 \in Nat /\ \A i \in 1 .. k : i = k \/ i \in 1 .. k - 1
    BY <1>3
  <2>5. Len(own) \in Nat /\ Len(v) \in Nat /\ DOMAIN v = 1 .. Len(v) /\ Len(own) <= Len(v)
    BY <2>2, <2>3
  <2>6. CASE \E j \in DOMAIN v : Same(v[j], p)
    <3>1. w = v /\ \E j \in 1 .. Len(v) : Same(v[j], shared[k])
      BY <2>1, <2>2, <2>5, <2>6
    <3>2. \A i \in 1 .. k : \E j \in 1 .. Len(v) : Same(v[j], shared[i])
      BY <2>3, <2>4, <3>1
    <3>3. \A j \in Len(own) + 1 .. Len(v) : \E i \in 1 .. k : v[j] = shared[i]
      <4>1. \A i \in 1 .. k - 1 : i \in 1 .. k
        BY <2>4
      <4> QED
        BY <2>3, <4>1
    <3>4. Kept(w, k)
      BY <2>3, <3>1, <3>2, <3>3
    <3> HIDE DEF Kept
    <3> QED
      BY <1>3, <2>1, <3>4
  <2>7. CASE ~\E j \in DOMAIN v : Same(v[j], p)
    <3>1. w = Append(v, p)
      BY <2>2, <2>7
    <3>2. /\ Len(w) = Len(v) + 1 /\ w[Len(w)] = p
          /\ \A j \in 1 .. Len(v) : w[j] = v[j]
      BY <2>2, <3>1
    <3> HIDE <3>1
    <3>3. \A j \in 1 .. Len(w) : j = Len(w) \/ j \in 1 .. Len(v)
      BY <2>5, <3>2
    <3>4. Len(own) <= Len(w) /\ \A i \in 1 .. Len(own) : w[i] = own[i]
      <4>1. \A i \in 1 .. Len(own) : i \in 1 .. Len(v)
        BY <2>5
      <4> QED
        BY <2>3, <2>5, <3>2, <4>1
    <3>5. ASSUME NEW i \in 1 .. k
          PROVE  \E j \in 1 .. Len(w) : Same(w[j], shared[i])
      <4>1. CASE i = k
        <5>1. Len(w) \in 1 .. Len(w) /\ w[Len(w)] = shared[i]
          BY <2>1, <2>5, <3>2, <4>1
        <5> QED
          BY <5>1 DEF Same
      <4>2. CASE i # k
        <5>1. PICK j \in 1 .. Len(v) : Same(v[j], shared[i])
          BY <2>3, <2>4, <4>2
        <5>2. j \in 1 .. Len(w) /\ w[j] = v[j]
          BY <2>5, <3>2
        <5> QED
          BY <5>1, <5>2
      <4> QED
        BY <4>1, <4>2
    <3>6. ASSUME NEW j \in Len(own) + 1 .. Len(w)
          PROVE  /\ \E i \in 1 .. k : w[j] = shared[i]
                 /\ \A l \in 1 .. j - 1 : ~Same(w[l], w[j])
      <4>1. CASE j = Len(w)
        <5>1. w[j] = p /\ \A l \in 1 .. j - 1 : l \in DOMAIN v /\ w[l] = v[l]
          BY <2>5, <3>2, <4>1
        <5>2. w[j] = shared[k] /\ k \in 1 .. k
          BY <2>1, <2>4, <5>1
        <5> QED
          BY <2>7, <5>1, <5>2
      <4>2. CASE j # Len(w)
        <5>1. j \in Len(own) + 1 .. Len(v) /\ w[j] = v[j] /\ \A l \in 1 .. j - 1 : w[l] = v[l]
          BY <2>5, <3>2, <4>2
        <5>2. \A i \in 1 .. k - 1 : i \in 1 .. k
          BY <2>4
        <5> QED
          BY <2>3, <5>1, <5>2
      <4> QED
        BY <4>1, <4>2
    <3>7. Kept(w, k)
      BY <3>4, <3>5, <3>6
    <3> HIDE DEF Kept
    <3> QED
      BY <1>3, <2>1, <3>7
  <2> QED
    BY <2>6, <2>7
<1>6. n \in T
  <2>1. T \in SUBSET (0 .. n)
    OBVIOUS
  <2> HIDE DEF T
  <2> QED
    BY <1>3, <1>4, <1>5, <2>1, UpTo
<1>7. take[n] \in Seq(P)
  BY <1>1, <1>2, <1>3
<1> QED
  BY <1>1, <1>2, <1>6, <1>7

\* The list of samplers, one captured request after the other.
Captures(pick, reqs, S) ==
  /\ pick \in [0 .. Len(reqs) -> Seq(S)] /\ pick[0] = <<>> /\ pick[Len(reqs)] = SamplersOf(reqs)
  /\ \A i \in 1 .. Len(reqs) :
       pick[i] = IF FirstSeen(reqs, i) THEN Append(pick[i-1], CapturedSampler(reqs[i])) ELSE pick[i-1]

\* SamplersOf is the last of these lists.
LEMMA SamplersAre ==
  ASSUME NEW R, NEW reqs \in Seq(R), NEW S, \A r \in R : CapturedSampler(r) \in S
  PROVE  \E pick : Captures(pick, reqs, S)
<1> DEFINE n == Len(reqs)
           Picks(g) == g = [i \in 0 .. n |->
                              IF i = 0 THEN <<>>
                              ELSE IF FirstSeen(reqs, i) THEN Append(g[i-1], CapturedSampler(reqs[i])) ELSE g[i-1]]
           F == [i \in 1 .. n |-> [x \in Seq(S) |->
                   IF FirstSeen(reqs, i) THEN Append(x, CapturedSampler(reqs[i])) ELSE x]]
<1>1. n \in Nat /\ (\A i \in 1 .. n : CapturedSampler(reqs[i]) \in S) /\ <<>> \in Seq(S)
  <2>1. \A i \in 1 .. n : reqs[i] \in R
    OBVIOUS
  <2> QED
    BY <2>1
<1>2. ASSUME NEW i \in 1 .. n, NEW x \in Seq(S)
      PROVE  /\ F[i][x] = IF FirstSeen(reqs, i) THEN Append(x, CapturedSampler(reqs[i])) ELSE x
             /\ F[i][x] \in Seq(S)
  <2>1. F[i][x] = IF FirstSeen(reqs, i) THEN Append(x, CapturedSampler(reqs[i])) ELSE x
    OBVIOUS
  <2>2. Append(x, CapturedSampler(reqs[i])) \in Seq(S)
    BY <1>1
  <2> HIDE DEF F
  <2> QED
    BY <2>1, <2>2
<1> HIDE DEF F
<1>3. PICK f : MadeBy(f, F, n, Seq(S), <<>>)
  <2>1. StaysIn(F, n, Seq(S))
    BY <1>2 DEF StaysIn
  <2> QED
    BY <1>1, <2>1, StepByStep
<1>4. f \in [0 .. n -> Seq(S)] /\ f[0] = <<>> /\ \A i \in 1 .. n : f[i] = F[i][f[i-1]]
  BY <1>3 DEF MadeBy
<1>5. \A i \in 0 .. n : f[i] = IF i = 0 THEN <<>>
                               ELSE IF FirstSeen(reqs, i) THEN Append(f[i-1], CapturedSampler(reqs[i])) ELSE f[i-1]
  <2>1. ASSUME NEW i \in 0 .. n, i # 0
        PROVE  f[i] = IF FirstSeen(reqs, i) THEN Append(f[i-1], CapturedSampler(reqs[i])) ELSE f[i-1]
    <3>1. i \in 1 .. n /\ i - 1 \in 0 .. n
      BY <1>1, <2>1
    <3>2. f[i-1] \in Seq(S) /\ f[i] = F[i][f[i-1]]
      BY <1>4, <3>1
    <3> QED
      BY <1>2, <3>1, <3>2
  <2> QED
    BY <1>4, <2>1
<1>6. Picks(f)
  <2>1. f = [i \in 0 .. n |-> f[i]]
    BY <1>4
  <2> QED
    BY <1>5, <2>1
<1>7. SamplersOf(reqs) = (CHOOSE g : Picks(g))[n]
  BY DEF SamplersOf
<1>8. PICK g : g = CHOOSE h : Picks(h)
  OBVIOUS
<1>9. Picks(g)
  <2> HIDE DEF Picks
  <2> QED
    BY <1>6, <1>8
<1>10. DOMAIN g = 0 .. n /\ g[0] = <<>>
  BY <1>1, <1>9
<1>11. ASSUME NEW i \in 1 .. n
       PROVE  /\ g[i] = IF FirstSeen(reqs, i) THEN Append(g[i-1], CapturedSampler(reqs[i])) ELSE g[i-1]
              /\ g[i-1] \in Seq(S) => g[i] \in Seq(S)
  <2>1. i \in 0 .. n /\ i # 0
    BY <1>1
  <2>2. g[i] = IF FirstSeen(reqs, i) THEN Append(g[i-1], CapturedSampler(reqs[i])) ELSE g[i-1]
    BY <1>9, <2>1
  <2>3. g[i-1] \in Seq(S) => Append(g[i-1], CapturedSampler(reqs[i])) \in Seq(S)
    BY <1>1
  <2> QED
    BY <2>2, <2>3
<1>12. \A i \in 0 .. n : g[i] \in Seq(S)
  <2> HIDE DEF n
  <2>1. g[0] \in Seq(S)
    BY <1>1, <1>10
  <2> QED
    BY <1>1, <1>11, <2>1, StepsStay
<1>13. g \in [0 .. n -> Seq(S)]
  <2>1. g = [i \in 0 .. n |-> g[i]]
    BY <1>9
  <2> QED
    BY <1>12, <2>1
<1> HIDE DEF Picks
<1>14. Captures(g, reqs, S)
  BY <1>7, <1>8, <1>10, <1>11, <1>13 DEF Captures
<1> QED
  BY <1>14

\* The samplers of a plan made of a crawl: each captured request has one, each
\* is of a captured request, and no two are of the same method and URL
\* (crawls.go: generatePlanFromRequests).
THEOREM OneSamplerPerRequest ==
  ASSUME NEW Methods, NEW Urls, NEW reqs \in Seq([method: Methods, url: Urls])
  PROVE  LET samplers == SamplersOf(reqs)
             n        == Len(samplers)
         IN  /\ n \in Nat
             /\ \A i \in 1 .. Len(reqs) : \E j \in 1 .. n : samplers[j] = CapturedSampler(reqs[i])
             /\ \A j \in 1 .. n : \E i \in 1 .. Len(reqs) : samplers[j] = CapturedSampler(reqs[i])
             /\ \A j, l \in 1 .. n : samplers[j].id = samplers[l].id => j = l
<1> DEFINE R == [method: Methods, url: Urls]
           S == {CapturedSampler(r) : r \in R}
           Kept(p, k) ==
             /\ \A i \in 1 .. k : \E j \in 1 .. Len(p) : p[j] = CapturedSampler(reqs[i])
             /\ \A j \in 1 .. Len(p) : \E i \in 1 .. k : p[j] = CapturedSampler(reqs[i])
             /\ \A j, l \in 1 .. Len(p) : p[j] = p[l] => j = l
<1>1. PICK pick : Captures(pick, reqs, S)
  <2>1. reqs \in Seq(R) /\ \A r \in R : CapturedSampler(r) \in S
    OBVIOUS
  <2> HIDE DEF R, S
  <2> QED
    BY <2>1, SamplersAre
<1>2. PICK n : n = Len(reqs)
  OBVIOUS
<1>3. n \in Nat /\ \A i \in 1 .. n : reqs[i] \in R
  <2>1. reqs \in Seq(R)
    OBVIOUS
  <2> HIDE DEF R
  <2> QED
    BY <1>2, <2>1
<1>4. /\ pick \in [0 .. n -> Seq(S)] /\ pick[0] = <<>> /\ pick[n] = SamplersOf(reqs)
      /\ \A i \in 1 .. n :
           pick[i] = IF FirstSeen(reqs, i) THEN Append(pick[i-1], CapturedSampler(reqs[i])) ELSE pick[i-1]
  BY <1>1, <1>2 DEF Captures
<1>5. \A a, b \in R : CapturedSampler(a).id = CapturedSampler(b).id => a = b
  <2>1. \A a \in R : CapturedSampler(a).id = <<a.url, a.method>>
    BY DEF CapturedSampler, Node
  <2>2. \A a, b \in R : <<a.url, a.method>> = <<b.url, b.method>> => a = b
    OBVIOUS
  <2> HIDE DEF R
  <2> QED
    BY <2>1, <2>2
<1> DEFINE T == {k \in 0 .. n : Kept(pick[k], k)}
<1>6. 0 \in T
  <2>1. Len(pick[0]) = 0
    BY <1>4
  <2>2. Kept(pick[0], 0)
    BY <2>1
  <2> HIDE DEF Kept
  <2> QED
    BY <1>3, <2>2
<1>7. ASSUME NEW k \in 1 .. n, k - 1 \in T
      PROVE  k \in T
  <2>1. PICK p, q, c : p = pick[k-1] /\ q = pick[k] /\ c = CapturedSampler(reqs[k])
    OBVIOUS
  <2>2. Kept(p, k - 1)
    BY <1>7, <2>1
  <2>3. k \in Nat /\ k - 1 \in Nat /\ (\A i \in 1 .. k : i = k \/ i \in 1 .. k - 1) /\ \A i \in 1 .. k - 1 : i \in 1 .. k
    BY <1>3
  <2>4. p \in Seq(S) /\ c \in S
    <3>1. k - 1 \in 0 .. n
      BY <1>3
    <3> QED
      BY <1>3, <1>4, <2>1, <3>1
  <2>5. Len(p) \in Nat
    BY <2>4
  <2>6. q = IF FirstSeen(reqs, k) THEN Append(p, c) ELSE p
    BY <1>4, <2>1
  <2>7. CASE ~FirstSeen(reqs, k)
    <3>1. PICK i \in 1 .. k - 1 : reqs[i] = reqs[k]
      BY <2>7 DEF FirstSeen
    <3>2. \A l \in 1 .. k : \E j \in 1 .. Len(p) : p[j] = CapturedSampler(reqs[l])
      BY <2>2, <2>3, <3>1
    <3>3. \A j \in 1 .. Len(p) : \E l \in 1 .. k : p[j] = CapturedSampler(reqs[l])
      BY <2>2, <2>3
    <3>4. Kept(q, k)
      BY <2>2, <2>6, <2>7, <3>2, <3>3
    <3> HIDE DEF Kept
    <3> QED
      BY <1>3, <2>1, <3>4
  <2>8. CASE FirstSeen(reqs, k)
    <3>1. /\ Len(q) = Len(p) + 1 /\ q[Len(q)] = c
          /\ \A j \in 1 .. Len(p) : q[j] = p[j]
      BY <2>4, <2>6, <2>8
    <3>2. (\A j \in 1 .. Len(q) : j = Len(q) \/ j \in 1 .. Len(p)) /\ \A j \in 1 .. Len(p) : j \in 1 .. Len(q)
      BY <2>5, <3>1
    <3>3. ASSUME NEW i \in 1 .. k
          PROVE  \E j \in 1 .. Len(q) : q[j] = CapturedSampler(reqs[i])
      <4>1. CASE i = k
        <5>1. Len(q) \in 1 .. Len(q)
          BY <2>5, <3>1
        <5> QED
          BY <2>1, <3>1, <4>1, <5>1
      <4>2. CASE i # k
        <5>1. PICK j \in 1 .. Len(p) : p[j] = CapturedSampler(reqs[i])
          BY <2>2, <2>3, <4>2
        <5> QED
          BY <3>1, <3>2, <5>1
      <4> QED
        BY <4>1, <4>2
    <3>4. ASSUME NEW j \in 1 .. Len(q)
          PROVE  \E i \in 1 .. k : q[j] = CapturedSampler(reqs[i])
      <4>1. CASE j = Len(q)
        <5>1. k \in 1 .. k /\ q[j] = CapturedSampler(reqs[k])
          BY <2>1, <2>3, <3>1, <4>1
        <5> QED
          BY <5>1
      <4>2. CASE j # Len(q)
        <5>1. j \in 1 .. Len(p)
          BY <3>2, <4>2
        <5> QED
          BY <2>2, <2>3, <3>1, <5>1
      <4> QED
        BY <4>1, <4>2
    <3>5. \A j \in 1 .. Len(p) : p[j] # c
      <4>1. ASSUME NEW j \in 1 .. Len(p), p[j] = c
            PROVE  FALSE
        <5>1. PICK i \in 1 .. k - 1 : p[j] = CapturedSampler(reqs[i])
          BY <2>2
        <5>2. reqs[i] \in R /\ reqs[k] \in R
          BY <1>3, <5>1
        <5>3. CapturedSampler(reqs[i]).id = CapturedSampler(reqs[k]).id
          BY <2>1, <4>1, <5>1
        <5>4. reqs[i] = reqs[k]
          BY <1>5, <5>2, <5>3
        <5> QED
          BY <2>8, <5>1, <5>4 DEF FirstSeen
      <4> QED
        BY <4>1
    <3>6. ASSUME NEW j \in 1 .. Len(q), NEW l \in 1 .. Len(q), q[j] = q[l]
          PROVE  j = l
      <4>1. CASE j = Len(q) \/ l = Len(q)
        BY <3>1, <3>2, <3>5, <3>6, <4>1
      <4>2. CASE ~(j = Len(q) \/ l = Len(q))
        <5>1. j \in 1 .. Len(p) /\ l \in 1 .. Len(p)
          BY <3>2, <4>2
        <5> QED
          BY <2>2, <3>1, <3>6, <5>1
      <4> QED
        BY <4>1, <4>2
    <3>7. Kept(q, k)
      BY <3>3, <3>4, <3>6
    <3> HIDE DEF Kept
    <3> QED
      BY <1>3, <2>1, <3>7
  <2> QED
    BY <2>7, <2>8
<1>8. n \in T
  <2>1. T \in SUBSET (0 .. n)
    OBVIOUS
  <2> HIDE DEF T
  <2> QED
    BY <1>3, <1>6, <1>7, <2>1, UpTo
<1>9. PICK s : s = SamplersOf(reqs)
  OBVIOUS
<1>10. s \in Seq(S) /\ Kept(s, n)
  <2>1. pick[n] \in Seq(S)
    BY <1>3, <1>4
  <2> HIDE DEF Kept, S
  <2> QED
    BY <1>4, <1>8, <1>9, <2>1
<1>11. ASSUME NEW j \in 1 .. Len(s), NEW l \in 1 .. Len(s), s[j].id = s[l].id
       PROVE  j = l
  <2>1. PICK a \in 1 .. n : s[j] = CapturedSampler(reqs[a])
    BY <1>10
  <2>2. PICK b \in 1 .. n : s[l] = CapturedSampler(reqs[b])
    BY <1>10
  <2>3. reqs[a] = reqs[b]
    BY <1>3, <1>5, <1>11, <2>1, <2>2
  <2> QED
    BY <1>10, <2>1, <2>2, <2>3
<1>12. Len(s) \in Nat
  BY <1>10
<1> QED
  BY <1>2, <1>9, <1>10, <1>11, <1>12
=============================================================================
