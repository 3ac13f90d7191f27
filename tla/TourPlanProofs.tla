---------------------------- MODULE TourPlanProofs ----------------------------
(***************************************************************************)
(* Theorems about TourPlan, for any stops, costs, segments, limits and     *)
(* settings: the order that is answered is a tour and keeps its ends and   *)
(* segments, the exact solver answers a shortest one, twoOpt none that a   *)
(* reversal improves; each leg of the road is given to its two stops; a    *)
(* plan that is not marked as overrun fits into its day, and a visit is    *)
(* announced around its time.  What the algorithms themselves do is in     *)
(* TourSolverProofs.                                                       *)
(***************************************************************************)
EXTENDS TourPlan, TourSolverProofs

----------------------------------------------------------------------------
\* What holds of 1 and goes on from a number to the next holds up to n.
LEMMA UpTo ==
    ASSUME NEW n \in Nat, NEW T, 1 \in T, \A i \in 1..(n - 1) : i \in T => i + 1 \in T
    PROVE  1..n \subseteq T
<1>1. ASSUME NEW i \in (1 + 1)..n, i - 1 \in T PROVE i \in T
  <2>1. i - 1 \in 1..(n - 1) /\ (i - 1) + 1 = i
    OBVIOUS
  <2> QED
    BY <1>1, <2>1
<1> QED
  BY <1>1, Upwards

\* Functions on 1..n that are given by one end and the steps to the other.
StepsUp(f, n, base, d) ==
    f \in [1..n -> Int] /\ f[1] = base /\ \A i \in 1..(n - 1) : f[i + 1] = f[i] + d[i]
StepsDown(f, n, base, d) ==
    f \in [1..n -> Int] /\ f[n] = base /\ \A i \in 1..(n - 1) : f[i] = f[i + 1] - d[i]

\* Such a function exists.
LEMMA ByStepsUp ==
    ASSUME NEW n \in Nat \ {0}, NEW base \in Int, NEW d, \A i \in 1..(n - 1) : d[i] \in Int
    PROVE  \E f : StepsUp(f, n, base, d)
<1> DEFINE T == {k \in 1..n : \E f : StepsUp(f, k, base, d)}
<1>1. 1 \in T
  <2>1. StepsUp([i \in 1..1 |-> base], 1, base, d)
    BY DEF StepsUp
  <2> QED
    BY <2>1
<1>2. ASSUME NEW k \in 1..(n - 1), k \in T
      PROVE  k + 1 \in T
  <2>1. PICK f : StepsUp(f, k, base, d)
    BY <1>2
  <2> DEFINE h == [i \in 1..(k + 1) |-> IF i <= k THEN f[i] ELSE f[k] + d[k]]
  <2>2. h \in [1..(k + 1) -> Int] /\ h[1] = base
    BY <2>1 DEF StepsUp
  <2>3. \A i \in 1..((k + 1) - 1) : h[i + 1] = h[i] + d[i]
    BY <2>1 DEF StepsUp
  <2>4. StepsUp(h, k + 1, base, d)
    BY <2>2, <2>3 DEF StepsUp
  <2> QED
    BY <2>4
<1>3. n \in T
  <2> HIDE DEF T
  <2>1. 1..n \subseteq T
    BY <1>1, <1>2, UpTo
  <2> QED
    BY <2>1
<1> QED
  BY <1>3

LEMMA ByStepsDown ==
    ASSUME NEW n \in Nat \ {0}, NEW base \in Int, NEW d, \A i \in 1..(n - 1) : d[i] \in Int
    PROVE  \E f : StepsDown(f, n, base, d)
<1>1. PICK f : StepsUp(f, n, base, d)
  BY ByStepsUp
<1> DEFINE h == [i \in 1..n |-> base - (f[n] - f[i])]
<1>2. h \in [1..n -> Int] /\ h[n] = base
  BY <1>1 DEF StepsUp
<1>3. \A i \in 1..(n - 1) : h[i] = h[i + 1] - d[i]
  <2> TAKE i \in 1..(n - 1)
  <2>1. i \in 1..n /\ i + 1 \in 1..n
    OBVIOUS
  <2>2. h[i] = base - (f[n] - f[i]) /\ h[i + 1] = base - (f[n] - f[i + 1])
    BY <2>1
  <2>3. f[n] \in Int /\ f[i] \in Int /\ d[i] \in Int /\ f[i + 1] = f[i] + d[i]
    BY <1>1, <2>1 DEF StepsUp
  <2> HIDE DEF h
  <2> QED
    BY <2>2, <2>3
<1> QED
  BY <1>2, <1>3 DEF StepsDown

\* One number and steps from it make numbers of all.
IntegerSteps(n, d) == \A i \in 1..(n - 1) : d[i] \in Int
GoesUp(t, n, d) == \A i \in 1..(n - 1) : t[i] \in Int => t[i + 1] = t[i] + d[i]
GoesDown(t, n, d) == \A i \in 1..(n - 1) : t[i + 1] \in Int => t[i] = t[i + 1] - d[i]
Numbers(t, n, d) ==
    /\ \A i \in 1..n : t[i] \in Int
    /\ \A i \in 1..(n - 1) : t[i + 1] = t[i] + d[i]

LEMMA NumbersUp ==
    ASSUME NEW n \in Nat \ {0}, NEW d, IntegerSteps(n, d),
           NEW t, t[1] \in Int, GoesUp(t, n, d)
    PROVE  Numbers(t, n, d)
<1> USE DEF IntegerSteps, GoesUp, Numbers
<1> DEFINE T == {i \in 1..n : t[i] \in Int}
<1>1. 1 \in T
  OBVIOUS
<1>2. ASSUME NEW i \in 1..(n - 1), i \in T PROVE i + 1 \in T
  BY <1>2
<1>3. 1..n \subseteq T
  <2> HIDE DEF T
  <2> QED
    BY <1>1, <1>2, UpTo
<1>4. \A i \in 1..n : t[i] \in Int
  BY <1>3
<1> QED
  BY <1>4

LEMMA NumbersDown ==
    ASSUME NEW n \in Nat \ {0}, NEW d, IntegerSteps(n, d),
           NEW t, t[n] \in Int, GoesDown(t, n, d)
    PROVE  Numbers(t, n, d)
<1> USE DEF IntegerSteps, GoesDown, Numbers
<1> DEFINE T == {k \in 1..n : t[n + 1 - k] \in Int}
<1>1. 1 \in T
  OBVIOUS
<1>2. ASSUME NEW k \in 1..(n - 1), k \in T PROVE k + 1 \in T
  <2>1. PICK i \in 1..(n - 1) : i = n - k
    OBVIOUS
  <2>2. n + 1 - k = i + 1 /\ n + 1 - (k + 1) = i
    BY <2>1
  <2>3. t[i] = t[i + 1] - d[i] /\ t[i + 1] \in Int /\ d[i] \in Int
    BY <1>2, <2>2
  <2>4. t[i] \in Int
    BY <2>3
  <2> QED
    BY <2>2, <2>4
<1>3. 1..n \subseteq T
  <2> HIDE DEF T
  <2> QED
    BY <1>1, <1>2, UpTo
<1>4. \A i \in 1..n : t[i] \in Int
  <2> TAKE i \in 1..n
  <2>1. n + 1 - i \in 1..n /\ n + 1 - (n + 1 - i) = i
    OBVIOUS
  <2>2. n + 1 - i \in T
    BY <1>3, <2>1
  <2> QED
    BY <2>1, <2>2
<1>5. \A i \in 1..(n - 1) : t[i + 1] = t[i] + d[i]
  <2> TAKE i \in 1..(n - 1)
  <2>1. t[i] \in Int /\ t[i + 1] \in Int /\ d[i] \in Int
    BY <1>4
  <2>2. t[i] = t[i + 1] - d[i]
    BY <2>1
  <2> QED
    BY <2>1, <2>2
<1> QED
  BY <1>4, <1>5

\* Steps that are not negative ascend.
NaturalSteps(n, d) == \A i \in 1..(n - 1) : d[i] \in Nat

LEMMA StepsAscend ==
    ASSUME NEW n \in Nat \ {0}, NEW d, NaturalSteps(n, d), NEW t, Numbers(t, n, d)
    PROVE  \A i, j \in 1..n : i <= j => t[i] <= t[j]
<1> USE DEF NaturalSteps, Numbers
<1> SUFFICES ASSUME NEW i \in 1..n
             PROVE  \A j \in 1..n : i <= j => t[i] <= t[j]
  OBVIOUS
<1> DEFINE T == {j \in 1..n : i <= j => t[i] <= t[j]}
<1>1. 1 \in T
  OBVIOUS
<1>2. ASSUME NEW j \in 1..(n - 1), j \in T PROVE j + 1 \in T
  <2>1. j \in 1..n /\ j + 1 \in 1..n /\ t[j] \in Int /\ t[i] \in Int /\ t[j + 1] = t[j] + d[j]
    OBVIOUS
  <2>2. d[j] \in Nat
    OBVIOUS
  <2>3. i <= j + 1 => i = j + 1 \/ i <= j
    OBVIOUS
  <2>4. i <= j => t[i] <= t[j]
    BY <1>2
  <2> QED
    BY <2>1, <2>2, <2>3, <2>4
<1> HIDE DEF T
<1>3. 1..n \subseteq T
  BY <1>1, <1>2, UpTo
<1> QED
  BY <1>3 DEF T

----------------------------------------------------------------------------
\* The schedule.

LEMMA LegNumbers ==
    ASSUME NEW roads \in Seq(Nat), NEW n, n = Len(roads) + 1
    PROVE  /\ n \in Nat \ {0} /\ DOMAIN roads = 1..(n - 1)
           /\ \A i \in 1..(n - 1) : roads[i] \in Nat
<1>1. Len(roads) \in Nat /\ DOMAIN roads = 1..Len(roads) /\ n - 1 = Len(roads)
  OBVIOUS
<1> QED
  BY <1>1

LEMMA SettingNumbers ==
    ASSUME NEW s \in Rows
    PROVE  /\ s.service \in Nat /\ s.start \in Nat /\ s.end \in Nat
           /\ s.end < 1440
<1>1. s.service \in Nat /\ s.start \in 0..(Day - 1) /\ s.end \in 0..(Day - 1)
  BY DEF Rows
<1>2. Day - 1 = 1439
  BY DEF Day, Hour
<1> QED
  BY <1>1, <1>2

\* The instants of a schedule: time for a visit and its leg between any two, and
\* the end that is anchored at its time.
LEMMA InstantsAscend ==
    ASSUME NEW s \in Rows, NEW roads \in Seq(Nat), NEW t, t = Instants(s, roads),
           NEW n, n = Len(roads) + 1
    PROVE  /\ \A i \in 1..n : t[i] \in Int
           /\ \A i \in 1..(n - 1) : t[i + 1] = t[i] + (s.service * 60 + roads[i])
           /\ \A i, j \in 1..n : i <= j => t[i] <= t[j]
           /\ IF s.anchor = "end" THEN t[n] = s.end * 60 ELSE t[1] = s.start * 60
<1>1. /\ n \in Nat \ {0} /\ DOMAIN roads = 1..(n - 1)
      /\ s.service \in Nat /\ s.start \in Nat /\ s.end \in Nat
      /\ \A i \in 1..(n - 1) : roads[i] \in Nat
  BY LegNumbers, SettingNumbers
<1> DEFINE d == [i \in 1..(n - 1) |-> s.service * 60 + roads[i]]
<1>2. \A i \in 1..(n - 1) : d[i] \in Nat /\ d[i] = s.service * 60 + roads[i]
  <2>1. ASSUME NEW a \in Nat, NEW b \in Nat PROVE a * 60 + b \in Nat
    OBVIOUS
  <2> SUFFICES ASSUME NEW i \in 1..(n - 1)
               PROVE  d[i] \in Nat /\ d[i] = s.service * 60 + roads[i]
    OBVIOUS
  <2>2. d[i] = s.service * 60 + roads[i]
    OBVIOUS
  <2>3. s.service \in Nat /\ roads[i] \in Nat
    BY <1>1
  <2> HIDE DEF d
  <2> QED
    BY <2>1, <2>2, <2>3
<1>3. s.start * 60 \in Int /\ s.end * 60 \in Int /\ \A i \in 1..(n - 1) : d[i] \in Int
  BY <1>1, <1>2
<1> HIDE DEF d
<1>4. CASE s.anchor = "end"
  <2> DEFINE Backward(f) == [i \in 1..n |-> IF i = n THEN s.end * Minute
                                            ELSE Back(f[i + 1], s.service, roads[i])]
  <2>1. PICK f : StepsDown(f, n, s.end * 60, d)
    BY <1>1, <1>3, ByStepsDown
  <2>2. ASSUME NEW i \in 1..n
        PROVE  f[i] = IF i = n THEN s.end * Minute ELSE Back(f[i + 1], s.service, roads[i])
    <3>1. CASE i = n
      BY <2>1, <3>1 DEF Minute, StepsDown
    <3>2. CASE i # n
      <4>1. i \in 1..(n - 1) /\ i + 1 \in 1..n
        BY <1>1, <3>2
      <4>2. f[i + 1] \in Int /\ f[i] = f[i + 1] - d[i]
        BY <2>1, <4>1 DEF StepsDown
      <4>3. s.service * 60 \in Int /\ roads[i] \in Int /\ d[i] = s.service * 60 + roads[i]
        BY <1>1, <1>2, <4>1
      <4>4. f[i] = Back(f[i + 1], s.service, roads[i])
        BY <4>2, <4>3 DEF Back, Minute
      <4> QED
        BY <3>2, <4>4
    <3> QED
      BY <3>1, <3>2
  <2>3. f = Backward(f)
    BY <2>1, <2>2 DEF StepsDown
  <2>4. t = Backward(t)
    <3>1. t = CHOOSE h : h = Backward(h)
      BY <1>4 DEF Instants
    <3> QED
      BY <2>3, <3>1
  <2>5. t[n] = s.end * 60
    BY <1>1, <2>4 DEF Minute
  <2>6. ASSUME NEW i \in 1..(n - 1), t[i + 1] \in Int
        PROVE  t[i] = t[i + 1] - d[i]
    <3>1. i \in 1..n /\ i # n
      BY <1>1
    <3>2. t[i] = Back(t[i + 1], s.service, roads[i])
      BY <2>4, <3>1
    <3>3. s.service * 60 \in Int /\ roads[i] \in Int /\ d[i] = s.service * 60 + roads[i]
      BY <1>1, <1>2
    <3> QED
      BY <2>6, <3>2, <3>3 DEF Back, Minute
  <2> HIDE DEF Backward
  <2>7. Numbers(t, n, d)
    <3>0. n \in Nat \ {0}
      BY <1>1
    <3>1. t[n] \in Int
      BY <1>3, <2>5
    <3>2. GoesDown(t, n, d)
      BY <2>6 DEF GoesDown
    <3>3. IntegerSteps(n, d)
      BY <1>3 DEF IntegerSteps
    <3> QED
      BY <3>0, <3>1, <3>2, <3>3, NumbersDown
  <2>8. \A i, j \in 1..n : i <= j => t[i] <= t[j]
    <3>0. n \in Nat \ {0}
      BY <1>1
    <3>1. NaturalSteps(n, d)
      BY <1>2 DEF NaturalSteps
    <3> QED
      BY <3>0, <2>7, <3>1, StepsAscend
  <2> QED
    BY <1>2, <1>4, <2>5, <2>7, <2>8 DEF Numbers
<1>5. CASE s.anchor # "end"
  <2> DEFINE Ahead(f) == [i \in 1..n |-> IF i = 1 THEN s.start * Minute
                                         ELSE Forward(f[i - 1], s.service, roads[i - 1])]
  <2>1. PICK f : StepsUp(f, n, s.start * 60, d)
    BY <1>1, <1>3, ByStepsUp
  <2>2. ASSUME NEW i \in 1..n
        PROVE  f[i] = IF i = 1 THEN s.start * Minute
                      ELSE Forward(f[i - 1], s.service, roads[i - 1])
    <3>1. CASE i = 1
      BY <2>1, <3>1 DEF Minute, StepsUp
    <3>2. CASE i # 1
      <4>1. i - 1 \in 1..(n - 1) /\ i - 1 \in 1..n /\ (i - 1) + 1 = i
        BY <1>1, <3>2
      <4>2. f[i - 1] \in Int /\ f[i] = f[i - 1] + d[i - 1]
        BY <2>1, <4>1 DEF StepsUp
      <4>3. /\ s.service * 60 \in Int /\ roads[i - 1] \in Int
            /\ d[i - 1] = s.service * 60 + roads[i - 1]
        <5>1. s.service * 60 \in Int
          BY <1>1
        <5>2. roads[i - 1] \in Int
          BY <1>1, <4>1
        <5>3. d[i - 1] = s.service * 60 + roads[i - 1]
          BY <1>2, <4>1
        <5> QED
          BY <5>1, <5>2, <5>3
      <4>4. f[i] = Forward(f[i - 1], s.service, roads[i - 1])
        BY <4>2, <4>3 DEF Forward, Minute
      <4> QED
        BY <3>2, <4>4
    <3> QED
      BY <3>1, <3>2
  <2>3. f = Ahead(f)
    BY <2>1, <2>2 DEF StepsUp
  <2>4. t = Ahead(t)
    <3>1. t = CHOOSE h : h = Ahead(h)
      BY <1>5 DEF Instants
    <3> QED
      BY <2>3, <3>1
  <2>5. t[1] = s.start * 60
    BY <1>1, <2>4 DEF Minute
  <2>6. ASSUME NEW i \in 1..(n - 1), t[i] \in Int
        PROVE  t[i + 1] = t[i] + d[i]
    <3>1. i + 1 \in 1..n /\ i + 1 # 1 /\ (i + 1) - 1 = i
      BY <1>1
    <3>2. t[i + 1] = Forward(t[i], s.service, roads[i])
      BY <2>4, <3>1
    <3>3. s.service * 60 \in Int /\ roads[i] \in Int /\ d[i] = s.service * 60 + roads[i]
      BY <1>1, <1>2
    <3> QED
      BY <2>6, <3>2, <3>3 DEF Forward, Minute
  <2> HIDE DEF Ahead
  <2>7. Numbers(t, n, d)
    <3>0. n \in Nat \ {0}
      BY <1>1
    <3>1. t[1] \in Int
      BY <1>3, <2>5
    <3>2. GoesUp(t, n, d)
      BY <2>6 DEF GoesUp
    <3>3. IntegerSteps(n, d)
      BY <1>3 DEF IntegerSteps
    <3> QED
      BY <3>0, <3>1, <3>2, <3>3, NumbersUp
  <2>8. \A i, j \in 1..n : i <= j => t[i] <= t[j]
    <3>0. n \in Nat \ {0}
      BY <1>1
    <3>1. NaturalSteps(n, d)
      BY <1>2 DEF NaturalSteps
    <3> QED
      BY <3>0, <2>7, <3>1, StepsAscend
  <2> QED
    BY <1>2, <1>5, <2>5, <2>7, <2>8 DEF Numbers
<1> QED
  BY <1>4, <1>5

\* Between two instants there is the time of a visit and a leg, on the clock too.
LEMMA MinutesBetween ==
    ASSUME NEW a \in Int, NEW m \in Nat, NEW r \in Nat
    PROVE  (a + (m * 60 + r)) \div 60 - a \div 60 + 1 > m + r \div 60
<1>1. PICK p \in Int, q \in 0..59 : a = p * 60 + q
  <2>1. a = (a \div 60) * 60 + (a % 60) /\ a \div 60 \in Int /\ a % 60 \in 0..59
    OBVIOUS
  <2> QED
    BY <2>1
<1>2. PICK u \in Nat, v \in 0..59 : r = u * 60 + v
  <2>1. r = (r \div 60) * 60 + (r % 60) /\ r \div 60 \in Nat /\ r % 60 \in 0..59
    OBVIOUS
  <2> QED
    BY <2>1
<1>3. a \div 60 = p /\ r \div 60 = u
  BY <1>1, <1>2
<1>4. CASE q + v < 60
  <2>1. a + (m * 60 + r) = (p + m + u) * 60 + (q + v)
    BY <1>1, <1>2
  <2>2. (a + (m * 60 + r)) \div 60 = p + m + u
    BY <1>4, <2>1
  <2> QED
    BY <1>3, <2>2
<1>5. CASE q + v >= 60
  <2>1. a + (m * 60 + r) = (p + m + u + 1) * 60 + (q + v - 60)
    BY <1>1, <1>2
  <2>2. (a + (m * 60 + r)) \div 60 = p + m + u + 1
    BY <1>5, <2>1
  <2> QED
    BY <1>3, <2>2
<1> QED
  BY <1>4, <1>5

\* Within a day an instant is printed as its minute.
LEMMA PrintedAsIs ==
    ASSUME NEW a \in Int, 0 <= a, a < 86400
    PROVE  Printed(a) = a \div 60
<1>1. PICK p \in Int, q \in 0..59 : a = p * 60 + q
  <2>1. a = (a \div 60) * 60 + (a % 60) /\ a \div 60 \in Int /\ a % 60 \in 0..59
    OBVIOUS
  <2> QED
    BY <2>1
<1>2. a \div 60 = p /\ 0 <= p /\ p < 1440
  BY <1>1
<1>3. p % 1440 = p
  BY <1>2
<1> QED
  BY <1>2, <1>3 DEF Printed, Minute, Day, Hour

\* Ascending instants of a day that begins and ends within working hours.
Ascending(t, n, service, roads) ==
    /\ \A i \in 1..(n - 1) : roads[i] \in Nat
    /\ \A i \in 1..n : t[i] \in Int
    /\ \A i \in 1..(n - 1) : t[i + 1] = t[i] + (service * 60 + roads[i])
    /\ \A i, j \in 1..n : i <= j => t[i] <= t[j]

Within(t, n, start, end) ==
    /\ start \in Nat /\ end \in Nat /\ end < 1440
    /\ start * 60 <= t[1] /\ t[n] <= end * 60
PrintsWell(t, n, start, end, service, roads) ==
    /\ start <= Printed(t[1]) /\ Printed(t[n]) <= end
    /\ \A i \in 1..(n - 1) :
         Printed(t[i + 1]) - Printed(t[i]) + 1 > service + roads[i] \div 60

LEMMA PrintedInOrder ==
    ASSUME NEW n \in Nat \ {0}, NEW start, NEW end, NEW service \in Nat, NEW roads, NEW t,
           Ascending(t, n, service, roads), Within(t, n, start, end)
    PROVE  PrintsWell(t, n, start, end, service, roads)
<1> USE DEF Ascending, Within, PrintsWell
<1>1. \A i \in 1..n : Printed(t[i]) = t[i] \div 60
  <2> TAKE i \in 1..n
  <2>1. 1 \in 1..n /\ n \in 1..n /\ 1 <= i /\ i <= n
    OBVIOUS
  <2>2. t[i] \in Int /\ t[1] \in Int /\ t[n] \in Int /\ t[1] <= t[i] /\ t[i] <= t[n]
    BY <2>1
  <2>3. 0 <= t[i] /\ t[i] < 86400
    BY <2>2
  <2> QED
    BY <2>2, <2>3, PrintedAsIs
<1>2. start <= t[1] \div 60 /\ t[n] \div 60 <= end
  <2>1. PICK a \in Int, b \in Int : a = t[1] /\ b = t[n]
    OBVIOUS
  <2>2. start * 60 <= a /\ b <= end * 60
    BY <2>1
  <2>3. start <= a \div 60 /\ b \div 60 <= end
    BY <2>2
  <2> QED
    BY <2>1, <2>3
<1>3. ASSUME NEW i \in 1..(n - 1)
      PROVE  Printed(t[i + 1]) - Printed(t[i]) + 1 > service + roads[i] \div 60
  <2>1. i \in 1..n /\ i + 1 \in 1..n
    OBVIOUS
  <2>2. t[i] \in Int /\ roads[i] \in Nat
    BY <2>1
  <2>3. (t[i] + (service * 60 + roads[i])) \div 60 - t[i] \div 60 + 1
            > service + roads[i] \div 60
    BY <2>2, MinutesBetween
  <2>4. t[i + 1] = t[i] + (service * 60 + roads[i])
    OBVIOUS
  <2>5. Printed(t[i + 1]) = t[i + 1] \div 60 /\ Printed(t[i]) = t[i] \div 60
    BY <1>1, <2>1
  <2> QED
    BY <2>3, <2>4, <2>5
<1>4. 1 \in 1..n /\ n \in 1..n
  OBVIOUS
<1>5. start <= Printed(t[1]) /\ Printed(t[n]) <= end
  BY <1>1, <1>2, <1>4
<1> QED
  BY <1>3, <1>5

\* computeArrivalTimes: a schedule that is not marked as overrun fits, for any
\* settings PatchRouteSettings accepts, any number of stops and any legs. It stays
\* within the day, so no time is printed for the day before or after, and it
\* leaves the service and the road between any two visits.
THEOREM ScheduleLeavesTime ==
    ASSUME NEW s \in Rows, NEW roads \in Seq(Nat),
           ~computeArrivalTimes(s, roads).overrun
    PROVE  Fits(s, roads, computeArrivalTimes(s, roads).times)
<1> DEFINE t == Instants(s, roads)
           n == Len(roads) + 1
           times == computeArrivalTimes(s, roads).times
<1>1. /\ n \in Nat \ {0} /\ DOMAIN roads = 1..(n - 1)
      /\ \A i \in 1..(n - 1) : roads[i] \in Nat
  BY LegNumbers
<1>2. s.service \in Nat /\ s.start \in Nat /\ s.end \in Nat /\ s.end < 1440
  BY SettingNumbers
<1>3. /\ \A i \in 1..n : t[i] \in Int
      /\ \A i \in 1..(n - 1) : t[i + 1] = t[i] + (s.service * 60 + roads[i])
      /\ \A i, j \in 1..n : i <= j => t[i] <= t[j]
      /\ IF s.anchor = "end" THEN t[n] = s.end * 60 ELSE t[1] = s.start * 60
  BY InstantsAscend
<1>4. times = [i \in 1..n |-> Printed(t[i])]
  BY DEF computeArrivalTimes
<1>5. ~(IF s.anchor = "end" THEN t[1] < s.start * 60 ELSE t[n] > s.end * 60)
  BY DEF computeArrivalTimes, Minute
<1> HIDE DEF t, n, times
<1>6. 1 \in 1..n /\ n \in 1..n
  BY <1>1
<1>7. s.start * 60 <= t[1] /\ t[n] <= s.end * 60
  <2>1. t[1] \in Int /\ t[n] \in Int
    BY <1>3, <1>6
  <2>2. 1 <= n /\ t[1] <= t[n]
    BY <1>1, <1>3, <1>6
  <2>3. s.start * 60 \in Int /\ s.end * 60 \in Int
    BY <1>2
  <2> QED
    BY <1>3, <1>5, <2>1, <2>2, <2>3
<1>8. /\ s.start <= Printed(t[1]) /\ Printed(t[n]) <= s.end
      /\ \A i \in 1..(n - 1) :
           Printed(t[i + 1]) - Printed(t[i]) + 1 > s.service + roads[i] \div 60
  <2>1. Ascending(t, n, s.service, roads)
    BY <1>1, <1>3 DEF Ascending
  <2>2. Within(t, n, s.start, s.end)
    BY <1>2, <1>7 DEF Within
  <2>3. n \in Nat \ {0} /\ s.service \in Nat
    BY <1>1, <1>2
  <2>4. PrintsWell(t, n, s.start, s.end, s.service, roads)
    BY <2>1, <2>2, <2>3, PrintedInOrder
  <2> QED
    BY <2>4 DEF PrintsWell
<1>9. times[1] = Printed(t[1]) /\ times[n] = Printed(t[n])
  BY <1>4, <1>6
<1>10. \A i \in 1..(n - 1) : times[i] = Printed(t[i]) /\ times[i + 1] = Printed(t[i + 1])
  <2> TAKE i \in 1..(n - 1)
  <2>1. i \in 1..n /\ i + 1 \in 1..n
    BY <1>1
  <2> QED
    BY <1>4, <2>1
<1> QED
  BY <1>1, <1>8, <1>9, <1>10 DEF Fits, Minute, n, times

\* The nearest full hour of a time from 00:30 to 20:00 is between 1 and 20, and
\* at most half an hour away.
LEMMA NearestHour ==
    ASSUME NEW t \in 30..LastArrival
    PROVE  \E h \in 1..20 : Rounded(t) = h * 60 /\ h * 60 - 30 <= t /\ t < h * 60 + 30
<1>1. t \in Int /\ 30 <= t /\ t <= 1200
  BY DEF LastArrival, Hour
<1>2. PICK h : h = (t + 30) \div 60
  OBVIOUS
<1>3. h \in 1..20 /\ h * 60 <= t + 30 /\ t + 30 < h * 60 + 60
  BY <1>1, <1>2
<1> QED
  BY <1>1, <1>2, <1>3 DEF Rounded, Hour

\* A time from 00:30 to 20:00 is announced as three hours around it that end at
\* 20:00 at the latest: neither the cap nor midnight cuts the interval.
LEMMA ThreeHoursAround ==
    ASSUME NEW t \in 30..LastArrival, NEW i, i = visitIntervalRange(t)
    PROVE  /\ i.start \in 0..LastArrival /\ i.end \in 0..LastArrival
           /\ i.end = i.start + 180
           /\ i.start <= t /\ t <= i.end
<1>1. t \in Int
  BY DEF LastArrival, Hour
<1>2. PICK h \in 1..20 : Rounded(t) = h * 60 /\ h * 60 - 30 <= t /\ t < h * 60 + 30
  BY NearestHour
<1>3. Rounded(t) % Day = h * 60
  BY <1>2 DEF Day, Hour
<1>4. CASE h = 20
  <2>1. i = [start |-> 1020 % 1440, end |-> Capped(1200) % 1440]
    BY <1>2, <1>3, <1>4 DEF visitIntervalRange, Late, Hour, Day
  <2>2. i.start = 1020 /\ i.end = 1200
    BY <2>1 DEF Capped, LastArrival, Hour
  <2> QED
    BY <1>1, <1>2, <1>4, <2>2 DEF LastArrival, Hour
<1>5. CASE h \in {18, 19}
  <2>1. i = [start |-> (h * 60 - 120) % 1440, end |-> Capped(h * 60 + 60) % 1440]
    BY <1>2, <1>3, <1>5 DEF visitIntervalRange, Late, Hour, Day
  <2>2. i.start = h * 60 - 120 /\ i.end = h * 60 + 60
    BY <1>5, <2>1 DEF Capped, LastArrival, Hour
  <2> QED
    BY <1>1, <1>2, <1>5, <2>2 DEF LastArrival, Hour
<1>6. CASE h < 18
  <2>1. i = [start |-> (h * 60 - 60) % 1440, end |-> Capped(h * 60 + 120) % 1440]
    BY <1>2, <1>3, <1>6 DEF visitIntervalRange, Early, Hour, Day
  <2>2. i.start = h * 60 - 60 /\ i.end = h * 60 + 120
    BY <1>2, <1>6, <2>1 DEF Capped, LastArrival, Hour
  <2> QED
    BY <1>1, <1>2, <1>6, <2>2 DEF LastArrival, Hour
<1> QED
  BY <1>2, <1>4, <1>5, <1>6

\* computeArrivalTimes and visitIntervalRange: whatever the stops, the costs and
\* the settings, a visit planned for 00:30 to 20:00 is announced in an interval
\* that contains the time it is planned for.
THEOREM ArrivalsAsAnnounced == Spec => []ArrivalInsideInterval
<1>1. ArrivalInsideInterval
  <2> SUFFICES ASSUME NEW i \in 1..N, Times[i] \in 30..LastArrival
               PROVE  /\ visitIntervalRange(Times[i]).start <= Times[i]
                      /\ Times[i] <= visitIntervalRange(Times[i]).end
    BY DEF ArrivalInsideInterval
  <2> QED
    BY ThreeHoursAround
<1> QED
  BY <1>1, PTL

----------------------------------------------------------------------------
\* The tour.

\* What Solve answers to the request and the costs it has.
Answers ==
    LET r == request.what
    IN  IF r.kind = "ends"
        THEN {solveOrder(matrix, r.start, r.end, request.limits.tour)}
        ELSE SolveSegmentedTSP(matrix, SegmentsOf(r.sizes), request.limits)

Asked ==
    /\ request.places \in Groups /\ request.limits \in Limits
    /\ request.what \in Requests(N)
    /\ AsEnds => N >= 2

\* What is solved has been asked for, with costs for each pair of stops, and the
\* order is an answer to it.
SolvedInv ==
    /\ step \in {"ask", "failed", "matrix", "solve", "draw", "schedule", "done"}
    /\ step \notin {"ask", "failed"} => Asked
    /\ step = "solve" \/ Solved => Matrix(matrix, N)
    /\ Solved => order \in Answers

LEMMA AskedSize ==
    ASSUME Asked
    PROVE  N \in Nat \ {0}
<1>1. request.places \in Seq(Nat) /\ request.places # <<>>
  BY TourPlanAssumption DEF Asked
<1>2. Len(request.places) \in Nat /\ Len(request.places) # 0
  BY <1>1
<1> QED
  BY <1>2 DEF N

LEMMA MatricesAre ==
    ASSUME Asked, NEW w \in Matrices
    PROVE  Matrix(w, N)
<1>1. N \in Nat \ {0}
  BY AskedSize
<1>2. Dear \in Nat
  <2>1. Dear \in Costs
    BY TourPlanAssumption DEF Dear
  <2> QED
    BY <2>1, TourPlanAssumption
<1>3. PICK P : \E cheap \in [P -> Costs \ {Dear}] :
        w = [i \in 1..N |-> [j \in 1..N |->
               IF <<i, j>> \in DOMAIN cheap THEN cheap[<<i, j>>]
               ELSE IF TogetherAt(i, j) THEN 0 ELSE Dear]]
  BY DEF Matrices
<1>4. PICK cheap \in [P -> Costs \ {Dear}] :
        w = [i \in 1..N |-> [j \in 1..N |->
               IF <<i, j>> \in DOMAIN cheap THEN cheap[<<i, j>>]
               ELSE IF TogetherAt(i, j) THEN 0 ELSE Dear]]
  BY <1>3
<1> DEFINE Cost(i, j) == IF <<i, j>> \in DOMAIN cheap THEN cheap[<<i, j>>]
                         ELSE IF TogetherAt(i, j) THEN 0 ELSE Dear
<1>5. \A i, j \in 1..N : Cost(i, j) \in Nat
  BY <1>2, TourPlanAssumption
<1>6. w = [i \in 1..N |-> [j \in 1..N |-> Cost(i, j)]]
  BY <1>4
<1> HIDE DEF Cost
<1> QED
  BY <1>1, <1>5, <1>6 DEF Matrix

LEMMA SolvedStep ==
    ASSUME SolvedInv, [Next]_vars
    PROVE  SolvedInv'
<1> USE DEF SolvedInv, Solved
<1>1. CASE UNCHANGED vars
  BY <1>1 DEF vars, Asked, AsEnds, N, Answers
<1>2. CASE Ask
  <2>1. PICK places \in Groups, limits \in Limits : \E r \in Requests(Len(places)) :
          /\ request' = [what |-> r, places |-> places, limits |-> limits]
          /\ step' = IF Len(places) < 2 /\ r.kind = "ends" THEN "failed" ELSE "matrix"
    BY <1>2 DEF Ask
  <2>2. PICK r \in Requests(Len(places)) :
          /\ request' = [what |-> r, places |-> places, limits |-> limits]
          /\ step' = IF Len(places) < 2 /\ r.kind = "ends" THEN "failed" ELSE "matrix"
    BY <2>1
  <2>3. Len(places) \in Nat
    BY TourPlanAssumption
  <2>4. step' # "failed" => Asked'
    BY <2>2, <2>3 DEF Asked, AsEnds, N
  <2> QED
    BY <2>2, <2>4
<1>3. CASE MatrixFails \/ DrawFails
  BY <1>3 DEF MatrixFails, DrawFails
<1>4. CASE Unreachable
  BY <1>4 DEF Unreachable, Asked, AsEnds, N
<1>5. CASE BuildMatrix
  <2>1. Matrix(matrix', N)
    BY <1>5, MatricesAre DEF BuildMatrix
  <2> QED
    BY <1>5, <2>1 DEF BuildMatrix, Asked, AsEnds, N
<1>6. CASE Solve
  <2>1. order' \in Answers
    BY <1>6 DEF Solve, Answers
  <2>2. Answers' = Answers /\ N' = N /\ Asked' = Asked /\ matrix' = matrix
    BY <1>6 DEF Solve, Answers, N, Asked, AsEnds
  <2> QED
    BY <1>6, <2>1, <2>2 DEF Solve
<1>7. CASE Draw \/ Schedule \/ PatchRouteSettings
  <2>1. /\ request' = request /\ matrix' = matrix /\ order' = order
        /\ Solved /\ step' \in {"schedule", "done"}
    BY <1>7 DEF Draw, Schedule, PatchRouteSettings
  <2>2. Answers' = Answers /\ N' = N /\ Asked' = Asked
    BY <2>1 DEF Answers, N, Asked, AsEnds
  <2> QED
    BY <2>1, <2>2
<1> QED
  BY <1>1, <1>2, <1>3, <1>4, <1>5, <1>6, <1>7 DEF Next

LEMMA AlwaysSolved == Spec => []SolvedInv
<1>1. Init => SolvedInv
  BY DEF Init, SolvedInv, Solved
<1>2. SolvedInv /\ [Next]_vars => SolvedInv'
  BY SolvedStep
<1> QED
  BY <1>1, <1>2, PTL DEF Spec

\* What a tour with fixed ends is solved from.
LEMMA EndsAnswered ==
    ASSUME SolvedInv, Solved, AsEnds
    PROVE  /\ N \in Nat /\ N >= 2 /\ Matrix(matrix, N) /\ request.limits.tour \in Int
           /\ request.what.start \in BOOLEAN /\ request.what.end \in BOOLEAN
           /\ order = solveOrder(matrix, request.what.start, request.what.end, request.limits.tour)
           /\ Orders[N] = {o \in Maps(N) : Perm(o, N)}
<1>1. Asked /\ Matrix(matrix, N) /\ order \in Answers
  BY DEF SolvedInv, Solved
<1>2. N \in Nat \ {0} /\ N >= 2
  BY <1>1, AskedSize DEF Asked
<1>3. request.limits.tour \in Int
  <2>1. request.limits \in Limits
    BY <1>1 DEF Asked
  <2>2. request.limits \in [tour : Nat, segment : Nat]
    BY <2>1, TourPlanAssumption
  <2> QED
    BY <2>2
<1>4. request.what.start \in BOOLEAN /\ request.what.end \in BOOLEAN
  BY <1>1 DEF Asked, AsEnds, Requests
<1>5. order = solveOrder(matrix, request.what.start, request.what.end, request.limits.tour)
  BY <1>1 DEF Answers, AsEnds
<1>6. Orders[N] = {o \in Maps(N) : Perm(o, N)}
  BY <1>1 DEF Asked, Orders, N, Maps, Perm
<1> QED
  BY <1>1, <1>2, <1>3, <1>4, <1>5, <1>6

LEMMA EndsAreKept ==
    ASSUME SolvedInv, Solved, AsEnds
    PROVE  /\ order \in Orders[N]
           /\ ~TurnedPair => /\ request.what.start => order[1] = 1
                             /\ request.what.end => order[N] = N
<1> DEFINE s == request.what.start
           e == request.what.end
<1>1. /\ N \in Nat /\ N >= 2 /\ Matrix(matrix, N) /\ request.limits.tour \in Int
      /\ s \in BOOLEAN /\ e \in BOOLEAN
      /\ order = solveOrder(matrix, s, e, request.limits.tour)
      /\ Orders[N] = {o \in Maps(N) : Perm(o, N)}
  BY EndsAnswered
<1>2. \A o : Perm(o, N) => o \in Orders[N]
  BY <1>1 DEF Perm, Maps
<1>3. TurnedPair <=> N = 2 /\ e /\ ~s
  BY DEF TurnedPair
<1> HIDE DEF s, e
<1>4. CASE N > request.limits.tour
  <2>1. N # 1
    BY <1>1
  <2>2. Improved(matrix, N, nearestNeighbor(matrix, 1, FixedEnd(e, N)), order, e)
    BY <1>1, <1>4, <2>1, solveOrderImproves
  <2>3. KeepsTo(order, N, 1, FixedEnd(e, N))
    BY <2>2 DEF Improved
  <2>4. Perm(order, N) /\ order[1] = 1 /\ (e => order[N] = N)
    BY <1>1, <2>3 DEF KeepsTo, FixedEnd, None
  <2> QED
    BY <1>2, <2>4 DEF s, e
<1>5. CASE ~(N > request.limits.tour) /\ N # 2
  <2>1. N <= request.limits.tour /\ N \notin {1, 2}
    BY <1>1, <1>5
  <2>2. Wanted(order, N, s, e)
    BY <1>1, <2>1, solveOrderIsExact
  <2> QED
    BY <1>2, <2>2 DEF Wanted, s, e
<1>6. CASE ~(N > request.limits.tour) /\ N = 2
  <2>1. 2 <= request.limits.tour /\ Matrix(matrix, 2)
    BY <1>1, <1>6
  <2>2. order = IF e /\ ~s THEN <<2, 1>> ELSE <<1, 2>>
    BY <1>1, <2>1, PairsAnswered
  <2>3. Perm(<<1, 2>>, 2) /\ Perm(<<2, 1>>, 2)
    BY DEF Perm
  <2> QED
    BY <1>2, <1>3, <1>6, <2>2, <2>3 DEF s, e
<1> QED
  BY <1>4, <1>5, <1>6

\* solveOrder, heldKarp and reverseMatrix: for any number of stops up to the limit
\* and any costs, the tour that is answered is a shortest of those with the same
\* fixed ends.
THEOREM ExactToursAreShortest == Spec => []ExactIsShortest
<1>1. ASSUME SolvedInv PROVE ExactIsShortest
  <2> DEFINE s == request.what.start
             e == request.what.end
  <2> SUFFICES ASSUME Solved, AsEnds, Exact, ~TurnedPair,
                      NEW o \in Orders[N],
                      s \/ ~e => o[1] = 1,
                      e => o[N] = N
               PROVE  pathCost(matrix, order) <= pathCost(matrix, o)
    BY DEF ExactIsShortest, Shortest
  <2>1. /\ N \in Nat /\ N >= 2 /\ Matrix(matrix, N) /\ request.limits.tour \in Int
        /\ s \in BOOLEAN /\ e \in BOOLEAN
        /\ order = solveOrder(matrix, s, e, request.limits.tour)
        /\ Orders[N] = {p \in Maps(N) : Perm(p, N)}
    BY <1>1, EndsAnswered
  <2>2. N <= request.limits.tour /\ Perm(o, N)
    BY <2>1 DEF Exact
  <2>3. ~(N = 2 /\ e /\ ~s)
    BY DEF TurnedPair
  <2>4. Wanted(o, N, s, e)
    BY <2>2 DEF Wanted
  <2> HIDE DEF s, e
  <2>5. CASE N # 2
    <3>1. N \notin {1, 2}
      BY <2>1, <2>5
    <3> QED
      BY <2>1, <2>2, <2>4, <3>1, solveOrderIsExact
  <2>6. CASE N = 2
    <3>1. 2 <= request.limits.tour /\ Matrix(matrix, 2)
      BY <2>1, <2>2, <2>6
    <3>2. order = <<1, 2>>
      BY <2>1, <2>3, <2>6, <3>1, PairsAnswered
    <3>3. o[1] = 1 /\ o[2] \in 1..2 /\ o[2] # o[1] /\ o \in [1..2 -> 1..2]
      BY <2>2, <2>3, <2>4, <2>6 DEF Wanted, Perm
    <3>4. o = <<1, 2>>
      BY <3>3
    <3>5. pathCost(matrix, order) \in Nat
      <4>1. Route(<<1, 2>>, 2, 2)
        BY DEF Route
      <4> QED
        BY <3>1, <3>2, <4>1, CostIsNatural
    <3> QED
      BY <3>2, <3>4, <3>5
  <2> QED
    BY <2>5, <2>6
<1> QED
  BY <1>1, AlwaysSolved, PTL

\* nearestNeighbor and twoOpt: for any number of stops beyond the limit and any
\* costs, the passes end, no reversal of a part makes the tour shorter, and it is
\* not longer than the nearest neighbours it comes from.
THEOREM HeuristicToursNoWorse == Spec => []HeuristicNoWorse
<1>1. ASSUME SolvedInv PROVE HeuristicNoWorse
  <2> DEFINE s == request.what.start
             e == request.what.end
             last == IF e THEN N - 1 ELSE N
             a == nearestNeighbor(matrix, 1, IF e THEN N ELSE None)
  <2> SUFFICES ASSUME Solved, AsEnds, ~Exact
               PROVE  /\ pathCost(matrix, order) <= pathCost(matrix, a)
                      /\ \A i, j \in 2..last :
                           i < j => pathCost(matrix, order) <= pathCost(matrix, Reversed(order, i, j))
    BY DEF HeuristicNoWorse, Shortest
  <2>1. /\ N \in Nat /\ N >= 2 /\ Matrix(matrix, N) /\ request.limits.tour \in Int
        /\ s \in BOOLEAN /\ e \in BOOLEAN
        /\ order = solveOrder(matrix, s, e, request.limits.tour)
    BY <1>1, EndsAnswered
  <2>2. N > request.limits.tour /\ N # 1
    BY <2>1 DEF Exact
  <2>3. a = nearestNeighbor(matrix, 1, FixedEnd(e, N)) /\ last = LastMoved(e, N)
    BY DEF FixedEnd, LastMoved
  <2> HIDE DEF s, e, a, last
  <2>4. Improved(matrix, N, a, order, e)
    BY <2>1, <2>2, <2>3, solveOrderImproves
  <2> QED
    BY <2>3, <2>4 DEF Improved
<1> QED
  BY <1>1, AlwaysSolved, PTL

----------------------------------------------------------------------------
\* The segments.

Off == Offsets(request.what.sizes)
K == Len(request.what.sizes)

\* What a tour in segments is solved from.
LEMMA SegmentsAnswered ==
    ASSUME SolvedInv, Solved, ~AsEnds
    PROVE  /\ Cut(matrix, N, Off, request.what.sizes, K) /\ request.limits.tour \in Int
           /\ request.limits.segment \in Int
           /\ DOMAIN request.what.sizes = 1..K /\ N \in Nat \ {0}
           /\ Segments = [i \in 1..K |-> BlockSegment(Off, request.what.sizes, i)]
           /\ order \in SolveSegmentedTSP(matrix, Segments, request.limits)
           /\ Orders[N] = {o \in Maps(N) : Perm(o, N)}
<1> DEFINE sizes == request.what.sizes
<1>1. Asked /\ Matrix(matrix, N) /\ order \in Answers
  BY DEF SolvedInv, Solved
<1>2. N \in Nat \ {0}
  BY <1>1, AskedSize
<1>3. request.limits.tour \in Int /\ request.limits.segment \in Int
  <2>1. request.limits \in Limits
    BY <1>1 DEF Asked
  <2>2. request.limits \in [tour : Nat, segment : Nat]
    BY <2>1, TourPlanAssumption
  <2> QED
    BY <2>2
<1>4. sizes \in Splits(N)
  BY <1>1 DEF Asked, AsEnds, Requests
<1>5. PICK k \in 1..N : sizes \in [1..k -> 1..N]
  BY <1>4 DEF Splits
<1>6. k \in Nat \ {0} /\ K = k /\ DOMAIN sizes = 1..k
  <2>1. k \in Nat \ {0}
    BY <1>2
  <2> QED
    BY <1>5, <2>1, Length DEF K
<1>7. Off[K + 1] = N
  BY <1>4 DEF Splits, Off, K
<1>8. Counts(Off, sizes, K)
  <2>1. sizes \in [1..k -> Nat \ {0}]
    BY <1>2, <1>5
  <2> HIDE DEF sizes
  <2>2. Counts(Offsets(sizes), sizes, k)
    BY <1>6, <2>1, OffsetsAre
  <2> QED
    BY <1>6, <2>2 DEF Off, sizes
<1>9. Segments = [i \in 1..K |-> BlockSegment(Off, sizes, i)]
  BY <1>6 DEF Segments, SegmentsOf, BlockSegment, Off
<1>10. order \in SolveSegmentedTSP(matrix, Segments, request.limits)
  BY <1>1 DEF Answers, AsEnds, Segments
<1>11. Orders[N] = {o \in Maps(N) : Perm(o, N)}
  BY <1>1 DEF Asked, Orders, N, Maps, Perm
<1> QED
  BY <1>1, <1>2, <1>3, <1>6, <1>7, <1>8, <1>9, <1>10, <1>11 DEF Cut

\* Orders that do not go back to an earlier segment are those that keep every
\* segment at its place.
LEMMA InSegmentsIs ==
    ASSUME SolvedInv, Solved, ~AsEnds, NEW o, Perm(o, N)
    PROVE  InSegments(o) <=> Blocked(o, Off, K)
<1> DEFINE sizes == request.what.sizes
<1>1. /\ Cut(matrix, N, Off, sizes, K) /\ N \in Nat \ {0}
      /\ DOMAIN sizes = 1..K
  BY SegmentsAnswered
<1>2. Counts(Off, sizes, K) /\ N = Off[K + 1] /\ K \in Nat
  BY <1>1 DEF Cut, Counts
<1>3. ASSUME NEW x \in 1..N, NEW i \in 1..K, x \in Block(Off, i) PROVE SegmentOf(x) = i
  <2>1. \A h \in 1..K : x \in Block(Off, h) <=> x > Off[h] /\ x <= Off[h + 1]
    <3> TAKE h \in 1..K
    <3>1. Off[h] \in Nat /\ Off[h + 1] \in Nat
      BY <1>2, BlockNumbers
    <3> QED
      BY <1>1, <3>1 DEF Block
  <2>2. \A h \in 1..K : x \in Block(Off, h) => h = i
    <3> HIDE DEF sizes
    <3> QED
      BY <1>2, <1>3, BlockIsOne
  <2>3. SegmentOf(x) = CHOOSE h \in 1..K : x > Off[h] /\ x <= Off[h + 1]
    BY <1>1 DEF SegmentOf, Off
  <2> QED
    BY <1>3, <2>1, <2>2, <2>3
<1>4. \A p \in 1..(N - 1) : /\ p \in 1..N /\ p + 1 \in 1..N
                            /\ o[p] \in 1..N /\ o[p + 1] \in 1..N
  BY <1>1 DEF Perm
<1>5. \A x \in 1..N : \E i \in 1..K : x \in Block(Off, i)
  <2> HIDE DEF sizes
  <2> QED
    BY <1>2, BlockExists
<1>6. InSegments(o) <=> GoesOn(o, Off, K)
  <2>1. ASSUME InSegments(o), NEW p \in 1..(N - 1), NEW h \in 1..K, NEW i \in 1..K,
               o[p] \in Block(Off, h), o[p + 1] \in Block(Off, i)
        PROVE  h <= i
    <3>1. SegmentOf(o[p]) = h /\ SegmentOf(o[p + 1]) = i
      BY <1>3, <1>4, <2>1
    <3>2. SegmentOf(o[p]) <= SegmentOf(o[p + 1])
      BY <2>1 DEF InSegments
    <3> QED
      BY <3>1, <3>2
  <2>2. ASSUME GoesOn(o, Off, K), NEW p \in 1..(N - 1)
        PROVE  SegmentOf(o[p]) <= SegmentOf(o[p + 1])
    <3>1. PICK h \in 1..K : o[p] \in Block(Off, h)
      BY <1>4, <1>5
    <3>2. PICK i \in 1..K : o[p + 1] \in Block(Off, i)
      BY <1>4, <1>5
    <3>3. SegmentOf(o[p]) = h /\ SegmentOf(o[p + 1]) = i
      BY <1>3, <1>4, <3>1, <3>2
    <3>4. h <= i
      BY <1>2, <2>2, <3>1, <3>2 DEF GoesOn
    <3> QED
      BY <3>3, <3>4
  <2> QED
    BY <1>2, <2>1, <2>2 DEF InSegments, GoesOn
<1>7. Perm(o, Off[K + 1])
  BY <1>2
<1> HIDE DEF sizes
<1>8. Blocked(o, Off, K) => GoesOn(o, Off, K)
  BY <1>2, BlockedAscends
<1>9. GoesOn(o, Off, K) => Blocked(o, Off, K)
  BY <1>2, <1>7, AscendingIsBlocked
<1> QED
  BY <1>6, <1>8, <1>9

LEMMA SegmentsAreKept ==
    ASSUME SolvedInv, Solved, ~AsEnds
    PROVE  Perm(order, N) /\ order \in Orders[N] /\ Blocked(order, Off, K)
<1> DEFINE sizes == request.what.sizes
<1>1. /\ Cut(matrix, N, Off, sizes, K) /\ request.limits.tour \in Int
      /\ request.limits.segment \in Int
      /\ Segments = [i \in 1..K |-> BlockSegment(Off, sizes, i)]
      /\ order \in SolveSegmentedTSP(matrix, Segments, request.limits)
      /\ Orders[N] = {o \in Maps(N) : Perm(o, N)}
  BY SegmentsAnswered
<1> HIDE DEF sizes
<1>2. Blocked(order, Off, K)
  BY <1>1, SolveSegmentedTSPIs
<1>3. Perm(order, N)
  BY <1>1, <1>2 DEF Blocked, Cut
<1> QED
  BY <1>1, <1>2, <1>3 DEF Perm, Maps

\* SolveWaypoints and SolveSegmentedWaypoints: for any number of stops, any sizes
\* of segments and any costs, no stop is lost or visited twice, and a tour with
\* fixed ends has them where they were, but for two stops of which only the last
\* is fixed.
THEOREM ToursKeepEnds == Spec => []KeepsEnds
<1>1. ASSUME SolvedInv PROVE KeepsEnds
  BY <1>1, EndsAreKept, SegmentsAreKept DEF KeepsEnds
<1> QED
  BY <1>1, AlwaysSolved, PTL

\* SolveSegmentedTSP: for any number of segments of any sizes, whichever of the two
\* limits they are beyond, no stop is visited before one of an earlier segment.
THEOREM SegmentsStay == Spec => []SegmentsStayInOrder
<1>1. ASSUME SolvedInv PROVE SegmentsStayInOrder
  BY <1>1, SegmentsAreKept, InSegmentsIs DEF SegmentsStayInOrder
<1> QED
  BY <1>1, AlwaysSolved, PTL

\* SolveSegmentedTSP: when every segment is within its limit and none has two
\* stops, the chain of solved segments is a shortest of all orders that keep the
\* segments, for any number of stops and segments and any costs.
THEOREM SegmentedToursAreShortest == Spec => []SegmentedIsShortest
<1>1. ASSUME SolvedInv PROVE SegmentedIsShortest
  <2> DEFINE sizes == request.what.sizes
  <2> SUFFICES ASSUME Solved, ~AsEnds,
                      \A i \in DOMAIN sizes : sizes[i] \in (1..request.limits.segment) \ {2},
                      NEW o \in Orders[N], InSegments(o)
               PROVE  pathCost(matrix, order) <= pathCost(matrix, o)
    BY DEF SegmentedIsShortest, Shortest
  <2>1. /\ Cut(matrix, N, Off, sizes, K) /\ request.limits.tour \in Int
        /\ request.limits.segment \in Int
        /\ DOMAIN sizes = 1..K
        /\ Segments = [i \in 1..K |-> BlockSegment(Off, sizes, i)]
        /\ order \in SolveSegmentedTSP(matrix, Segments, request.limits)
        /\ Orders[N] = {p \in Maps(N) : Perm(p, N)}
    BY <1>1, SegmentsAnswered
  <2>2. Perm(o, N)
    BY <2>1
  <2>3. Blocked(o, Off, K)
    BY <1>1, <2>2, InSegmentsIs
  <2>4. \A i \in 1..K : sizes[i] # 2 /\ sizes[i] <= request.limits.segment
    BY <2>1
  <2> HIDE DEF sizes
  <2> DEFINE fine == TRUE
  <2>5. fine
    OBVIOUS
  <2> HIDE DEF fine
  <2>6. fine => \A q : Blocked(q, Off, K) => pathCost(matrix, order) <= pathCost(matrix, q)
    BY <2>1, <2>4, SolveSegmentedTSPIs
  <2> QED
    BY <2>3, <2>5, <2>6
<1> QED
  BY <1>1, AlwaysSolved, PTL

----------------------------------------------------------------------------
\* The legs.

\* f[i] is the first of the stops that is asked for in place of stop i; T are the
\* pairs of stops on top of each other.
Firsts(f, o, n, T) ==
    /\ f[1] = 1 /\ \A i \in 1..n : f[i] \in 1..i
    /\ \A i \in 2..n : f[i] = IF <<o[f[i - 1]], o[i]>> \in T THEN f[i - 1] ELSE i

\* What collapseConsecutive has made of the first i stops.
Follows(c, f, o, i) ==
    /\ Len(c.reps) = i /\ c.reps[i] = Len(c.unique)
    /\ \A j \in 1..i : c.reps[j] \in 1..Len(c.unique) /\ c.unique[c.reps[j]] = o[f[j]]
    /\ \A j \in 2..i : c.reps[j] = IF f[j] = f[j - 1] THEN c.reps[j - 1] ELSE c.reps[j - 1] + 1

Places(n, f, o, i) == {c \in [unique : Seq(1..n), reps : Seq(Nat)] : Follows(c, f, o, i)}

LEMMA PlacesOfFirst ==
    ASSUME NEW n \in Nat \ {0}, NEW o \in Maps(n), NEW T, NEW f, Firsts(f, o, n, T)
    PROVE  [unique |-> <<o[1]>>, reps |-> <<1>>] \in Places(n, f, o, 1)
<1> DEFINE c == [unique |-> <<o[1]>>, reps |-> <<1>>]
<1>1. o[1] \in 1..n /\ f[1] = 1
  BY DEF Maps, Firsts
<1>2. c.unique = <<o[1]>> /\ c.reps = <<1>> /\ c \in [unique : Seq(1..n), reps : Seq(Nat)]
  BY <1>1
<1> HIDE DEF c
<1>3. Follows(c, f, o, 1)
  BY <1>1, <1>2 DEF Follows
<1> QED
  BY <1>2, <1>3 DEF Places, c

\* The next stop of a collapsed list.
NextPlace(c, x, T) ==
    IF <<Last(c.unique), x>> \in T
    THEN [c EXCEPT !.reps = Append(@, Len(c.unique))]
    ELSE [unique |-> Append(c.unique, x), reps |-> Append(c.reps, Len(c.unique) + 1)]

LEMMA PlacesOfNext ==
    ASSUME NEW n \in Nat \ {0}, NEW o \in Maps(n), NEW T, NEW f, Firsts(f, o, n, T),
           NEW i \in 2..n, NEW c \in Places(n, f, o, i - 1)
    PROVE  NextPlace(c, o[i], T) \in Places(n, f, o, i)
<1>1. i \in 1..n /\ i - 1 \in 1..n /\ i - 1 \in 1..(i - 1) /\ i \in Nat /\ i - 1 \in Nat
  OBVIOUS
<1>2. /\ c = [unique |-> c.unique, reps |-> c.reps]
      /\ c.unique \in Seq(1..n) /\ c.reps \in Seq(Nat) /\ Follows(c, f, o, i - 1)
  BY DEF Places
<1>3. /\ Len(c.reps) = i - 1 /\ c.reps[i - 1] = Len(c.unique)
      /\ \A j \in 1..(i - 1) : c.reps[j] \in 1..Len(c.unique) /\ c.unique[c.reps[j]] = o[f[j]]
      /\ \A j \in 2..(i - 1) : c.reps[j] = IF f[j] = f[j - 1] THEN c.reps[j - 1]
                                           ELSE c.reps[j - 1] + 1
  BY <1>2 DEF Follows
<1>4. Last(c.unique) = o[f[i - 1]] /\ Len(c.unique) \in Nat \ {0}
  <2>1. Last(c.unique) = c.unique[Len(c.unique)]
    BY DEF Last
  <2>2. Len(c.unique) \in 1..Len(c.unique) /\ c.unique[Len(c.unique)] = o[f[i - 1]]
    BY <1>1, <1>3
  <2> QED
    BY <1>2, <2>1, <2>2
<1>5. f[i] = IF <<o[f[i - 1]], o[i]>> \in T THEN f[i - 1] ELSE i
  BY DEF Firsts
<1>6. f[i - 1] # i
  <2>1. f[i - 1] \in 1..(i - 1)
    BY <1>1 DEF Firsts
  <2> QED
    BY <1>1, <2>1
<1>7. o[i] \in 1..n
  BY <1>1 DEF Maps
<1> DEFINE l == Len(c.unique)
           d == NextPlace(c, o[i], T)
           u == d.unique
           p == d.reps
           x == IF <<o[f[i - 1]], o[i]>> \in T THEN l ELSE l + 1
<1>8. /\ p = Append(c.reps, x)
      /\ u = IF <<o[f[i - 1]], o[i]>> \in T THEN c.unique ELSE Append(c.unique, o[i])
      /\ d = [unique |-> u, reps |-> p]
  BY <1>2, <1>4 DEF NextPlace
<1>9. x \in Nat /\ l \in Nat \ {0}
  BY <1>4
<1>10. /\ p \in Seq(Nat) /\ Len(p) = i /\ p[i] = x
       /\ \A j \in 1..(i - 1) : p[j] = c.reps[j]
  <2> HIDE DEF x
  <2>1. Len(Append(c.reps, x)) = Len(c.reps) + 1 /\ Append(c.reps, x) \in Seq(Nat)
        /\ Append(c.reps, x)[Len(c.reps) + 1] = x
    BY <1>2, <1>9, AppendProperties
  <2>2. \A j \in 1..Len(c.reps) : Append(c.reps, x)[j] = c.reps[j]
    BY <1>2, <1>9, AppendProperties
  <2>3. (i - 1) + 1 = i
    BY <1>1
  <2> HIDE DEF p
  <2> QED
    BY <1>3, <1>8, <2>1, <2>2, <2>3
<1>11. /\ u \in Seq(1..n) /\ Len(u) = x
       /\ \A j \in 1..l : u[j] = c.unique[j]
       /\ u[x] = o[f[i]]
  <2>1. CASE <<o[f[i - 1]], o[i]>> \in T
    <3>1. u = c.unique /\ x = l /\ f[i] = f[i - 1]
      BY <1>5, <1>8, <2>1
    <3>2. c.unique[l] = o[f[i - 1]]
      BY <1>1, <1>3
    <3> QED
      BY <1>2, <3>1, <3>2
  <2>2. CASE <<o[f[i - 1]], o[i]>> \notin T
    <3>1. u = Append(c.unique, o[i]) /\ x = l + 1 /\ f[i] = i
      BY <1>5, <1>8, <2>2
    <3>2. /\ Len(Append(c.unique, o[i])) = l + 1 /\ Append(c.unique, o[i]) \in Seq(1..n)
          /\ Append(c.unique, o[i])[l + 1] = o[i]
      BY <1>2, <1>7, AppendProperties
    <3>3. \A j \in 1..l : Append(c.unique, o[i])[j] = c.unique[j]
      BY <1>2, <1>7, AppendProperties
    <3> QED
      BY <3>1, <3>2, <3>3
  <2> QED
    BY <2>1, <2>2
<1>12. f[i] = f[i - 1] <=> x = l
  BY <1>5, <1>6, <1>9
<1>13. x = IF f[i] = f[i - 1] THEN l ELSE l + 1
  BY <1>12
<1>14. x \in 1..x /\ 1..l \subseteq 1..x
  BY <1>9
<1> HIDE DEF u, p, x, l, d
<1>15. ASSUME NEW j \in 1..i PROVE p[j] \in 1..Len(u) /\ u[p[j]] = o[f[j]]
  <2>1. CASE j = i
    BY <1>10, <1>11, <1>14, <2>1
  <2>2. CASE j # i
    <3>1. j \in 1..(i - 1)
      BY <1>1, <2>2
    <3>2. c.reps[j] \in 1..l /\ c.unique[c.reps[j]] = o[f[j]] /\ p[j] = c.reps[j]
      BY <1>3, <1>10, <3>1 DEF l
    <3> QED
      BY <1>11, <1>14, <3>2
  <2> QED
    BY <2>1, <2>2
<1>16. ASSUME NEW j \in 2..i PROVE p[j] = IF f[j] = f[j - 1] THEN p[j - 1] ELSE p[j - 1] + 1
  <2>1. CASE j = i
    <3>1. p[i - 1] = l
      BY <1>1, <1>3, <1>10 DEF l
    <3> QED
      BY <1>10, <1>13, <2>1, <3>1
  <2>2. CASE j # i
    <3>1. j \in 2..(i - 1) /\ j \in 1..(i - 1) /\ j - 1 \in 1..(i - 1)
      BY <1>1, <2>2
    <3> QED
      BY <1>3, <1>10, <3>1
  <2> QED
    BY <2>1, <2>2
<1>17. Follows(d, f, o, i)
  <2>1. d.unique = u /\ d.reps = p
    BY <1>8
  <2> QED
    BY <1>10, <1>11, <1>15, <1>16, <2>1 DEF Follows
<1>18. d \in [unique : Seq(1..n), reps : Seq(Nat)]
  BY <1>8, <1>10, <1>11
<1> QED
  BY <1>17, <1>18 DEF Places, d
LEMMA CollapsedIs ==
    ASSUME NEW n \in Nat \ {0}, NEW o \in Maps(n), NEW T, NEW f, Firsts(f, o, n, T)
    PROVE  Collapsed(o, T) \in Places(n, f, o, n)
<1> DEFINE base == [unique |-> <<o[1]>>, reps |-> <<1>>]
           V == [i \in 1..n |-> Places(n, f, o, i)]
           H == [i \in 2..n |-> [v \in V[i - 1] |-> NextPlace(v, o[i], T)]]
           Body(g) == [i \in 1..n |-> IF i = 1 THEN base ELSE NextPlace(g[i - 1], o[i], T)]
           t == CHOOSE g : g = Body(g)
<1>1. n \in Int /\ 1 \in Int /\ 1 <= n /\ (1 + 1)..n = 2..n /\ 1 \in 1..n /\ n \in 1..n
  OBVIOUS
<1>2. \A i \in 2..n : i \in 1..n /\ i # 1 /\ i - 1 \in 1..n
  OBVIOUS
<1>3. \A i \in 1..n : V[i] = Places(n, f, o, i)
  OBVIOUS
<1>4. \A i \in 2..n : \A v \in V[i - 1] : H[i][v] = NextPlace(v, o[i], T)
  OBVIOUS
<1>5. base \in Places(n, f, o, 1)
  BY PlacesOfFirst
<1>6. base \in V[1]
  BY <1>1, <1>5
<1> HIDE DEF V, H, base
<1>7. ASSUME NEW i \in 2..n, NEW v \in V[i - 1] PROVE NextPlace(v, o[i], T) \in V[i]
  <2>1. v \in Places(n, f, o, i - 1)
    BY <1>2, <1>3
  <2>2. NextPlace(v, o[i], T) \in Places(n, f, o, i)
    BY <2>1, PlacesOfNext
  <2> QED
    BY <1>2, <1>3, <2>2
<1>8. Steps(H, 1, n, V)
  BY <1>1, <1>4, <1>7 DEF Steps
<1>9. PICK g : IsOn(g, 1, n) /\ Iterated(g, 1, n, V, base, H)
  BY <1>1, <1>6, <1>8, ByIndex
<1>10. g = Body(g)
  <2>1. ASSUME NEW i \in 1..n PROVE g[i] = IF i = 1 THEN base ELSE NextPlace(g[i - 1], o[i], T)
    <3>1. CASE i = 1
      BY <1>9, <3>1 DEF Iterated
    <3>2. CASE i # 1
      <4>1. i \in 2..n /\ i \in (1 + 1)..n
        BY <1>1, <3>2
      <4>2. g[i - 1] \in V[i - 1] /\ g[i] = H[i][g[i - 1]]
        BY <1>9, <4>1 DEF Iterated
      <4> QED
        BY <1>4, <3>2, <4>1, <4>2
    <3> QED
      BY <3>1, <3>2
  <2> QED
    BY <1>9, <2>1 DEF IsOn
<1>11. t = Body(t)
  <2> HIDE DEF Body
  <2> QED
    BY <1>10
<1>12. Collapsed(o, T) = t[n]
  <2>1. o \in [1..n -> 1..n]
    BY DEF Maps
  <2>2. Len(o) = n
    BY <2>1, Length
  <2> QED
    BY <2>2 DEF Collapsed, NextPlace, base
<1> HIDE DEF t
<1>13. t[1] = base /\ \A i \in 2..n : t[i] = NextPlace(t[i - 1], o[i], T)
  BY <1>1, <1>2, <1>11
<1>14. Iterates(t, 1, n, V, base, H)
  BY <1>1, <1>4, <1>13 DEF Iterates
<1>15. Iterated(t, 1, n, V, base, H)
  BY <1>1, <1>6, <1>8, <1>14, ByIndexOnly
<1>16. t[n] \in V[n]
  BY <1>1, <1>15 DEF Iterated
<1> QED
  BY <1>1, <1>3, <1>12, <1>16

Together == ((1..N) \X (1..N)) \ Apart

LEMMA FirstHereIs ==
    ASSUME N \in Nat \ {0}, order \in Maps(N)
    PROVE  Firsts(FirstHere, order, N, Together)
<1> DEFINE V == [i \in 1..N |-> 1..i]
           H == [i \in 2..N |-> [v \in V[i - 1] |->
                   IF TogetherAt(order[v], order[i]) THEN v ELSE i]]
           Body(g) == [i \in 1..N |->
                         IF i = 1 THEN 1
                         ELSE IF TogetherAt(order[g[i - 1]], order[i]) THEN g[i - 1] ELSE i]
           t == CHOOSE g : g = Body(g)
<1>1. N \in Int /\ 1 \in Int /\ 1 <= N /\ (1 + 1)..N = 2..N /\ 1 \in 1..N /\ N \in 1..N
  OBVIOUS
<1>2. \A i \in 2..N : i \in 1..N /\ i # 1 /\ i - 1 \in 1..N
  OBVIOUS
<1>3. \A i \in 1..N : V[i] = 1..i
  OBVIOUS
<1>4. \A i \in 2..N : \A v \in V[i - 1] :
        H[i][v] = IF TogetherAt(order[v], order[i]) THEN v ELSE i
  OBVIOUS
<1>5. 1 \in V[1]
  BY <1>1
<1> HIDE DEF V, H
<1>6. ASSUME NEW i \in 2..N, NEW v \in V[i - 1] PROVE H[i][v] \in V[i]
  <2>1. v \in 1..(i - 1) /\ i \in Int
    BY <1>2, <1>3
  <2>2. v \in 1..i /\ i \in 1..i
    BY <2>1
  <2> QED
    BY <1>2, <1>3, <1>4, <2>2
<1>7. Steps(H, 1, N, V)
  BY <1>1, <1>6 DEF Steps
<1>8. PICK g : IsOn(g, 1, N) /\ Iterated(g, 1, N, V, 1, H)
  BY <1>1, <1>5, <1>7, ByIndex
<1>9. g = Body(g)
  <2>1. ASSUME NEW i \in 1..N
        PROVE  g[i] = IF i = 1 THEN 1
                      ELSE IF TogetherAt(order[g[i - 1]], order[i]) THEN g[i - 1] ELSE i
    <3>1. CASE i = 1
      BY <1>8, <3>1 DEF Iterated
    <3>2. CASE i # 1
      <4>1. i \in 2..N /\ i \in (1 + 1)..N
        BY <1>1, <3>2
      <4>2. g[i - 1] \in V[i - 1] /\ g[i] = H[i][g[i - 1]]
        BY <1>8, <4>1 DEF Iterated
      <4> QED
        BY <1>4, <3>2, <4>1, <4>2
    <3> QED
      BY <3>1, <3>2
  <2> QED
    BY <1>8, <2>1 DEF IsOn
<1>10. t = Body(t)
  <2> HIDE DEF Body
  <2> QED
    BY <1>9
<1>11. FirstHere = t
  BY DEF FirstHere
<1> HIDE DEF t
<1>12. t[1] = 1 /\ \A i \in 2..N :
         t[i] = IF TogetherAt(order[t[i - 1]], order[i]) THEN t[i - 1] ELSE i
  BY <1>1, <1>2, <1>10
<1>13. Iterates(t, 1, N, V, 1, H)
  BY <1>1, <1>4, <1>12 DEF Iterates
<1>14. Iterated(t, 1, N, V, 1, H)
  BY <1>1, <1>5, <1>7, <1>13, ByIndexOnly
<1>15. \A i \in 1..N : t[i] \in 1..i
  BY <1>3, <1>14 DEF Iterated
<1>16. ASSUME NEW i \in 2..N
       PROVE  t[i] = IF <<order[t[i - 1]], order[i]>> \in Together THEN t[i - 1] ELSE i
  <2>1. t[i - 1] \in 1..N /\ i \in 1..N
    <3>1. t[i - 1] \in 1..(i - 1)
      BY <1>2, <1>15
    <3> QED
      BY <3>1
  <2> DEFINE a == order[t[i - 1]]
             b == order[i]
  <2>2. a \in 1..N /\ b \in 1..N
    BY <2>1 DEF Maps
  <2> HIDE DEF a, b
  <2>3. <<a, b>> \in Together <=> TogetherAt(a, b)
    BY <2>2 DEF Together, Apart
  <2>4. t[i] = IF TogetherAt(a, b) THEN t[i - 1] ELSE i
    BY <1>12 DEF a, b
  <2> QED
    BY <2>3, <2>4 DEF a, b
<1> QED
  BY <1>11, <1>12, <1>15, <1>16 DEF Firsts

\* What the road is drawn as: one leg for each two neighbours, of no time when
\* their places are asked for once.
Drawn ==
    LET c == Collapsed(order, Together) IN expandLegs(c.reps, Road(c))

LEMMA DrawnLegs ==
    ASSUME N \in Nat \ {0}, order \in Maps(N), Matrix(matrix, N)
    PROVE  /\ Drawn \in [1..(N - 1) -> Nat]
           /\ \A i \in 1..(N - 1) :
                Drawn[i] = IF FirstHere[i] = FirstHere[i + 1] THEN 0
                           ELSE matrix[order[FirstHere[i]]][order[FirstHere[i + 1]]]
<1> DEFINE f == FirstHere
           c == Collapsed(order, Together)
           l == Len(c.unique)
<1>1. Firsts(f, order, N, Together)
  BY FirstHereIs
<1> HIDE DEF f
<1>2. c \in Places(N, f, order, N)
  BY <1>1, CollapsedIs
<1>3. Drawn = expandLegs(c.reps, Road(c))
  BY DEF Drawn
<1> HIDE DEF c
<1>4. /\ c.unique \in Seq(1..N) /\ c.reps \in Seq(Nat) /\ Len(c.reps) = N
      /\ \A j \in 1..N : c.reps[j] \in 1..l /\ c.unique[c.reps[j]] = order[f[j]]
      /\ \A j \in 2..N : c.reps[j] = IF f[j] = f[j - 1] THEN c.reps[j - 1]
                                     ELSE c.reps[j - 1] + 1
  BY <1>2 DEF Places, Follows
<1>5. l \in Nat
  BY <1>4
<1> HIDE DEF l
<1>6. Drawn = [i \in 1..(N - 1) |-> IF c.reps[i] = c.reps[i + 1] THEN 0
                                    ELSE Road(c)[c.reps[i]]]
  BY <1>3, <1>4 DEF expandLegs
<1>7. ASSUME NEW i \in 1..(N - 1)
      PROVE  /\ Drawn[i] = IF f[i] = f[i + 1] THEN 0
                           ELSE matrix[order[f[i]]][order[f[i + 1]]]
             /\ Drawn[i] \in Nat
  <2>1. i \in 1..N /\ i + 1 \in 1..N /\ i + 1 \in 2..N /\ (i + 1) - 1 = i
    OBVIOUS
  <2>2. /\ c.reps[i] \in 1..l /\ c.reps[i + 1] \in 1..l
        /\ c.reps[i + 1] = IF f[i + 1] = f[i] THEN c.reps[i] ELSE c.reps[i] + 1
    BY <1>4, <2>1
  <2>3. CASE f[i] = f[i + 1]
    BY <1>6, <2>2, <2>3
  <2>4. CASE f[i] # f[i + 1]
    <3>1. c.reps[i + 1] = c.reps[i] + 1 /\ c.reps[i] \in 1..(l - 1) /\ c.reps[i] # c.reps[i + 1]
      BY <1>5, <2>2, <2>4
    <3>2. Drawn[i] = Road(c)[c.reps[i]]
      BY <1>6, <3>1
    <3>3. Road(c)[c.reps[i]] = matrix[c.unique[c.reps[i]]][c.unique[c.reps[i + 1]]]
      BY <3>1 DEF Road, l
    <3>4. /\ c.unique[c.reps[i]] = order[f[i]] /\ c.unique[c.reps[i + 1]] = order[f[i + 1]]
      BY <1>4, <2>1
    <3>5. f[i] \in 1..N /\ f[i + 1] \in 1..N
      <4>1. f[i] \in 1..i /\ f[i + 1] \in 1..(i + 1)
        BY <1>1, <2>1 DEF Firsts
      <4> QED
        BY <4>1
    <3>6. matrix[order[f[i]]][order[f[i + 1]]] \in Nat
      BY <3>5 DEF Maps, Matrix
    <3> QED
      BY <2>4, <3>2, <3>3, <3>4, <3>6
  <2> QED
    BY <2>3, <2>4
<1>8. Drawn \in [1..(N - 1) -> Nat]
  BY <1>6, <1>7
<1> QED
  BY <1>7, <1>8 DEF f

\* The legs are those of the solved order, and the plan is the schedule of these
\* legs with settings that were accepted.
PlanInv ==
    /\ setting = NoRow \/ setting \in Rows
    /\ step \in {"schedule", "done"} => legs = Drawn
    /\ step = "done" => /\ plan.setting \in Rows
                        /\ plan.schedule = computeArrivalTimes(plan.setting, legs)

LEMMA PlanStep ==
    ASSUME PlanInv, [Next]_vars
    PROVE  PlanInv'
<1> USE DEF PlanInv
<1>1. ASSUME UNCHANGED <<request, matrix, order>> PROVE Drawn' = Drawn
  BY <1>1 DEF Drawn, Together, Apart, TogetherAt, N, Road
<1>2. CASE UNCHANGED vars
  BY <1>1, <1>2 DEF vars
<1>3. CASE Ask \/ MatrixFails \/ Unreachable \/ BuildMatrix \/ Solve \/ DrawFails
  <2>1. setting' = setting /\ step' \notin {"schedule", "done"}
    BY <1>3 DEF Ask, MatrixFails, Unreachable, BuildMatrix, Solve, DrawFails
  <2> QED
    BY <2>1
<1>4. CASE Draw
  <2>1. legs' = Drawn
    BY <1>4 DEF Draw, Drawn, Together
  <2> QED
    BY <1>1, <1>4, <2>1 DEF Draw
<1>5. CASE Schedule
  <2>1. Current \in Rows
    BY TourPlanAssumption DEF Current
  <2>2. step' = "done" /\ setting' = Current /\ legs' = legs /\ step = "schedule"
        /\ plan' = [setting |-> Current, schedule |-> computeArrivalTimes(Current, legs)]
    BY <1>5 DEF Schedule
  <2>3. plan'.setting = Current /\ plan'.schedule = computeArrivalTimes(Current, legs)
    BY <2>2
  <2>4. Drawn' = Drawn
    BY <1>1, <1>5 DEF Schedule
  <2> QED
    BY <2>1, <2>2, <2>3, <2>4
<1>6. CASE PatchRouteSettings
  BY <1>1, <1>6, TourPlanAssumption DEF PatchRouteSettings
<1> QED
  BY <1>2, <1>3, <1>4, <1>5, <1>6 DEF Next

LEMMA AlwaysPlanned == Spec => []PlanInv
<1>1. Init => PlanInv
  BY DEF Init, PlanInv
<1> QED
  BY <1>1, PlanStep, PTL DEF Spec

\* What has been drawn, of a tour of either kind.
LEMMA LegsDrawn ==
    ASSUME SolvedInv, PlanInv, step \in {"schedule", "done"}
    PROVE  /\ N \in Nat \ {0} /\ legs \in [1..(N - 1) -> Nat]
           /\ \A i \in 1..(N - 1) :
                legs[i] = IF FirstHere[i] = FirstHere[i + 1] THEN 0
                          ELSE matrix[order[FirstHere[i]]][order[FirstHere[i + 1]]]
<1>1. Solved /\ Asked /\ Matrix(matrix, N) /\ legs = Drawn
  BY DEF SolvedInv, PlanInv, Solved
<1>2. N \in Nat \ {0}
  BY <1>1, AskedSize
<1>3. order \in Maps(N)
  <2>1. CASE AsEnds
    BY <1>1, <2>1, EndsAreKept, EndsAnswered
  <2>2. CASE ~AsEnds
    BY <1>1, <2>2, SegmentsAreKept, SegmentsAnswered
  <2> QED
    BY <2>1, <2>2
<1> QED
  BY <1>1, <1>2, <1>3, DrawnLegs

\* collapseConsecutive, RouteGeometry and expandLegs: for any number of stops, any
\* of which may be on top of each other, and any costs, each two neighbours of the
\* tour have a leg of their own, that between the places that were asked for.
THEOREM LegsAreTheirs == Spec => []LegsReachTheirStops
<1>1. ASSUME SolvedInv, PlanInv PROVE LegsReachTheirStops
  <2> SUFFICES ASSUME step \in {"schedule", "done"}
               PROVE  /\ Len(legs) = N - 1
                      /\ \A i \in 1..(N - 1) :
                           legs[i] = IF FirstHere[i] = FirstHere[i + 1] THEN 0
                                     ELSE matrix[order[FirstHere[i]]][order[FirstHere[i + 1]]]
    BY DEF LegsReachTheirStops
  <2>1. /\ N \in Nat \ {0} /\ legs \in [1..(N - 1) -> Nat]
        /\ \A i \in 1..(N - 1) :
             legs[i] = IF FirstHere[i] = FirstHere[i + 1] THEN 0
                       ELSE matrix[order[FirstHere[i]]][order[FirstHere[i + 1]]]
    BY <1>1, LegsDrawn
  <2>2. N - 1 \in Nat
    BY <2>1
  <2>3. Len(legs) = N - 1
    BY <2>1, <2>2
  <2> QED
    BY <2>1, <2>3
<1> QED
  BY <1>1, AlwaysSolved, AlwaysPlanned, PTL

\* computeAndStoreRoute: whatever the stops, the costs and the settings, and
\* however often these are patched before they are read, a route that is stored as
\* not overrun fits into its day.
THEOREM SchedulesFit == Spec => []ScheduleFits
<1>1. ASSUME SolvedInv, PlanInv PROVE ScheduleFits
  <2> SUFFICES ASSUME step = "done", ~plan.schedule.overrun
               PROVE  Fits(plan.setting, legs, plan.schedule.times)
    BY DEF ScheduleFits, Times
  <2>1. N \in Nat \ {0} /\ legs \in [1..(N - 1) -> Nat]
    BY <1>1, LegsDrawn
  <2>2. N - 1 \in Nat
    BY <2>1
  <2>3. legs \in Seq(Nat)
    BY <2>1, <2>2
  <2>4. plan.setting \in Rows /\ plan.schedule = computeArrivalTimes(plan.setting, legs)
    BY <1>1 DEF PlanInv
  <2> QED
    BY <2>3, <2>4, ScheduleLeavesTime
<1> QED
  BY <1>1, AlwaysSolved, AlwaysPlanned, PTL

=============================================================================
