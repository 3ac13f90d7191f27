------------------------------ MODULE TourPlan ------------------------------
(***************************************************************************)
(* From the stops of a group to the times of its visits: ask Valhalla for  *)
(* the costs (BuildMatrix), solve the tour (SolveWaypoints,                *)
(* SolveSegmentedWaypoints), ask for the road in that order                *)
(* (RouteGeometry), schedule it with the settings of the moment            *)
(* (computeAndStoreRoute).  TourSolver has the algorithms, ArrivalTimes    *)
(* the schedule, RoutePlanning what is stored and what may change in       *)
(* between.                                                                *)
(*                                                                         *)
(* Valhalla is outside: it answers with an error, leaves pairs unreachable *)
(* at the snap radius asked for, or gives any costs of the set Costs; the  *)
(* road takes as long as the matrix says.                                  *)
(***************************************************************************)
EXTENDS TourSolver, ArrivalTimes

CONSTANTS
    Groups,    \* the requests: sequences of the places of their stops
    TooNear,   \* coLocated places are at most this far apart (dupeEps)
    Costs,     \* what Valhalla may answer, in seconds
    MaxCheap,  \* bound: with four stops and more, how many pairs cost less
               \* than the greatest cost
    Limits,    \* the sizes up to which tours and segments are solved exactly
    Defaults,  \* the settings a first read creates
    Settings   \* the settings that may be patched in

\* What PatchRouteSettings accepts: times of a day, minutes, an anchor.
Rows == [start : 0..(Day - 1), end : 0..(Day - 1), service : Nat, anchor : {"start", "end"}]

ASSUME TourPlanAssumption ==
    /\ \A g \in Groups : g \in Seq(Nat) /\ g # <<>>
    /\ TooNear \in Nat
    /\ Costs \subseteq Nat \ {0}
    /\ \E c \in Costs : \A d \in Costs : d <= c
    /\ Limits \subseteq [tour : Nat, segment : Nat]
    /\ Defaults \in Rows /\ Settings \subseteq Rows

VARIABLES
    setting, \* the row of route_settings, or NoRow
    request, \* what is solved
    step,    \* what is done next
    radius,  \* number of the snap radius
    matrix,
    order,   \* the solved order
    legs,    \* times of the legs in that order
    plan     \* arrival times and overrun

vars == <<setting, request, step, radius, matrix, order, legs, plan>>

Radii == <<50, 200, 400, 800>>
NoRow == [start |-> -1]

Init ==
    /\ setting = NoRow
    /\ request = <<>>
    /\ step = "ask"
    /\ radius = 1
    /\ matrix = <<>> /\ order = <<>> /\ legs = <<>> /\ plan = <<>>

----------------------------------------------------------------------------
Splits(n) == {s \in UNION {[1..k -> 1..n] : k \in 1..n} : Offsets(s)[Len(s) + 1] = n}

\* A request of fixed ends (SolveWaypoints), or of segments whose sizes are
\* given (SolveSegmentedWaypoints).
Requests(n) ==
    {[kind |-> "ends", start |-> a, end |-> b, sizes |-> <<n>>] : a, b \in BOOLEAN}
    \cup {[kind |-> "segments", start |-> FALSE, end |-> FALSE, sizes |-> s] : s \in Splits(n)}

Ask ==
    /\ step = "ask"
    /\ \E places \in Groups, limits \in Limits :
         \E r \in Requests(Len(places)) :
           /\ request' = [what |-> r, places |-> places, limits |-> limits]
           /\ step' = IF Len(places) < 2 /\ r.kind = "ends" THEN "failed" ELSE "matrix"
    /\ UNCHANGED <<setting, radius, matrix, order, legs, plan>>

N == Len(request.places)

\* coLocated
TogetherAt(i, j) ==
    /\ request.places[i] - request.places[j] <= TooNear
    /\ request.places[j] - request.places[i] <= TooNear

\* The matrix Valhalla's cells make: nothing on the diagonal and for stops on
\* top of each other, a negative cost without a road.
Dear == CHOOSE c \in Costs : \A d \in Costs : d <= c
Apart == {p \in (1..N) \X (1..N) : ~TogetherAt(p[1], p[2])}

\* Bound: with four stops and more, at most MaxCheap pairs cost less than Dear.
Matrices ==
    {[i \in 1..N |-> [j \in 1..N |->
        IF <<i, j>> \in DOMAIN cheap THEN cheap[<<i, j>>]
        ELSE IF TogetherAt(i, j) THEN 0 ELSE Dear]] :
      cheap \in UNION {[P -> Costs \ {Dear}] :
                         P \in {Q \in SUBSET Apart : N <= 3 \/ Cardinality(Q) <= MaxCheap}}}

MatrixFails ==
    /\ step = "matrix"
    /\ step' = "failed"
    /\ UNCHANGED <<setting, request, radius, matrix, order, legs, plan>>

\* Some pair is unreachable: ask again with the next radius.
Unreachable ==
    /\ step = "matrix"
    /\ Apart # {}
    /\ IF radius < Len(Radii)
       THEN radius' = radius + 1 /\ UNCHANGED step
       ELSE step' = "failed" /\ UNCHANGED radius
    /\ UNCHANGED <<setting, request, matrix, order, legs, plan>>

BuildMatrix ==
    /\ step = "matrix"
    /\ matrix' \in Matrices
    /\ step' = "solve"
    /\ radius' = 1 \* not read any more
    /\ UNCHANGED <<setting, request, order, legs, plan>>

Solve ==
    /\ step = "solve"
    /\ LET r == request.what
       IN  order' \in
             IF r.kind = "ends"
             THEN {solveOrder(matrix, r.start, r.end, request.limits.tour)}
             ELSE SolveSegmentedTSP(matrix, SegmentsOf(r.sizes), request.limits)
    /\ step' = "draw"
    /\ UNCHANGED <<setting, request, radius, matrix, legs, plan>>

\* The road through the places that are asked for, as the matrix costs it.
Road(c) == [u \in 1..(Len(c.unique) - 1) |-> matrix[c.unique[u]][c.unique[u + 1]]]

Draw ==
    LET c == Collapsed(order, ((1..N) \X (1..N)) \ Apart)
    IN  /\ step = "draw"
        /\ legs' = expandLegs(c.reps, Road(c))
        /\ step' = "schedule"
        /\ UNCHANGED <<setting, request, radius, matrix, order, plan>>

DrawFails ==
    /\ step = "draw"
    /\ Apart # {}
    /\ step' = "failed"
    /\ UNCHANGED <<setting, request, radius, matrix, order, legs, plan>>

\* getRouteSetting: the first read creates the row.
Current == IF setting = NoRow THEN Defaults ELSE setting

Schedule ==
    /\ step = "schedule"
    /\ setting' = Current
    /\ plan' = [setting |-> Current, schedule |-> computeArrivalTimes(Current, legs)]
    /\ step' = "done"
    /\ UNCHANGED <<request, radius, matrix, order, legs>>

\* Bound: patched only where the next step reads it.
PatchRouteSettings ==
    /\ step = "schedule"
    /\ setting' \in Settings
    /\ UNCHANGED <<request, step, radius, matrix, order, legs, plan>>

Next ==
    \/ Ask
    \/ MatrixFails
    \/ Unreachable
    \/ BuildMatrix
    \/ Solve
    \/ Draw
    \/ DrawFails
    \/ Schedule
    \/ PatchRouteSettings

Spec == Init /\ [][Next]_vars

----------------------------------------------------------------------------
Solved == step \in {"draw", "schedule", "done"}
AsEnds == request.what.kind = "ends"
Exact == N <= request.limits.tour

\* References: every order there is, as bruteForceTSP of the tests tries them.
Orders == [n \in {Len(g) : g \in Groups} |->
              {o \in [1..n -> 1..n] : \A i, j \in 1..n : o[i] = o[j] => i = j}]

Shortest(S) == \A o \in S : pathCost(matrix, order) <= pathCost(matrix, o)

\* Two stops of which only the last is fixed come out turned round.
TurnedPair == N = 2 /\ request.what.end /\ ~request.what.start

\* No stop is lost or visited twice, a tour with a fixed start begins at its
\* first stop and one with a fixed end ends at its last: solver sizes, both
\* algorithms and the turned matrix included. TurnedPair is the exception.
KeepsEnds ==
    Solved => /\ order \in Orders[N]
              /\ AsEnds /\ ~TurnedPair =>
                    /\ request.what.start => order[1] = 1
                    /\ request.what.end => order[N] = N

\* Up to the limit the tour is a shortest of those with the same fixed ends;
\* with no fixed end, of those that begin at the first stop.
ExactIsShortest ==
    Solved /\ AsEnds /\ Exact /\ ~TurnedPair =>
        Shortest({o \in Orders[N] :
                    /\ request.what.start \/ ~request.what.end => o[1] = 1
                    /\ request.what.end => o[N] = N})

\* Beyond the limit, twoOpt never makes the tour longer than the nearest
\* neighbours it begins with, and leaves no reversal that would help.
HeuristicNoWorse ==
    Solved /\ AsEnds /\ ~Exact =>
        LET end == IF request.what.end THEN N ELSE None
            last == IF request.what.end THEN N - 1 ELSE N
        IN  Shortest({nearestNeighbor(matrix, 1, end)} \cup
                     {Reversed(order, p[1], p[2]) :
                        p \in {q \in (2..last) \X (2..last) : q[1] < q[2]}})

Segments == SegmentsOf(request.what.sizes)

\* The segment a stop belongs to, counted out from the sizes.
SegmentOf(stop) ==
    CHOOSE k \in DOMAIN request.what.sizes :
        /\ stop > Offsets(request.what.sizes)[k]
        /\ stop <= Offsets(request.what.sizes)[k + 1]

InSegments(o) == \A k \in 1..(N - 1) : SegmentOf(o[k]) <= SegmentOf(o[k + 1])

\* A visit is never moved out of its segment, in front of or behind another
\* segment: whatever the sizes, and whether a segment is solved for each pair
\* of ends, by one exact tour and its way back, or by twoOpt.
SegmentsStayInOrder ==
    Solved /\ ~AsEnds => InSegments(order)

\* The chain of solved segments is a shortest of all orders that keep the
\* segments, if every segment is within its limit and none has two visits:
\* two visits are always visited in the order they have.
SegmentedIsShortest ==
    Solved /\ ~AsEnds /\ (\A k \in DOMAIN request.what.sizes :
                            request.what.sizes[k] \in (1..request.limits.segment) \ {2}) =>
        Shortest({o \in Orders[N] : InSegments(o)})

\* The stop whose place is asked for in the name of the i-th stop.
FirstHere ==
    LET first[i \in 1..N] ==
            IF i = 1 THEN 1
            ELSE IF TogetherAt(order[first[i - 1]], order[i]) THEN first[i - 1] ELSE i
    IN  first

\* After stops on top of each other were asked for once, every pair of
\* neighbours has its own leg again: none is lost or given to another pair.
LegsReachTheirStops ==
    step \in {"schedule", "done"} =>
        /\ Len(legs) = N - 1
        /\ \A i \in 1..(N - 1) :
             legs[i] = IF FirstHere[i] = FirstHere[i + 1] THEN 0
                       ELSE matrix[order[FirstHere[i]]][order[FirstHere[i + 1]]]

Times == plan.schedule.times

\* The times lie between the start and the end of the working day s and leave
\* time for each visit and each leg, to the minute, as times are printed.
Fits(s, roads, times) ==
    /\ s.start <= times[1] /\ times[Len(roads) + 1] <= s.end
    /\ \A i \in DOMAIN roads :
         times[i + 1] - times[i] + 1 > s.service + roads[i] \div Minute

\* A schedule that is not marked as overrun fits, whichever end it is anchored to.
ScheduleFits ==
    step = "done" /\ ~plan.schedule.overrun => Fits(plan.setting, legs, Times)

\* A visit announced for 00:30 to 20:00 is announced in an interval that
\* contains its time. (Later ones are announced until 20:00 all the same, ones
\* before 00:30 from the evening before.)
ArrivalInsideInterval ==
    step = "done" =>
        \A i \in 1..N :
            Times[i] \in 30..LastArrival =>
                /\ visitIntervalRange(Times[i]).start <= Times[i]
                /\ Times[i] <= visitIntervalRange(Times[i]).end
=============================================================================
