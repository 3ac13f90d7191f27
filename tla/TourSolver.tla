----------------------------- MODULE TourSolver -----------------------------
(***************************************************************************)
(* The solver of the open travelling salesman problem:                     *)
(* internal/tsp/tsp_solver.go and solve_segments.go.                       *)
(*                                                                         *)
(* Stops are 1..n (0..n-1 in the code), a matrix gives the cost m[i][j] of *)
(* going from i to j, an order is a sequence of stops.  Costs are natural  *)
(* numbers: the rounding of float64 is left out.  A negative cost marks a  *)
(* pair without a road.  "limit" is the size up to which a tour is solved  *)
(* exactly (25 stops in the code); "limits" has it as "tour", and as       *)
(* "segment" the one of segments (20).  "Mutant" marks a definition with a *)
(* mistake, which is not part of the model.                                *)
(***************************************************************************)
EXTENDS Integers, Sequences, FiniteSets, SequencesExt

None == 0 \* an end that is not fixed

\* What pathCost and calculateTourDistance compute.
pathCost(m, order) ==
    LET cost[i \in 1..Len(order)] ==
            IF i = 1 THEN 0 ELSE cost[i - 1] + m[order[i - 1]][order[i]]
    IN  cost[Len(order)]

Identity(n) == [i \in 1..n |-> i]

\* The first of the elements of S with the least cost, as a loop over S with a
\* strict comparison finds it.
FirstBest(S, cost) ==
    CHOOSE x \in S : \A y \in S : cost[x] < cost[y] \/ (cost[x] = cost[y] /\ x <= y)

----------------------------------------------------------------------------
\* heldKarp: a best path over a set of stops to an end is a best path over one
\* stop less, and a step.

NoPath == [cost |-> 0, order |-> <<>>]

\* The best of the paths of "before", each with a last step to end.
Extended(m, before, end) ==
    LET sources == {p \in DOMAIN m : before[p] # NoPath /\ m[p][end] >= 0}
        total == [p \in sources |-> before[p].cost + m[p][end]]
        best == FirstBest(sources, total)
    IN  IF sources = {} THEN NoPath
        ELSE [cost |-> total[best], order |-> Append(before[best].order, end)]

Paths(m, start) ==
    LET City == DOMAIN m
        Best[S \in SUBSET City] ==
            [end \in City |->
                IF start \notin S \/ end \notin S THEN NoPath
                ELSE IF S = {start} THEN [cost |-> 0, order |-> <<start>>]
                ELSE IF end = start THEN NoPath
                ELSE Extended(m, Best[S \ {end}], end)]
    IN  Best

\* One or two stops are answered without looking at start and end. With no end
\* that a path reaches, the order stays as it was.
heldKarp(m, start, fixedEnd) ==
    LET n == Len(m)
        best == Paths(m, start)[1..n]
        ends == IF fixedEnd # None THEN {fixedEnd} ELSE (1..n) \ {start}
        reached == {e \in ends : best[e] # NoPath}
    IN  IF n = 1 THEN [cost |-> 0, order |-> <<1>>]
        ELSE IF n = 2 THEN [cost |-> m[1][2], order |-> <<1, 2>>]
        ELSE IF reached = {} THEN [cost |-> m[1][n], order |-> Identity(n)]
        ELSE best[FirstBest(reached, [e \in reached |-> best[e].cost])]

----------------------------------------------------------------------------
\* nearestNeighbor and twoOpt.

nearestNeighbor(m, start, fixedEnd) ==
    LET n == Len(m)
        reserved == {fixedEnd} \ {None}
        free == n - Cardinality(reserved)
        Nearest(path) ==
            FirstBest((1..n) \ (ToSet(path) \cup reserved), m[Last(path)])
        path[i \in 1..free] ==
            IF i = 1 THEN <<start>> ELSE Append(path[i - 1], Nearest(path[i - 1]))
    IN  IF fixedEnd = None THEN path[free] ELSE Append(path[free], fixedEnd)

Reversed(order, i, j) ==
    [k \in DOMAIN order |-> IF k \in i..j THEN order[i + j - k] ELSE order[k]]

\* Mutant: a reversal is kept when it is longer.
Longer(m, candidate, order) == pathCost(m, candidate) > pathCost(m, order)

Improves(m, candidate, order) == pathCost(m, candidate) < pathCost(m, order)

Tried(m, order, i, j) ==
    IF Improves(m, Reversed(order, i, j), order) THEN Reversed(order, i, j) ELSE order

\* The two loops, over i < j; the first place, and a fixed end, stay.
FromPlace(m, order, i, last) ==
    LET o[j \in i..last] == IF j = i THEN order ELSE Tried(m, o[j - 1], i, j)
    IN  o[last]

Pass(m, order, last) ==
    LET o[i \in 1..last] == IF i = 1 THEN order ELSE FromPlace(m, o[i - 1], i, last)
    IN  o[last]

twoOpt(m, order, hasFixedEnd) ==
    LET last == IF hasFixedEnd THEN Len(order) - 1 ELSE Len(order)
        Improved[o \in [DOMAIN order -> DOMAIN order]] ==
            LET next == Pass(m, o, last)
            IN  IF next = o THEN o ELSE Improved[next]
    IN  Improved[order]

----------------------------------------------------------------------------
\* solveOrder: where the tour must start and end.

\* Mutant: the costs are not turned round.
SameMatrix(m) == m

reverseMatrix(m) == [i \in DOMAIN m |-> [j \in DOMAIN m |-> m[j][i]]]

\* Mutant: the order is not turned round.
SameOrder(order) == order

reverseOrder(order) == Reverse(order)

\* A tour with a free start begins at the first stop all the same, unless its
\* end is fixed.
solveOrder(m, fixedStart, fixedEnd, limit) ==
    LET n == Len(m)
        end == IF fixedEnd THEN n ELSE None
    IN  IF n > limit THEN twoOpt(m, nearestNeighbor(m, 1, end), fixedEnd)
        ELSE IF fixedEnd /\ ~fixedStart
        THEN reverseOrder(heldKarp(reverseMatrix(m), n, None).order)
        ELSE heldKarp(m, 1, end).order

----------------------------------------------------------------------------
\* SolveSegmentedTSP: each segment is solved for pairs of its stops as entry
\* and exit, then the segments are chained.

Submatrix(m, segment) ==
    [i \in DOMAIN segment |-> [j \in DOMAIN segment |-> m[segment[i]][segment[j]]]]

OnSegment(order, segment) == [k \in DOMAIN order |-> segment[order[k]]]

Solution(entry, exit, path, segment) ==
    [entry |-> segment[entry], exit |-> segment[exit], cost |-> path.cost,
     order |-> OnSegment(path.order, segment)]

\* limits.segment is the size up to which every pair is solved exactly. Beyond,
\* there is one free tour and its way back; that tour is exact as well up to
\* limits.tour, the limit of solveOrder.
computeSegmentSolutions(m, segment, limits) ==
    LET s == Len(segment)
        sub == Submatrix(m, segment)
        one == solveOrder(sub, FALSE, FALSE, limits.tour)
        Directed(order) == [cost |-> pathCost(sub, order), order |-> order]
    IN  IF s = 1 THEN {Solution(1, 1, [cost |-> 0, order |-> <<1>>], segment)}
        ELSE IF s <= limits.segment
        THEN {Solution(p[1], p[2], heldKarp(sub, p[1], p[2]), segment) :
                p \in {q \in (1..s) \X (1..s) : q[1] # q[2]}}
        ELSE {Solution(Head(one), Last(one), Directed(one), segment),
              Solution(Last(one), Head(one), Directed(Reverse(one)), segment)}

\* The candidates that a strict comparison in a loop over a Go map may keep:
\* the order of such a loop is random, so any of the cheapest.
Cheapest(S) == {x \in S : \A y \in S : x.cost <= y.cost}

CheapestPerExit(S) == UNION {Cheapest({x \in S : x.exit = e}) : e \in {x.exit : x \in S}}

\* Mutant: the way from one segment to the next is free.
NoConnection(m, from, to) == 0

Connection(m, from, to) == m[from][to]

\* Mutant: the order is written down as it is traced back.
TracedBack(before, segment) == segment \o before

Joined(before, segment) == before \o segment

Chained(m, before, solutions) ==
    CheapestPerExit(
        {[exit |-> s.exit, order |-> Joined(b.order, s.order),
          cost |-> b.cost + Connection(m, b.exit, s.entry) + s.cost] :
            b \in before, s \in solutions})

\* The orders the solver may answer.
SolveSegmentedTSP(m, segments, limits) ==
    LET Solutions(i) == computeSegmentSolutions(m, segments[i], limits)
        dp[i \in DOMAIN segments] ==
            IF i = 1
            THEN CheapestPerExit({[exit |-> s.exit, order |-> s.order, cost |-> s.cost] :
                                    s \in Solutions(1)})
            ELSE Chained(m, dp[i - 1], Solutions(i))
    IN  {x.order : x \in Cheapest(dp[Len(segments)])}

\* How many stops are in front of segment i, and after the last in front of
\* Len(sizes) + 1.
Offsets(sizes) ==
    LET offset[i \in 1..(Len(sizes) + 1)] ==
            IF i = 1 THEN 0 ELSE offset[i - 1] + sizes[i - 1]
    IN  offset

SegmentsOf(sizes) ==
    [i \in DOMAIN sizes |-> [j \in 1..sizes[i] |-> Offsets(sizes)[i] + j]]
=============================================================================
