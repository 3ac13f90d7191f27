------------------------- MODULE RoutePlanningBoard -------------------------
(***************************************************************************)
(* The rows of RoutePlanning read as the board of RouteBoard: a visit is   *)
(* before another if its stop_nr is lower, and in one segment with it if   *)
(* they have one segment_index. Missing numbers, which deletes and moves   *)
(* leave behind, make no difference.                                       *)
(***************************************************************************)
EXTENDS RoutePlanning

Pairs(g) == Members(g) \X Members(g)
Before(g) == {p \in Pairs(g) : stopNr[p[1]] < stopNr[p[2]]}
Together(g) == {p \in Pairs(g) : Deref(segmentIndex[p[1]]) = Deref(segmentIndex[p[2]])}

GroupAsLine(g) == [visits |-> Members(g), before |-> Before(g), together |-> Together(g)]

Board == INSTANCE RouteBoard WITH board <- [g \in Groups |-> GroupAsLine(g)]

\* As long as no visit is moved into a group that exists, the planner's
\* requests change stop_nr and segment_index exactly as a board of lines.
ImplementsBoard == Board!Spec
=============================================================================
