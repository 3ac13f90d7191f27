--------------------------- MODULE RoutePlanning ---------------------------
(***************************************************************************)
(* Groups of visits and the order in which a consultant drives them:       *)
(* src/api/v1_groups.go, v1_routing.go and v1_route.go.                    *)
(*                                                                         *)
(* A visit row carries group_id, stop_nr and segment_index, all nullable.  *)
(* A group is the set of live rows with one group_id; stop_nr orders it and*)
(* segment_index cuts the order into blocks the optimizer may shuffle.     *)
(* visit_routes holds at most one drawn route per group.                   *)
(*                                                                         *)
(* The database handle has one connection, so a transaction is one action. *)
(* Handlers that leave the database between two statements (to ask Valhalla*)
(* for a tour or a route, or to confirm statuses one by one) are a Worker  *)
(* with one action per database step.                                      *)
(*                                                                         *)
(* A definition marked "Mutant" is not part of the model: it is the one    *)
(* after it with a mistake, which PROJECT.json pairs with the property     *)
(* that detects it.                                                        *)
(***************************************************************************)
EXTENDS Integers, FiniteSets, Sequences, SequencesExt

CONSTANTS
    Visits,     \* ids of the visit rows
    MaxGroup,   \* bound: group ids are 1..MaxGroup
    Letters,    \* bound: visits whose letter may be sent
    Deletable,  \* bound: visits that may be deleted
    Splittable, \* bound: visits a segment may be split at
    Drawable,   \* bound: groups Valhalla can draw a route for
    Seeded,     \* rows the development seed puts in group 1 without stop_nr
    Movable,    \* bound: visits that may be moved on their own to another group
    Workers,    \* requests that may be between two database steps at once
    Overlapping \* FALSE: a request is sent when the one before it was answered

ASSUME VisitsAssumption == Visits \subseteq Nat /\ IsFiniteSet(Visits)
ASSUME MaxGroupAssumption == MaxGroup \in Nat \ {0}
ASSUME BoundsAssumption ==
    /\ Letters \subseteq Visits /\ Deletable \subseteq Visits
    /\ Splittable \subseteq Visits /\ Movable \subseteq Visits
    /\ Drawable \subseteq 1..MaxGroup
ASSUME SeededAssumption == Seeded \subseteq Visits
ASSUME OverlappingAssumption == Overlapping \in BOOLEAN

Groups == 1..MaxGroup
Null == -1      \* SQL NULL: sorts before every number
NoGroup == 0    \* group_id IS NULL
NoRoute == <<>> \* no row in visit_routes
Idle == [step |-> "idle"]

VARIABLES
    live,          \* rows without deleted_at
    groupId,       \* visits.group_id
    stopNr,        \* visits.stop_nr
    segmentIndex,  \* visits.segment_index
    statusId,      \* visits.status_id: 1 not planned, 2 planned, 3 letter sent
    route,         \* per group, the stop order its drawn route was made for
    task           \* per worker, what its request has read and does next

visitVars == <<live, groupId, stopNr, segmentIndex, statusId>>
vars == <<live, groupId, stopNr, segmentIndex, statusId, route, task>>

----------------------------------------------------------------------------
\* Rows of a group and the ways a sort can order them.

Members(g) == {v \in live : groupId[v] = g}

\* Mutant: no default for NULL.
DerefNothing(x) == x

Deref(x) == IF x = Null THEN 0 ELSE x

\* Every way to number S by key, least first; rows with equal keys may come
\* in any order (sort.Slice is not stable, ORDER BY leaves ties open).
Rankings(S, key) ==
    {p \in [S -> 0..(Cardinality(S) - 1)] :
        \A v, w \in S : /\ p[v] = p[w] => v = w
                        /\ key[v] < key[w] => p[v] < p[w]}

DerefStops(S, stop) == [v \in S |-> Deref(stop[v])]

\* The sequences a SELECT ... ORDER BY stop_nr can return for S.
StopOrders(S) ==
    {s \in SetToSeqs(S) :
        \A i, j \in DOMAIN s : i < j => stopNr[s[i]] <= stopNr[s[j]]}

\* Segments start at 0 and step by at most one along the stop order.
assertSegmentsValid(S, stop, seg) ==
    \E p \in Rankings(S, DerefStops(S, stop)) : \A v \in S :
        /\ p[v] = 0 => Deref(seg[v]) = 0
        /\ \A w \in S : p[w] = p[v] + 1 =>
              Deref(seg[w]) \in {Deref(seg[v]), Deref(seg[v]) + 1}

\* Mutant: counts the groups instead of looking at the highest id.
CountedGroupId ==
    {g \in Groups : g = Cardinality({groupId[v] : v \in live} \ {NoGroup}) + 1}

\* The id after the highest one a live visit has, unless it is over the bound.
\* Ids of groups that lost their last visit come back.
nextVacantGroupId ==
    {g \in Groups : /\ \A v \in live : groupId[v] < g
                    /\ g = 1 \/ \E v \in live : groupId[v] = g - 1}

\* x goes in just before the last of the others and S is renumbered from 0.
fixRouteOrder(S, x) ==
    {p \in [S -> 0..(Cardinality(S) - 1)] :
        /\ \A v, w \in S : p[v] = p[w] => v = w
        /\ \A v, w \in S \ {x} : stopNr[v] < stopNr[w] => p[v] < p[w]
        /\ p[x] = IF Cardinality(S) = 1 THEN 0 ELSE Cardinality(S) - 2}

----------------------------------------------------------------------------
Init ==
    /\ live = Visits
    /\ groupId = [v \in Visits |-> IF v \in Seeded THEN 1 ELSE NoGroup]
    /\ stopNr = [v \in Visits |-> Null]
    /\ segmentIndex = [v \in Visits |-> Null]
    /\ statusId = [v \in Visits |-> IF v \in Seeded THEN 3 ELSE 1]
    /\ route = [g \in Groups |-> NoRoute]
    /\ task = [w \in Workers |-> Idle]

----------------------------------------------------------------------------
\* Requests that are one transaction.

\* A request reaches its handler.
Admitted == Overlapping \/ \A w \in Workers : task[w] = Idle

\* One visit to another group (or to none). A target without other members
\* is replaced by a new id. gorm writes the new group_id back into the loaded
\* row before the handler clears "the" visit's route, so only the route of
\* the group that is entered is dropped.
ChangeGroupId(v, target) ==
    /\ Admitted
    /\ v \in live \cap Movable
    /\ IF target = NoGroup
       THEN /\ groupId' = [groupId EXCEPT ![v] = NoGroup]
            /\ UNCHANGED <<stopNr, route>>
       ELSE \E g \in IF Members(target) \ {v} # {} THEN {target} ELSE nextVacantGroupId :
              LET S == Members(g) \cup {v}
              IN  /\ groupId' = [groupId EXCEPT ![v] = g]
                  /\ \E p \in fixRouteOrder(S, v) :
                       stopNr' = [x \in Visits |-> IF x \in S THEN p[x] ELSE stopNr[x]]
                  /\ route' = [route EXCEPT ![g] = NoRoute]
    /\ UNCHANGED <<live, segmentIndex, statusId, task>>

\* The rows that may be taken as the nearest stop on the given side of v: the
\* lowest id among those with the nearest stop_nr.
Neighbours(v, side) ==
    LET nearer(x, y) == \/ stopNr[x] = stopNr[y] /\ x <= y
                        \/ side = "up" /\ stopNr[x] > stopNr[y]
                        \/ side = "down" /\ stopNr[x] < stopNr[y]
        beyond == {x \in Members(groupId[v]) \ {v} :
                     /\ stopNr[x] # Null
                     /\ IF side = "up" THEN stopNr[x] < stopNr[v]
                                       ELSE stopNr[x] > stopNr[v]}
    IN  {x \in beyond : \A y \in beyond : nearer(x, y)}

\* Mutant: the drawn route stays.
CommitEditOnly(g) ==
    /\ assertSegmentsValid(Members(g), stopNr', segmentIndex')
    /\ UNCHANGED <<live, groupId, statusId, route, task>>

\* The transaction of the three segment edits ends alike: the group must pass
\* assertSegmentsValid, or everything is rolled back, and its route is dropped.
CommitEdit(g) ==
    /\ assertSegmentsValid(Members(g), stopNr', segmentIndex')
    /\ route' = [route EXCEPT ![g] = NoRoute]
    /\ UNCHANGED <<live, groupId, statusId, task>>

Planned(v) == v \in live /\ groupId[v] # NoGroup /\ stopNr[v] # Null

\* Mutant: only one of the two rows is written.
HalfSwapped(v, n) == [stopNr EXCEPT ![v] = stopNr[n]]

Swapped(v, n) == [stopNr EXCEPT ![v] = stopNr[n], ![n] = stopNr[v]]

ReorderVisit(v, side) ==
    /\ Admitted
    /\ Planned(v)
    /\ \E n \in Neighbours(v, side) :
         /\ Deref(segmentIndex[v]) = Deref(segmentIndex[n])
         /\ stopNr' = Swapped(v, n)
    /\ UNCHANGED segmentIndex
    /\ CommitEdit(groupId[v])

\* v and everything after it.
TailFrom(v) == {x \in Members(groupId[v]) : stopNr[x] >= stopNr[v]}

SplitSegment(v) ==
    /\ Admitted
    /\ v \in Splittable
    /\ Planned(v)
    /\ Neighbours(v, "up") # {}
    /\ segmentIndex' = [x \in Visits |-> IF x \in TailFrom(v)
                                         THEN Deref(segmentIndex[x]) + 1
                                         ELSE segmentIndex[x]]
    /\ UNCHANGED stopNr
    /\ CommitEdit(groupId[v])

\* Mutant: the row above may be of the same segment.
JoinAnything(v) ==
    /\ Planned(v)
    /\ segmentIndex[v] # Null
    /\ Neighbours(v, "up") # {}

\* What JoinSegment checks before it touches a row.
JoinAccepted(v) ==
    /\ Planned(v)
    /\ segmentIndex[v] # Null
    /\ \E n \in Neighbours(v, "up") :
         segmentIndex[n] = Null \/ segmentIndex[n] # segmentIndex[v]

\* A NULL segment_index in the tail is a nil dereference, a zero becomes -1 and
\* cannot be scanned back: both roll the transaction back.
JoinSegment(v) ==
    /\ Admitted
    /\ JoinAccepted(v)
    /\ \A x \in TailFrom(v) : segmentIndex[x] # Null /\ segmentIndex[x] >= 1
    /\ segmentIndex' = [x \in Visits |-> IF x \in TailFrom(v)
                                         THEN segmentIndex[x] - 1
                                         ELSE segmentIndex[x]]
    /\ UNCHANGED stopNr
    /\ CommitEdit(groupId[v])

\* Soft delete. No route is cleared.
DeleteVisit(v) ==
    /\ Admitted
    /\ v \in live \cap Deletable
    /\ live' = live \ {v}
    /\ UNCHANGED <<groupId, stopNr, segmentIndex, statusId, route, task>>

\* Accepted from any status; a no-op if the letter was sent before.
VisitLetterSent(v) ==
    /\ Admitted
    /\ v \in live \cap Letters
    /\ statusId[v] # 3
    /\ statusId' = [statusId EXCEPT ![v] = 3]
    /\ UNCHANGED <<live, groupId, stopNr, segmentIndex, route, task>>

----------------------------------------------------------------------------
\* Requests with more than one database step.

Become(w, t) == task' = [task EXCEPT ![w] = t]

\* The visits of sel, in that order, become a new group. The groups they leave
\* keep their routes.
AssignVisitsToGroup(w, sel) ==
    LET chosen == {sel[i] : i \in DOMAIN sel}
        at(x) == CHOOSE i \in DOMAIN sel : sel[i] = x
    IN  /\ Admitted /\ task[w] = Idle
        /\ chosen \subseteq live
        /\ \E g \in nextVacantGroupId :
             groupId' = [x \in Visits |-> IF x \in chosen THEN g ELSE groupId[x]]
        /\ stopNr' = [x \in Visits |-> IF x \in chosen THEN at(x) - 1 ELSE stopNr[x]]
        /\ segmentIndex' = [x \in Visits |-> IF x \in chosen THEN 0 ELSE segmentIndex[x]]
        /\ statusId' = [x \in Visits |-> IF x \in chosen THEN 2 ELSE statusId[x]]
        /\ Become(w, [step |-> "confirm", todo |-> sel])
        /\ UNCHANGED <<live, route>>

\* Mutant: the update has no row id.
ConfirmEveryRow(w) ==
    /\ task[w].step = "confirm"
    /\ LET rest == Tail(task[w].todo)
       IN  /\ statusId' = [v \in Visits |-> IF v \in live THEN 2 ELSE statusId[v]]
           /\ Become(w, IF rest = <<>> THEN Idle ELSE [step |-> "confirm", todo |-> rest])
    /\ UNCHANGED <<live, groupId, stopNr, segmentIndex, route>>

\* After the commit the handler sets status 2 once more, visit by visit.
ConfirmStatus(w) ==
    /\ task[w].step = "confirm"
    /\ LET v == Head(task[w].todo)
           rest == Tail(task[w].todo)
       IN  /\ statusId' = IF v \in live THEN [statusId EXCEPT ![v] = 2] ELSE statusId
           /\ Become(w, IF rest = <<>> THEN Idle ELSE [step |-> "confirm", todo |-> rest])
    /\ UNCHANGED <<live, groupId, stopNr, segmentIndex, route>>

\* OptimizeGroup reads the group outside any transaction.
OptimizeGroup(w, g) ==
    /\ Admitted /\ task[w] = Idle
    /\ Members(g) # {}
    /\ \A u, v \in Members(g) : statusId[u] = statusId[v]
    /\ Become(w, [step |-> "solve", group |-> g,
                  snap |-> [v \in Members(g) |-> [stop |-> Deref(stopNr[v]),
                                                  seg |-> Deref(segmentIndex[v])]]])
    /\ UNCHANGED <<visitVars, route>>

\* Mutants: one tour over the whole group; a segment of one visit moves freely.
ToursAcrossSegments(s) ==
    LET S == DOMAIN s
    IN  {p \in [S -> 0..(Cardinality(S) - 1)] : \A v, w \in S : p[v] = p[w] => v = w}

ToursMovingSingles(s) ==
    LET S == DOMAIN s
        single(v) == \A x \in S : s[x].seg = s[v].seg => x = v
    IN  {p \in [S -> 0..(Cardinality(S) - 1)] :
           \A v, w \in S : /\ p[v] = p[w] => v = w
                           /\ s[v].seg < s[w].seg /\ ~single(v) /\ ~single(w) => p[v] < p[w]}

\* Tours over a snapshot: the segments one after another.
Tours(s) ==
    LET S == DOMAIN s
    IN  {p \in [S -> 0..(Cardinality(S) - 1)] :
           \A v, w \in S : /\ p[v] = p[w] => v = w
                           /\ s[v].seg < s[w].seg => p[v] < p[w]}

Segment(s, k) == {v \in DOMAIN s : s[v].seg = k}
Segments(s) == {s[v].seg : v \in DOMAIN s}
NonLast(s) == {k \in Segments(s) : \E j \in Segments(s) : j > k}

\* optimizeFree: each segment in any order.
optimizeFree(s) == {[v \in DOMAIN s |-> {p[v]}] : p \in Tours(s)}

Heads(s, p) == {v \in DOMAIN s : \A w \in Segment(s, s[v].seg) : p[v] <= p[w]}

\* The head of a segment is the borrowed end of the one before it.
Borrowed(s, p, failed) ==
    {v \in Heads(s, p) : \E k \in failed : /\ k < s[v].seg
                                           /\ \A j \in Segments(s) : j <= k \/ j >= s[v].seg}

\* A segment whose solver call failed is listed with its borrowed end, unless
\* it is the last one: that visit is then listed twice, and everything behind it
\* is one place further down.
Shift(s, failed, v) == Cardinality({k \in failed : k < s[v].seg})
PlacesOf(s, p, failed) ==
    [v \in DOMAIN s |->
        LET at == p[v] + Shift(s, failed, v)
        IN  IF v \in Borrowed(s, p, failed) THEN {at - 1, at} ELSE {at}]

\* A segment keeps its first stop, a failed one its whole order.
Allowed(s, p, failed) ==
    /\ \A v \in Heads(s, p) : \A w \in Segment(s, s[v].seg) : s[v].stop <= s[w].stop
    /\ \A v, w \in DOMAIN s :
         s[v].seg = s[w].seg /\ s[v].seg \in failed /\ s[v].stop < s[w].stop
           => p[v] < p[w]

\* optimizeSegmented: per visit, the places at which its list holds it.
optimizeSegmented(s) ==
    UNION {{PlacesOf(s, p, failed) : p \in {q \in Tours(s) : Allowed(s, q, failed)}} :
           failed \in SUBSET NonLast(s)}

\* Mutant: a row that seems to be first already is not written.
WritesOfNumbered(s, places) == {v \in DOMAIN s : s[v].stop # 0 /\ places[v] # {s[v].stop}}

\* Only a place that differs from the stop read before is written; of several
\* the last one stays.
Writes(s, places) == {v \in DOMAIN s : places[v] # {s[v].stop}}
LastWrite(s, places, v) ==
    CHOOSE i \in places[v] \ {s[v].stop} : \A j \in places[v] \ {s[v].stop} : j <= i

\* The rows are updated by id, whatever group they are in by now. A deleted one
\* fails the transaction.
StoreOrder(w) ==
    /\ task[w].step = "solve"
    /\ LET s == task[w].snap
       IN  \E places \in optimizeFree(s) \cup optimizeSegmented(s) :
             /\ Writes(s, places) \subseteq live
             /\ stopNr' = [v \in Visits |-> IF v \in DOMAIN s /\ v \in Writes(s, places)
                                            THEN LastWrite(s, places, v) ELSE stopNr[v]]
    /\ Become(w, [step |-> "ordered", group |-> task[w].group])
    /\ UNCHANGED <<live, groupId, segmentIndex, statusId, route>>

\* The solver gives no tour (a single visit needs none), or a row to be written
\* was deleted.
OptimizeFails(w) ==
    /\ task[w].step = "solve"
    /\ LET S == DOMAIN task[w].snap IN Cardinality(S) > 1 \/ ~(S \subseteq live)
    /\ Become(w, Idle)
    /\ UNCHANGED <<visitVars, route>>

\* computeAndStoreRoute, first half: read the order the road is drawn for. An
\* empty group ends the request.
ReadOrder(w, g) ==
    /\ \E order \in StopOrders(Members(g)) :
         Become(w, IF order = <<>> THEN Idle
                   ELSE [step |-> "draw", group |-> g, order |-> order])
    /\ UNCHANGED <<visitVars, route>>

RecomputeGroupRoute(w, g) == Admitted /\ task[w] = Idle /\ ReadOrder(w, g)
OptimizeRoute(w) == task[w].step = "ordered" /\ ReadOrder(w, task[w].group)

\* computeAndStoreRoute, second half: the row is replaced.
StoreRoute(w) ==
    /\ task[w].step = "draw"
    /\ task[w].group \in Drawable
    /\ route' = [route EXCEPT ![task[w].group] = task[w].order]
    /\ Become(w, Idle)
    /\ UNCHANGED visitVars

\* Valhalla or the settings row is unavailable, or a visit of the order was
\* deleted before its time could be logged. Nothing written before is undone.
DrawFails(w) ==
    /\ task[w].step = "draw"
    /\ Become(w, Idle)
    /\ UNCHANGED <<visitVars, route>>

----------------------------------------------------------------------------
\* Requests the planner can send, and what a request under way does next.

Edit ==
    \E v \in Visits :
        \/ \E side \in {"up", "down"} : ReorderVisit(v, side)
        \/ SplitSegment(v)
        \/ JoinSegment(v)

Start(w) ==
    \/ \E S \in (SUBSET live) \ {{}} : \E sel \in SetToSeqs(S) : AssignVisitsToGroup(w, sel)
    \/ \E g \in Groups : OptimizeGroup(w, g)
    \/ \E g \in Groups : RecomputeGroupRoute(w, g)

Regroup == \E v \in Visits, target \in Groups \cup {NoGroup} : ChangeGroupId(v, target)
Deletion == \E v \in Visits : DeleteVisit(v)
LetterSent == \E v \in Visits : VisitLetterSent(v)

Continue(w) ==
    \/ ConfirmStatus(w)
    \/ StoreOrder(w)
    \/ OptimizeFails(w)
    \/ OptimizeRoute(w)
    \/ StoreRoute(w)
    \/ DrawFails(w)

\* Requests that are under way interleave at every database step.
Next ==
    \/ Edit \/ Regroup \/ Deletion \/ LetterSent
    \/ \E w \in Workers : Start(w) \/ Continue(w)

Spec == Init /\ [][Next]_vars

----------------------------------------------------------------------------
\* Properties.

Places == Nat \cup {Null}

\* What a worker can hold between two steps.
IsTask(t) ==
    \/ t = Idle
    \/ t \in [step : {"confirm"}, todo : Seq(Visits) \ {<<>>}]
    \/ \E S \in SUBSET Visits :
         t \in [step : {"solve"}, group : Groups, snap : [S -> [stop : Nat, seg : Nat]]]
    \/ t \in [step : {"ordered"}, group : Groups]
    \/ t \in [step : {"draw"}, group : Groups, order : Seq(Visits)]

\* Every column and every request under way holds a value of its type.
TypeOK ==
    /\ live \subseteq Visits
    /\ groupId \in [Visits -> Groups \cup {NoGroup}]
    /\ stopNr \in [Visits -> Places]
    /\ segmentIndex \in [Visits -> Places]
    /\ statusId \in [Visits -> 1..3]
    /\ route \in [Groups -> Seq(Visits)]
    /\ DOMAIN task = Workers
    /\ \A w \in Workers : IsTask(task[w])

\* No two visits of a group are the same stop: what the unique (group_id,
\* stop_nr) index would enforce that ReorderVisit and OptimizeGroup park rows
\* for, and that no migration creates.
UniqueStops ==
    \A v, w \in live :
        v # w /\ groupId[v] = groupId[w] /\ groupId[v] # NoGroup /\ stopNr[v] # Null
            => stopNr[v] # stopNr[w]

Ascending(g) ==
    \A v, w \in Members(g) :
        stopNr[v] < stopNr[w] => Deref(segmentIndex[v]) <= Deref(segmentIndex[w])

\* Along the stops of a group segment_index never falls, so each segment is one
\* uninterrupted block and the blocks come in the order the optimizer uses.
SegmentsAscend == \A g \in Groups : Ascending(g)

\* JoinSegment: the guard proves segment_index >= 1 for every affected row.
JoinGuardProves ==
    \A v \in Visits : JoinAccepted(v) =>
        \A x \in TailFrom(v) : segmentIndex[x] >= 1

\* A drawn route shows the stops a group has now, in their order.
Fresh(g) == route[g] = NoRoute \/ route[g] \in StopOrders(Members(g))

\* Worker w has just committed the new stop order of group g.
Stored(w, g) == /\ task[w].step = "solve" /\ task[w].group = g
                /\ task'[w].step = "ordered"

Left(g) == Members(g) \ Members(g)' # {}

\* A drawn route stops being the current one only because a visit left the
\* group or because OptimizeGroup, which draws a new one next, wrote an order.
StaleOnlyByLeavingOrOptimizing ==
    [][\A g \in Groups : Fresh(g) /\ ~Fresh(g)' =>
          Left(g) \/ \E w \in Workers : Stored(w, g)]_vars

\* Whatever moves did to the blocks of a group, optimizing it puts them back
\* into one ascending run.
OptimizeRestoresBlocks ==
    [][\A w \in Workers, g \in Groups : Stored(w, g) => Ascending(g)']_vars

Rank(v) == Cardinality({x \in Members(groupId[v]) : stopNr[x] < stopNr[v]})
Alone(v) == \A x \in Members(groupId[v]) \ {v} :
                Deref(segmentIndex[x]) # Deref(segmentIndex[v])

\* README: a stop in a segment of its own is locked, the optimizer never
\* moves it.
LockedStaysPut ==
    [][\A w \in Workers, g \in Groups : Stored(w, g) =>
          \A v \in Members(g) : Alone(v) => Rank(v)' = Rank(v)]_vars

\* While requests do not overlap, a visit whose letter was sent goes back to
\* "planned" only by being assigned to another group. A letter recorded between
\* the commit of AssignVisitsToGroup and its confirmation of the statuses is
\* undone (bug_letter_undone).
LetterStaysSent ==
    [][\A v \in Visits : statusId[v] = 3 /\ statusId'[v] = 2
          => groupId'[v] # groupId[v]]_vars

\* Even with requests interleaved, only the write of an optimized order can
\* put two visits of a group at one stop.
OnlyOptimizeDuplicates ==
    [][UniqueStops /\ ~UniqueStops' =>
          \E w \in Workers, g \in Groups : Stored(w, g)]_vars

=============================================================================
