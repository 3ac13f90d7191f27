------------------------- MODULE RouteSegmentProofs -------------------------
(***************************************************************************)
(* Proofs about RoutePlanning when a request is answered before the next   *)
(* one arrives, for any number of visits and groups: the segments of a     *)
(* group stay blocks, the optimizer respects them, and the drawn route and *)
(* the letter of a visit go stale only in the ways the planner asked for.  *)
(* At the end, that RoutePlanning implements RouteBoard: while no visit is *)
(* moved on its own and no row is of the seed, every request changes the   *)
(* lines of the groups in one of the ways of the board, or not at all.     *)
(***************************************************************************)
EXTENDS RoutePlanningProofs, RoutePlanningBoard

LEMMA MembersAreVisits ==
    ASSUME TypeOK, NEW g
    PROVE  \A v \in Members(g) : /\ v \in Visits /\ v \in live /\ groupId[v] = g
                                 /\ stopNr[v] \in Places /\ segmentIndex[v] \in Places
                                 /\ Deref(segmentIndex[v]) \in Nat
BY DerefType DEF TypeOK, Members

----------------------------------------------------------------------------
\* What the optimizer does to the segments.

\* Whatever the solver answers and whichever of its calls fail, every place of a
\* visit is in front of every place of a visit of a later segment.
LEMMA SegmentsApart ==
    ASSUME NEW S \in SUBSET Visits, NEW s \in Snapshots(S),
           NEW places \in optimizeFree(s) \cup optimizeSegmented(s),
           NEW v \in S, NEW w \in S, s[v].seg < s[w].seg
    PROVE  \A i \in places[v], j \in places[w] : i \in Nat /\ j \in Nat /\ i < j
<1>1. places[v] \subseteq Nat /\ places[w] \subseteq Nat
  BY StoredPlace
<1>2. CASE places \in optimizeFree(s)
  <2>1. PICK p \in Tours(s) : places = [x \in DOMAIN s |-> {p[x]}]
    BY <1>2 DEF optimizeFree
  <2>2. DOMAIN s = S /\ p[v] < p[w]
    BY TourType
  <2>3. places[v] = {p[v]} /\ places[w] = {p[w]}
    BY <2>1, <2>2
  <2> QED
    BY <1>1, <2>2, <2>3
<1>3. CASE places \in optimizeSegmented(s)
  <2>1. PICK failed \in SUBSET NonLast(s), p \in Tours(s) : places = PlacesOf(s, p, failed)
    BY <1>3 DEF optimizeSegmented
  <2> DEFINE at(x) == p[x] + Shift(s, failed, x)
  <2>2. /\ DOMAIN s = S /\ p[v] < p[w]
        /\ \A x \in S : p[x] \in Nat /\ s[x].seg \in Nat
    BY TourType DEF Snapshots
  <2>3. \A x \in S : places[x] = IF x \in Borrowed(s, p, failed) THEN {at(x) - 1, at(x)}
                                                           ELSE {at(x)}
    BY <2>1, <2>2 DEF PlacesOf
  <2>4. /\ Shift(s, failed, v) \in Nat /\ Shift(s, failed, w) \in Nat
        /\ Shift(s, failed, v) <= Shift(s, failed, w)
        /\ \A k \in failed : s[v].seg <= k /\ k < s[w].seg
              => Shift(s, failed, v) < Shift(s, failed, w)
    <3>1. s[v].seg <= s[w].seg /\ s[w].seg <= s[w].seg
      BY <2>2
    <3> QED
      BY <3>1, ShiftGrows
  <2>5. at(v) < at(w)
    BY <2>2, <2>4
  <2>6. ASSUME w \in Borrowed(s, p, failed) PROVE at(v) < at(w) - 1
    <3>1. PICK k \in failed : /\ k < s[w].seg
                              /\ \A j \in Segments(s) : j <= k \/ j >= s[w].seg
      BY <2>6 DEF Borrowed
    <3>2. s[v].seg \in Segments(s) /\ k \in Segments(s)
      BY <2>2 DEF Segments, NonLast
    <3>3. k \in Nat
      BY <3>2, <2>2 DEF Segments
    <3>4. s[v].seg <= k
      BY <3>1, <3>2, <3>3, <2>2
    <3> QED
      BY <3>1, <3>4, <2>2, <2>4
  <2>7. at(v) \in Nat /\ at(w) \in Nat
    BY <2>2, <2>4
  <2>8. \A i \in places[v] : i = at(v) \/ i = at(v) - 1
    BY <2>3
  <2>9. \A j \in places[w] : at(v) < j
    BY <2>3, <2>5, <2>6
  <2> QED
    BY <1>1, <2>7, <2>8, <2>9
<1> QED
  BY <1>2, <1>3

\* The group a stored order is for has the rows the solver was given, each now
\* at a place of its list; a row that had no number and is first keeps none.
LEMMA StoredPlaces ==
    ASSUME TypeOK, SnapshotCurrent, NEW w \in Workers, StoreOrder(w),
           NEW g, g = task[w].group
    PROVE  /\ g \in Groups
           /\ UNCHANGED <<live, groupId, segmentIndex>>
           /\ \A v \in Visits : v \notin Members(g) => stopNr'[v] = stopNr[v]
           /\ \A v \in Visits : stopNr'[v] = stopNr[v] \/ stopNr'[v] \in Nat
           /\ \A u, v \in Members(g) :
                 Deref(segmentIndex[u]) < Deref(segmentIndex[v]) => stopNr'[u] < stopNr'[v]
<1>0. PICK s, S : s = task[w].snap /\ S = DOMAIN s
  OBVIOUS
<1>1. g \in Groups /\ S \in SUBSET Visits /\ s \in Snapshots(S)
  BY <1>0, TaskFields DEF TypeOK, StoreOrder
<1>2. PICK places \in optimizeFree(s) \cup optimizeSegmented(s) :
        stopNr' = [v \in Visits |-> IF v \in S /\ v \in Writes(s, places)
                                    THEN LastWrite(s, places, v) ELSE stopNr[v]]
  BY <1>0 DEF StoreOrder
<1>3. /\ S = Members(g)
      /\ \A v \in S : s[v] = [stop |-> Deref(stopNr[v]), seg |-> Deref(segmentIndex[v])]
  BY <1>0 DEF SnapshotCurrent, StoreOrder
<1>4. \A v \in S : s[v].stop = Deref(stopNr[v]) /\ s[v].seg = Deref(segmentIndex[v])
  <2> TAKE v \in S
  <2>1. s[v] = [stop |-> Deref(stopNr[v]), seg |-> Deref(segmentIndex[v])]
    BY <1>3
  <2> QED
    BY <2>1
<1> DEFINE final(v) == IF v \in Writes(s, places) THEN LastWrite(s, places, v)
                                                  ELSE s[v].stop
<1>5. \A v \in S : final(v) \in places[v] /\ final(v) \in Nat
  BY <1>1, StoredPlace
<1>6. \A v \in S : stopNr'[v] = final(v) \/ (stopNr'[v] = -1 /\ final(v) = 0)
  <2> TAKE v \in S
  <2>1. v \in Visits
    BY <1>1
  <2>2. CASE v \in Writes(s, places)
    BY <1>2, <2>1, <2>2
  <2>3. CASE v \notin Writes(s, places)
    <3>1. stopNr'[v] = stopNr[v] /\ final(v) = Deref(stopNr[v])
      BY <1>2, <1>4, <2>1, <2>3
    <3> QED
      BY <3>1 DEF Deref, Null
  <2> QED
    BY <2>2, <2>3
<1> HIDE DEF final
<1>8. \A v \in Visits : stopNr'[v] = stopNr[v] \/ stopNr'[v] \in Nat
  BY <1>1, <1>2, StoredPlace
<1>7. ASSUME NEW u \in S, NEW v \in S, Deref(segmentIndex[u]) < Deref(segmentIndex[v])
      PROVE  stopNr'[u] < stopNr'[v]
  <2>1. s[u].seg < s[v].seg
    BY <1>4, <1>7
  <2>2. final(u) < final(v)
    BY <2>1, <1>1, <1>5, SegmentsApart
  <2> QED
    BY <2>2, <1>5, <1>6
<1> QED
  BY <1>1, <1>2, <1>3, <1>7, <1>8 DEF StoreOrder

LEMMA StoreOrderAscends ==
    ASSUME TypeOK, SnapshotCurrent, NEW w \in Workers, StoreOrder(w),
           NEW g, g = task[w].group, stopNr' \in [Visits -> Places]
    PROVE  Ascending(g)'
<1>1. /\ UNCHANGED <<live, groupId, segmentIndex>>
      /\ \A u, v \in Members(g) :
            Deref(segmentIndex[u]) < Deref(segmentIndex[v]) => stopNr'[u] < stopNr'[v]
  BY StoredPlaces
<1>2. SUFFICES ASSUME NEW u \in Members(g), NEW v \in Members(g), stopNr'[u] < stopNr'[v]
               PROVE  Deref(segmentIndex[u]) <= Deref(segmentIndex[v])
  BY <1>1 DEF Ascending, Members, Deref
<1>3. /\ Deref(segmentIndex[u]) \in Nat /\ Deref(segmentIndex[v]) \in Nat
      /\ u \in Visits /\ v \in Visits
  BY MembersAreVisits
<1>4. stopNr'[u] \in Int /\ stopNr'[v] \in Int
  BY <1>3 DEF Places, Null
<1> QED
  BY <1>1, <1>2, <1>3, <1>4

\* Only StoreOrder takes a request from the solver to its drawn route.
LEMMA StoredByStoreOrder ==
    ASSUME TypeOK, [Next]_vars, NEW w \in Workers, NEW g, Stored(w, g)
    PROVE  StoreOrder(w) /\ g = task[w].group
<1>1. task[w].step = "solve" /\ task[w].group = g /\ task'[w].step = "ordered"
  BY DEF Stored
<1>2. task'[w] # task[w]
  BY <1>1
<1>3. PICK u \in Workers : Start(u) \/ Continue(u)
  <2>1. ~UNCHANGED task
    BY <1>2
  <2> QED
    BY <2>1 DEF Next, vars, Edit, ReorderVisit, SplitSegment, JoinSegment, CommitEdit,
                Regroup, ChangeGroupId, Deletion, DeleteVisit, LetterSent, VisitLetterSent
<1>4. PICK t : Become(u, t) /\ (t.step = "ordered" => StoreOrder(u))
  <2>1. CASE \E S \in (SUBSET live) \ {{}} : \E sel \in SetToSeqs(S) : AssignVisitsToGroup(u, sel)
    <3>1. PICK sel : AssignVisitsToGroup(u, sel)
      BY <2>1
    <3>2. Become(u, [step |-> "confirm", todo |-> sel])
      BY <3>1 DEF AssignVisitsToGroup
    <3> QED
      BY <3>2
  <2>2. CASE \E h \in Groups : OptimizeGroup(u, h)
    <3>1. PICK h, snap : Become(u, [step |-> "solve", group |-> h, snap |-> snap])
      BY <2>2 DEF OptimizeGroup
    <3> QED
      BY <3>1
  <2>3. CASE (\E h \in Groups : RecomputeGroupRoute(u, h)) \/ OptimizeRoute(u)
    <3>1. PICK h, order : Become(u, IF order = <<>> THEN Idle
                                    ELSE [step |-> "draw", group |-> h, order |-> order])
      BY <2>3 DEF RecomputeGroupRoute, OptimizeRoute, ReadOrder
    <3> QED
      BY <3>1 DEF Idle
  <2>4. CASE ConfirmStatus(u)
    BY <2>4 DEF ConfirmStatus, Idle
  <2>5. CASE StoreOrder(u)
    BY <2>5 DEF StoreOrder
  <2>6. CASE OptimizeFails(u) \/ StoreRoute(u) \/ DrawFails(u)
    BY <2>6 DEF OptimizeFails, StoreRoute, DrawFails, Idle
  <2> QED
    BY <1>3, <2>1, <2>2, <2>3, <2>4, <2>5, <2>6 DEF Start, Continue
<1>5. task'[w] = IF w = u THEN t ELSE task[w]
  BY <1>4 DEF TypeOK, Become
<1> QED
  BY <1>1, <1>2, <1>4, <1>5

\* Whatever moves between groups did to the blocks of a group, a stored order
\* puts them back into one ascending run while requests do not overlap
\* (OptimizeGroup, optimizeFree, optimizeSegmented).
THEOREM OptimizingRestoresBlocks ==
    ASSUME ~Overlapping
    PROVE  Spec => OptimizeRestoresBlocks
<1> DEFINE A == \A w \in Workers, g \in Groups : Stored(w, g) => Ascending(g)'
<1>1. SerialInv /\ [Next]_vars => A
  <2> SUFFICES ASSUME SerialInv, [Next]_vars, NEW w \in Workers, NEW g \in Groups, Stored(w, g)
               PROVE  Ascending(g)'
    OBVIOUS
  <2>1. TypeOK /\ SnapshotCurrent
    BY DEF SerialInv
  <2>2. stopNr' \in [Visits -> Places]
    BY <2>1, NextType DEF TypeOK
  <2> QED
    BY <2>1, <2>2, StoredByStoreOrder, StoreOrderAscends
<1>2. SerialInv /\ [Next]_vars => SerialInv'
  BY SerialStep
<1>3. SerialInv /\ [Next]_vars => [A]_vars
  BY <1>1
<1> HIDE DEF A
<1>4. Spec => [][A]_vars
  BY SerialInit, <1>2, <1>3, PTL DEF Spec
<1> QED
  BY <1>4 DEF A, OptimizeRestoresBlocks

----------------------------------------------------------------------------
\* Segments are blocks.

\* A group that gains no visit and whose rows stay as they are.
LEMMA AscendsKept ==
    ASSUME NEW g, Ascending(g), Members(g)' \subseteq Members(g),
           \A v \in Members(g) : stopNr'[v] = stopNr[v] /\ segmentIndex'[v] = segmentIndex[v]
    PROVE  Ascending(g)'
<1>1. \A v \in Members(g)' : /\ v \in Members(g) /\ stopNr'[v] = stopNr[v]
                             /\ Deref(segmentIndex[v])' = Deref(segmentIndex[v])
  BY DEF Deref
<1> SUFFICES ASSUME NEW u \in Members(g)', NEW v \in Members(g)', stopNr'[u] < stopNr'[v]
             PROVE  Deref(segmentIndex[u])' <= Deref(segmentIndex[v])'
  BY DEF Ascending
<1>2. u \in Members(g) /\ v \in Members(g) /\ stopNr[u] < stopNr[v]
  BY <1>1
<1>3. Deref(segmentIndex[u]) <= Deref(segmentIndex[v])
  BY <1>2 DEF Ascending
<1> QED
  BY <1>1, <1>3

\* A row of a group is in no other group.
LEMMA OneGroup ==
    ASSUME NEW g, NEW h, g # h, NEW v \in Members(g)
    PROVE  v \notin Members(h)
BY DEF Members

\* A swap exchanges the places of two visits of one segment.
LEMMA ReorderAscends ==
    ASSUME TypeOK, SegmentsAscend, NEW v \in Visits, NEW side, ReorderVisit(v, side)
    PROVE  SegmentsAscend'
<1>1. PICK n \in Neighbours(v, side) : /\ Deref(segmentIndex[v]) = Deref(segmentIndex[n])
                                       /\ stopNr' = Swapped(v, n)
  BY DEF ReorderVisit
<1>2. UNCHANGED <<live, groupId, segmentIndex>>
  BY DEF ReorderVisit, CommitEdit
<1>3. /\ groupId[v] \in Groups /\ v \in Members(groupId[v])
      /\ n \in Members(groupId[v]) /\ n # v
  BY <1>1 DEF ReorderVisit, Planned, Neighbours, Members, TypeOK
<1>4. n \in Visits /\ stopNr' = [stopNr EXCEPT ![v] = stopNr[n], ![n] = stopNr[v]]
  BY <1>1, <1>3, MembersAreVisits DEF Swapped
<1>5. /\ stopNr'[v] = stopNr[n] /\ stopNr'[n] = stopNr[v]
      /\ \A x \in Visits \ {v, n} : stopNr'[x] = stopNr[x]
  BY <1>3, <1>4 DEF TypeOK
<1> SUFFICES ASSUME NEW g \in Groups PROVE Ascending(g)'
  BY DEF SegmentsAscend
<1>6. Ascending(g) /\ \A x \in Members(g) : x \in Visits
  BY MembersAreVisits DEF SegmentsAscend
<1>7. CASE g # groupId[v]
  <2>1. \A x \in Members(g) : x \in Visits \ {v, n}
    BY <1>3, <1>6, <1>7, OneGroup
  <2>2. \A x \in Members(g) : stopNr'[x] = stopNr[x] /\ segmentIndex'[x] = segmentIndex[x]
    BY <1>2, <1>5, <2>1
  <2>3. Members(g)' \subseteq Members(g)
    BY <1>2 DEF Members
  <2> QED
    BY <1>6, <2>2, <2>3, AscendsKept
<1>8. CASE g = groupId[v]
  <2> DEFINE seg(x) == Deref(segmentIndex[x])
  <2>1. seg(v) = seg(n) /\ v \in Members(g) /\ n \in Members(g)
    BY <1>1, <1>3, <1>8
  <2>2. \A x, y \in Members(g) : stopNr[x] < stopNr[y] => seg(x) <= seg(y)
    BY <1>6 DEF Ascending
  <2>3. SUFFICES ASSUME NEW x \in Members(g), NEW y \in Members(g), stopNr'[x] < stopNr'[y]
                 PROVE  seg(x) <= seg(y)
    BY <1>2 DEF Ascending, Members, Deref
  <2>4. \A z \in Members(g) : seg(z) \in Nat /\ stopNr[z] \in Int
    BY MembersAreVisits DEF Places, Null
  <2> HIDE DEF seg
  <2>5. PICK x1 \in Members(g), y1 \in Members(g) :
           /\ stopNr[x1] = stopNr'[x] /\ seg(x1) = seg(x)
           /\ stopNr[y1] = stopNr'[y] /\ seg(y1) = seg(y)
    BY <1>5, <1>6, <2>1
  <2> QED
    BY <2>2, <2>3, <2>5
<1> QED
  BY <1>7, <1>8

\* A split raises the segments of a tail.
LEMMA SplitAscends ==
    ASSUME TypeOK, SegmentsAscend, NEW v \in Visits, SplitSegment(v)
    PROVE  SegmentsAscend'
<1>1. /\ UNCHANGED <<live, groupId, stopNr>>
      /\ segmentIndex' = [x \in Visits |-> IF x \in TailFrom(v)
                                           THEN Deref(segmentIndex[x]) + 1
                                           ELSE segmentIndex[x]]
  BY DEF SplitSegment, CommitEdit
<1> SUFFICES ASSUME NEW g \in Groups PROVE Ascending(g)'
  BY DEF SegmentsAscend
<1>2. Ascending(g)
  BY DEF SegmentsAscend
<1>3. CASE g # groupId[v]
  <2>1. \A x \in Members(g) : x \in Visits /\ x \notin TailFrom(v)
    BY <1>3, MembersAreVisits, OneGroup DEF TailFrom
  <2>2. \A x \in Members(g) : stopNr'[x] = stopNr[x] /\ segmentIndex'[x] = segmentIndex[x]
    BY <1>1, <2>1
  <2>3. Members(g)' \subseteq Members(g)
    BY <1>1 DEF Members
  <2> QED
    BY <1>2, <2>2, <2>3, AscendsKept
<1>4. CASE g = groupId[v]
  <2> DEFINE seg(x) == Deref(segmentIndex[x])
             new(x) == IF stopNr[x] >= stopNr[v] THEN seg(x) + 1 ELSE seg(x)
  <2>1. \A x \in Members(g) : seg(x) \in Nat /\ stopNr[x] \in Int /\ x \in Visits
    BY MembersAreVisits DEF Places, Null
  <2>2. stopNr[v] \in Int
    BY DEF TypeOK, Places, Null
  <2>3. \A x \in Members(g) : Deref(segmentIndex'[x]) = new(x)
    <3> TAKE x \in Members(g)
    <3>1. CASE stopNr[x] >= stopNr[v]
      <4>1. segmentIndex'[x] = seg(x) + 1
        BY <1>1, <1>4, <2>1, <3>1 DEF TailFrom
      <4> QED
        BY <2>1, <3>1, <4>1 DEF Deref, Null
    <3>2. CASE ~(stopNr[x] >= stopNr[v])
      BY <1>1, <2>1, <3>2 DEF TailFrom
    <3> QED
      BY <3>1, <3>2
  <2>4. SUFFICES ASSUME NEW x \in Members(g), NEW y \in Members(g), stopNr[x] < stopNr[y]
                 PROVE  new(x) <= new(y)
    BY <1>1, <2>3 DEF Ascending, Members, Deref
  <2>5. seg(x) <= seg(y)
    BY <1>2, <2>4 DEF Ascending
  <2> QED
    BY <2>1, <2>2, <2>4, <2>5
<1> QED
  BY <1>3, <1>4

\* The nearest stop above a visit.
LEMMA NextAbove ==
    ASSUME TypeOK, NEW v \in Visits, Planned(v), NEW n \in Neighbours(v, "up")
    PROVE  /\ groupId[v] \in Groups /\ v \in Members(groupId[v])
           /\ n \in Members(groupId[v]) /\ n \in Visits
           /\ stopNr[v] \in Nat /\ stopNr[n] \in Nat /\ stopNr[n] < stopNr[v]
           /\ \A x \in Members(groupId[v]) : stopNr[x] < stopNr[v] => stopNr[x] <= stopNr[n]
<1>1. groupId[v] \in Groups /\ v \in Members(groupId[v])
  BY DEF TypeOK, Planned, Members
<1>2. /\ n \in Members(groupId[v]) /\ stopNr[n] # Null /\ stopNr[n] < stopNr[v]
      /\ \A x \in Members(groupId[v]) \ {v} :
            stopNr[x] # Null /\ stopNr[x] < stopNr[v] => stopNr[n] = stopNr[x] \/ stopNr[n] > stopNr[x]
  BY DEF Neighbours
<1>3. \A x \in Members(groupId[v]) : x \in Visits /\ (stopNr[x] \in Nat \/ stopNr[x] = -1)
  BY MembersAreVisits DEF Places, Null
<1>4. stopNr[v] \in Nat /\ stopNr[n] \in Nat
  BY <1>1, <1>2, <1>3 DEF Planned, Null
<1>5. ASSUME NEW x \in Members(groupId[v]), stopNr[x] < stopNr[v]
      PROVE  stopNr[x] <= stopNr[n]
  BY <1>2, <1>3, <1>4, <1>5 DEF Null
<1> QED
  BY <1>1, <1>2, <1>3, <1>4, <1>5

\* A join lowers the segments of a tail, and the visit in front of the tail is of
\* a lower segment, or the request is refused.
LEMMA JoinAscends ==
    ASSUME TypeOK, UniqueStops, SegmentsAscend, NEW v \in Visits, JoinSegment(v)
    PROVE  SegmentsAscend'
<1>1. /\ UNCHANGED <<live, groupId, stopNr>>
      /\ segmentIndex' = [x \in Visits |-> IF x \in TailFrom(v) THEN segmentIndex[x] - 1
                                                             ELSE segmentIndex[x]]
      /\ \A x \in TailFrom(v) : segmentIndex[x] # Null /\ segmentIndex[x] >= 1
  BY DEF JoinSegment, CommitEdit
<1>2. PICK n \in Neighbours(v, "up") :
         segmentIndex[n] = Null \/ segmentIndex[n] # segmentIndex[v]
  BY DEF JoinSegment, JoinAccepted
<1>3. /\ groupId[v] \in Groups /\ v \in Members(groupId[v])
      /\ n \in Members(groupId[v]) /\ n \in Visits
      /\ stopNr[v] \in Nat /\ stopNr[n] \in Nat /\ stopNr[n] < stopNr[v]
      /\ \A x \in Members(groupId[v]) : stopNr[x] < stopNr[v] => stopNr[x] <= stopNr[n]
  BY NextAbove DEF JoinSegment, JoinAccepted
<1> SUFFICES ASSUME NEW g \in Groups PROVE Ascending(g)'
  BY DEF SegmentsAscend
<1>4. Ascending(g)
  BY DEF SegmentsAscend
<1>5. CASE g # groupId[v]
  <2>1. \A x \in Members(g) : x \in Visits /\ x \notin TailFrom(v)
    BY <1>5, MembersAreVisits, OneGroup DEF TailFrom
  <2>2. \A x \in Members(g) : stopNr'[x] = stopNr[x] /\ segmentIndex'[x] = segmentIndex[x]
    BY <1>1, <2>1
  <2>3. Members(g)' \subseteq Members(g)
    BY <1>1 DEF Members
  <2> QED
    BY <1>4, <2>2, <2>3, AscendsKept
<1>6. CASE g = groupId[v]
  <2> DEFINE seg(x) == Deref(segmentIndex[x])
             new(x) == IF stopNr[x] >= stopNr[v] THEN seg(x) - 1 ELSE seg(x)
  <2>1. \A x \in Members(g) : seg(x) \in Nat /\ stopNr[x] \in Int /\ x \in Visits
    BY MembersAreVisits DEF Places, Null
  <2>2. /\ \A x, y \in Members(g) : stopNr[x] < stopNr[y] => seg(x) <= seg(y)
        /\ \A x, y \in Members(g) : stopNr[x] = stopNr[y] /\ stopNr[x] \in Nat => x = y
    <3>1. \A x \in Members(g) : x \in live /\ groupId[x] = g /\ g # NoGroup
      BY MembersAreVisits DEF Groups, NoGroup
    <3> QED
      BY <1>4, <3>1 DEF Ascending, UniqueStops, Null
  <2>3. \A x \in Members(g) : stopNr[x] >= stopNr[v] =>
           segmentIndex[x] # Null /\ segmentIndex[x] >= 1 /\ seg(x) = segmentIndex[x]
    BY <1>1, <1>6 DEF TailFrom, Deref
  <2>4. \A x \in Members(g) : Deref(segmentIndex'[x]) = new(x)
    <3> TAKE x \in Members(g)
    <3>1. CASE stopNr[x] >= stopNr[v]
      <4>1. segmentIndex'[x] = segmentIndex[x] - 1
        BY <1>1, <1>6, <2>1, <3>1 DEF TailFrom
      <4> QED
        BY <2>1, <2>3, <3>1, <4>1 DEF Deref, Null
    <3>2. CASE ~(stopNr[x] >= stopNr[v])
      BY <1>1, <2>1, <3>2 DEF TailFrom
    <3> QED
      BY <3>1, <3>2
  <2>5. v \in Members(g) /\ n \in Members(g)
    BY <1>3, <1>6
  <2>6. seg(n) < seg(v)
    <3>1. seg(v) = segmentIndex[v] /\ seg(v) >= 1
      BY <1>3, <2>3, <2>5
    <3>2. seg(n) # seg(v)
      BY <1>2, <3>1 DEF Deref, Null
    <3> QED
      BY <1>3, <2>1, <2>2, <2>5, <3>2
  <2>7. SUFFICES ASSUME NEW x \in Members(g), NEW y \in Members(g), stopNr[x] < stopNr[y]
                 PROVE  new(x) <= new(y)
    BY <1>1, <2>4 DEF Ascending, Members, Deref
  <2> HIDE DEF seg
  <2>8. CASE stopNr[x] < stopNr[v] /\ stopNr[y] >= stopNr[v]
    <3>1. seg(x) <= seg(n)
      BY <1>3, <1>6, <2>1, <2>2, <2>5, <2>8
    <3>2. seg(v) <= seg(y)
      BY <1>3, <2>1, <2>2, <2>5, <2>8
    <3> QED
      BY <1>3, <2>1, <2>5, <2>6, <2>8, <3>1, <3>2
  <2>9. CASE ~(stopNr[x] < stopNr[v] /\ stopNr[y] >= stopNr[v])
    <3>1. seg(x) <= seg(y)
      BY <2>2, <2>7
    <3> QED
      BY <1>3, <2>1, <2>7, <2>9, <3>1
  <2> QED
    BY <2>8, <2>9
<1> QED
  BY <1>5, <1>6

\* The visits chosen, which sel lists, are the only ones of a group nobody was in,
\* as one segment; the other rows stay.
Assigned(w, sel, g, chosen) ==
    /\ Members(g) = {} /\ \A x \in live : groupId[x] < g
    /\ chosen \subseteq live /\ \A i \in DOMAIN sel : sel[i] \in chosen
    /\ \A x \in chosen : /\ groupId'[x] = g /\ stopNr'[x] \in Nat
                         /\ segmentIndex'[x] = 0 /\ statusId'[x] = 2
    /\ \A x \in Visits \ chosen :
          /\ groupId'[x] = groupId[x] /\ stopNr'[x] = stopNr[x]
          /\ segmentIndex'[x] = segmentIndex[x] /\ statusId'[x] = statusId[x]
    /\ live' = live /\ route' = route
    /\ Become(w, [step |-> "confirm", todo |-> sel])

LEMMA AssignedGroup ==
    ASSUME TypeOK, NEW w \in Workers, NEW S \in (SUBSET live) \ {{}},
           NEW sel \in SetToSeqs(S), AssignVisitsToGroup(w, sel)
    PROVE  \E g \in Groups, chosen \in SUBSET Visits : Assigned(w, sel, g, chosen)
<1> DEFINE chosen == {sel[i] : i \in DOMAIN sel}
           at(x) == CHOOSE i \in DOMAIN sel : sel[i] = x
<1>1. sel \in Seq(Visits)
  BY Listing DEF TypeOK
<1>2. /\ chosen \subseteq live /\ chosen \in SUBSET Visits
      /\ \A i \in DOMAIN sel : sel[i] \in chosen
  BY DEF AssignVisitsToGroup, TypeOK
<1>3. \A x \in chosen : at(x) - 1 \in Nat
  <2>1. \A x \in chosen : at(x) \in DOMAIN sel
    OBVIOUS
  <2> HIDE DEF chosen, at
  <2> QED
    BY <1>1, <2>1
<1>4. PICK g \in nextVacantGroupId :
        groupId' = [x \in Visits |-> IF x \in chosen THEN g ELSE groupId[x]]
  BY DEF AssignVisitsToGroup
<1>5. g \in Groups /\ \A x \in live : groupId[x] < g
  BY DEF nextVacantGroupId
<1>6. Members(g) = {}
  BY <1>5 DEF Members, Groups, TypeOK, NoGroup
<1>7. /\ stopNr' = [x \in Visits |-> IF x \in chosen THEN at(x) - 1 ELSE stopNr[x]]
      /\ segmentIndex' = [x \in Visits |-> IF x \in chosen THEN 0 ELSE segmentIndex[x]]
      /\ statusId' = [x \in Visits |-> IF x \in chosen THEN 2 ELSE statusId[x]]
      /\ live' = live /\ route' = route
      /\ Become(w, [step |-> "confirm", todo |-> sel])
  BY DEF AssignVisitsToGroup
<1> HIDE DEF chosen, at
<1>8. \A x \in chosen : /\ groupId'[x] = g /\ stopNr'[x] \in Nat
                        /\ segmentIndex'[x] = 0 /\ statusId'[x] = 2
  BY <1>2, <1>3, <1>4, <1>7
<1>9. \A x \in Visits \ chosen :
         /\ groupId'[x] = groupId[x] /\ stopNr'[x] = stopNr[x]
         /\ segmentIndex'[x] = segmentIndex[x] /\ statusId'[x] = statusId[x]
  BY <1>4, <1>7
<1> QED
  BY <1>2, <1>5, <1>6, <1>7, <1>8, <1>9 DEF Assigned

LEMMA AssignAscends ==
    ASSUME TypeOK, SegmentsAscend, NEW w \in Workers, NEW S \in (SUBSET live) \ {{}},
           NEW sel \in SetToSeqs(S), AssignVisitsToGroup(w, sel)
    PROVE  SegmentsAscend'
<1>0. PICK g \in Groups, chosen \in SUBSET Visits : Assigned(w, sel, g, chosen)
  BY AssignedGroup
<1>1. /\ Members(g) = {}
      /\ \A x \in chosen : groupId'[x] = g /\ segmentIndex'[x] = 0
      /\ \A x \in Visits \ chosen : /\ groupId'[x] = groupId[x] /\ stopNr'[x] = stopNr[x]
                                    /\ segmentIndex'[x] = segmentIndex[x]
      /\ live' = live
  BY <1>0 DEF Assigned
<1> SUFFICES ASSUME NEW h \in Groups PROVE Ascending(h)'
  BY DEF SegmentsAscend
<1>2. live \subseteq Visits
  BY DEF TypeOK
<1>3. CASE h = g
  <2>1. \A x \in Members(h)' : x \in chosen
    BY <1>1, <1>2, <1>3 DEF Members
  <2>2. \A x \in Members(h)' : Deref(segmentIndex[x])' = 0
    BY <1>1, <2>1 DEF Deref, Null
  <2> QED
    BY <2>2 DEF Ascending
<1>4. CASE h # g
  <2>1. Members(h)' \subseteq Members(h)
    BY <1>1, <1>2, <1>4 DEF Members
  <2>2. \A x \in Members(h)' : x \in Visits \ chosen
    BY <1>1, <1>2, <1>4 DEF Members
  <2>3. /\ \A x \in Members(h)' : x \in Members(h) /\ stopNr'[x] = stopNr[x]
                               /\ Deref(segmentIndex[x])' = Deref(segmentIndex[x])
        /\ Ascending(h)
    BY <1>1, <2>1, <2>2 DEF Deref, SegmentsAscend
  <2> QED
    BY <2>3 DEF Ascending
<1> QED
  BY <1>3, <1>4

\* What the blocks need: stops are distinct, and no visit is moved on its own
\* into a group that exists.
LEMMA SegmentsStep ==
    ASSUME ~Overlapping, Movable = {}, SerialInv, SegmentsAscend, [Next]_vars
    PROVE  SegmentsAscend'
<1>1. TypeOK /\ UniqueStops /\ SnapshotCurrent
  BY DEF SerialInv
<1>2. ASSUME UNCHANGED <<groupId, stopNr, segmentIndex>>, live' \subseteq live
      PROVE  SegmentsAscend'
  <2> SUFFICES ASSUME NEW g \in Groups PROVE Ascending(g)'
    BY DEF SegmentsAscend
  <2>1. Members(g)' \subseteq Members(g)
    BY <1>2 DEF Members
  <2> QED
    BY <1>2, <2>1, AscendsKept DEF SegmentsAscend
<1>3. CASE Edit
  BY <1>1, <1>3, ReorderAscends, SplitAscends, JoinAscends DEF Edit
<1>4. CASE Regroup
  BY <1>4 DEF Regroup, ChangeGroupId
<1>5. CASE Deletion \/ LetterSent \/ UNCHANGED vars
  BY <1>2, <1>5 DEF Deletion, DeleteVisit, LetterSent, VisitLetterSent, vars
<1>6. ASSUME NEW w \in Workers, Start(w) \/ Continue(w)
      PROVE  SegmentsAscend'
  <2>1. CASE \E S \in (SUBSET live) \ {{}} : \E sel \in SetToSeqs(S) : AssignVisitsToGroup(w, sel)
    BY <1>1, <2>1, AssignAscends
  <2>2. CASE StoreOrder(w)
    <3>1. stopNr' \in [Visits -> Places]
      BY <1>1, NextType DEF TypeOK
    <3>2. PICK g : g = task[w].group
      OBVIOUS
    <3>3. /\ Ascending(g)' /\ UNCHANGED <<live, groupId, segmentIndex>>
          /\ \A v \in Visits : v \notin Members(g) => stopNr'[v] = stopNr[v]
      BY <1>1, <2>2, <3>1, <3>2, StoreOrderAscends, StoredPlaces
    <3> SUFFICES ASSUME NEW h \in Groups, h # g PROVE Ascending(h)'
      BY <3>3 DEF SegmentsAscend
    <3>4. Members(h)' \subseteq Members(h)
      BY <3>3 DEF Members
    <3>5. \A v \in Members(h) : stopNr'[v] = stopNr[v] /\ segmentIndex'[v] = segmentIndex[v]
      BY <1>1, <3>3, OneGroup, MembersAreVisits
    <3> QED
      BY <3>4, <3>5, AscendsKept DEF SegmentsAscend
  <2>3. CASE \/ \E g \in Groups : OptimizeGroup(w, g) \/ RecomputeGroupRoute(w, g)
             \/ ConfirmStatus(w) \/ OptimizeFails(w) \/ OptimizeRoute(w)
             \/ StoreRoute(w) \/ DrawFails(w)
    <3>1. UNCHANGED <<live, groupId, stopNr, segmentIndex>>
      BY <2>3 DEF OptimizeGroup, RecomputeGroupRoute, ReadOrder, ConfirmStatus, OptimizeFails,
                  OptimizeRoute, StoreRoute, DrawFails, visitVars
    <3> QED
      BY <1>2, <3>1
  <2> QED
    BY <1>6, <2>1, <2>2, <2>3 DEF Start, Continue
<1> QED
  BY <1>3, <1>4, <1>5, <1>6 DEF Next

LEMMA SegmentsStart == Init => SegmentsAscend
BY DEF Init, SegmentsAscend, Ascending, Members, Deref, Null

\* As long as no visit is moved on its own into a group that exists and requests
\* do not overlap, the segments of every group are blocks of its stop order in
\* the order of segment_index, through assignments, swaps, splits, joins, deletes
\* and optimized orders, also for the seed's rows without numbers
\* (ReorderVisit, SplitSegment, JoinSegment, OptimizeGroup).
THEOREM SegmentsAreBlocks ==
    ASSUME ~Overlapping, Movable = {}
    PROVE  Spec => []SegmentsAscend
<1>1. SerialInv /\ SegmentsAscend /\ [Next]_vars => (SerialInv /\ SegmentsAscend)'
  BY SerialStep, SegmentsStep
<1> QED
  BY <1>1, SerialInit, SegmentsStart, PTL DEF Spec

----------------------------------------------------------------------------
\* Joining and locked stops.

\* Without rows of the seed, every visit of a group has both numbers.
Numbered ==
    \A v \in live : groupId[v] # NoGroup => stopNr[v] # Null /\ segmentIndex[v] # Null

\* A row of a group without a stop has no segment either.
Unnumbered ==
    \A v \in live : groupId[v] # NoGroup /\ stopNr[v] = Null => segmentIndex[v] = Null

\* An edit writes numbers, and a segment only where there is a stop.
LEMMA EditNumbers ==
    ASSUME TypeOK, Edit
    PROVE  /\ UNCHANGED <<live, groupId>>
           /\ \A x \in live : /\ stopNr'[x] = Null => stopNr[x] = Null
                              /\ segmentIndex[x] # Null => segmentIndex'[x] # Null
                              /\ stopNr[x] = Null => segmentIndex'[x] = segmentIndex[x]
<1>1. PICK v \in Visits : \/ \E side \in {"up", "down"} : ReorderVisit(v, side)
                          \/ SplitSegment(v)
                          \/ JoinSegment(v)
  BY DEF Edit
<1>2. UNCHANGED <<live, groupId>> /\ Planned(v)
  BY <1>1 DEF ReorderVisit, SplitSegment, JoinSegment, JoinAccepted, CommitEdit
<1>3. \A x \in live : /\ x \in Visits /\ Deref(segmentIndex[x]) \in Nat
                      /\ stopNr[x] \in Int /\ segmentIndex[x] \in Int
  BY DerefType DEF TypeOK, Places, Null
<1>4. \A x \in TailFrom(v) : stopNr[x] # Null
  <2>1. stopNr[v] \in Nat
    BY <1>2 DEF Planned, TypeOK, Places
  <2> QED
    BY <2>1 DEF TailFrom, Null
<1>5. CASE \E side \in {"up", "down"} : ReorderVisit(v, side)
  <2>1. PICK n : /\ n \in Visits /\ stopNr[n] # Null /\ stopNr' = Swapped(v, n)
                 /\ UNCHANGED segmentIndex
    BY <1>5, MembersAreVisits DEF ReorderVisit, Neighbours
  <2> QED
    BY <1>2, <1>3, <2>1 DEF Swapped, Planned, TypeOK
<1>6. CASE SplitSegment(v)
  BY <1>2, <1>3, <1>4, <1>6 DEF SplitSegment, Null
<1>7. CASE JoinSegment(v)
  <2>1. /\ UNCHANGED stopNr
        /\ segmentIndex' = [x \in Visits |-> IF x \in TailFrom(v) THEN segmentIndex[x] - 1
                                                               ELSE segmentIndex[x]]
        /\ \A x \in TailFrom(v) : segmentIndex[x] >= 1
    BY <1>7 DEF JoinSegment
  <2> QED
    BY <1>2, <1>3, <1>4, <2>1 DEF Null
<1> QED
  BY <1>1, <1>5, <1>6, <1>7

\* A row gets numbers, or keeps the ones it has and its group.
KeepsNumbers(x) ==
    \/ stopNr'[x] \in Nat /\ segmentIndex'[x] \in Nat
    \/ /\ groupId'[x] = groupId[x]
       /\ stopNr'[x] = Null => stopNr[x] = Null /\ segmentIndex'[x] = segmentIndex[x]
       /\ segmentIndex'[x] = Null => segmentIndex[x] = Null

\* Everything but a move keeps the numbers.
LEMMA StepNumbers ==
    ASSUME TypeOK, SnapshotCurrent, Movable = {}, [Next]_vars
    PROVE  live' \subseteq live /\ \A x \in live : KeepsNumbers(x)
<1>1. CASE Edit
  <2>1. /\ live' = live /\ groupId' = groupId
        /\ \A x \in live : /\ stopNr'[x] = Null => stopNr[x] = Null
                           /\ segmentIndex[x] # Null => segmentIndex'[x] # Null
                           /\ stopNr[x] = Null => segmentIndex'[x] = segmentIndex[x]
    BY <1>1, EditNumbers
  <2>2. ASSUME NEW x \in live PROVE KeepsNumbers(x)
    <3>1. /\ groupId'[x] = groupId[x]
          /\ stopNr'[x] = Null => stopNr[x] = Null
          /\ segmentIndex'[x] = Null => segmentIndex[x] = Null
          /\ stopNr[x] = Null => segmentIndex'[x] = segmentIndex[x]
      BY <2>1
    <3> QED
      BY <3>1 DEF KeepsNumbers
  <2> QED
    BY <2>1, <2>2
<1>2. CASE Regroup
  BY <1>2 DEF Regroup, ChangeGroupId
<1>3. ASSUME UNCHANGED <<groupId, stopNr, segmentIndex>>, live' \subseteq live
      PROVE  live' \subseteq live /\ \A x \in live : KeepsNumbers(x)
  BY <1>3 DEF KeepsNumbers
<1>4. CASE Deletion \/ LetterSent \/ UNCHANGED vars
  <2>1. UNCHANGED <<groupId, stopNr, segmentIndex>> /\ live' \subseteq live
    BY <1>4 DEF Deletion, DeleteVisit, LetterSent, VisitLetterSent, vars
  <2> QED
    BY <1>3, <2>1
<1>5. ASSUME NEW w \in Workers, Start(w) \/ Continue(w)
      PROVE  live' \subseteq live /\ \A x \in live : KeepsNumbers(x)
  <2>1. CASE \E S \in (SUBSET live) \ {{}} : \E sel \in SetToSeqs(S) : AssignVisitsToGroup(w, sel)
    <3>a. PICK S \in (SUBSET live) \ {{}} :
             \E sel \in SetToSeqs(S) : AssignVisitsToGroup(w, sel)
      BY <2>1
    <3>0. PICK sel \in SetToSeqs(S) : AssignVisitsToGroup(w, sel)
      BY <3>a
    <3>1. PICK g \in Groups, chosen \in SUBSET Visits : Assigned(w, sel, g, chosen)
      BY <3>0, AssignedGroup
    <3>2. \A x \in live : x \in chosen \/ x \in Visits \ chosen
      BY DEF TypeOK
    <3> QED
      BY <3>1, <3>2 DEF Assigned, KeepsNumbers
  <2>2. CASE StoreOrder(w)
    <3>1. /\ UNCHANGED <<live, groupId, segmentIndex>>
          /\ \A x \in Visits : stopNr'[x] = stopNr[x] \/ stopNr'[x] \in Nat
      BY <2>2, StoredPlaces
    <3>2. live \subseteq Visits
      BY DEF TypeOK
    <3> QED
      BY <3>1, <3>2 DEF KeepsNumbers, Null
  <2>3. CASE \/ \E g \in Groups : OptimizeGroup(w, g) \/ RecomputeGroupRoute(w, g)
             \/ ConfirmStatus(w) \/ OptimizeFails(w) \/ OptimizeRoute(w)
             \/ StoreRoute(w) \/ DrawFails(w)
    <3>1. UNCHANGED <<live, groupId, stopNr, segmentIndex>>
      BY <2>3 DEF OptimizeGroup, RecomputeGroupRoute, ReadOrder, ConfirmStatus, OptimizeFails,
                  OptimizeRoute, StoreRoute, DrawFails, visitVars
    <3> QED
      BY <1>3, <3>1
  <2> QED
    BY <1>5, <2>1, <2>2, <2>3 DEF Start, Continue
<1> QED
  BY <1>1, <1>2, <1>3, <1>4, <1>5 DEF Next

LEMMA NumbersStep ==
    ASSUME ~Overlapping, Movable = {}, SerialInv, [Next]_vars
    PROVE  /\ Unnumbered => Unnumbered'
           /\ Numbered => Numbered'
<1>1. live' \subseteq live /\ \A x \in live : KeepsNumbers(x)
  BY StepNumbers DEF SerialInv
<1>2. \A n \in Nat : n # Null
  BY DEF Null
<1>3. ASSUME Unnumbered PROVE Unnumbered'
  BY <1>1, <1>2, <1>3 DEF Unnumbered, KeepsNumbers
<1>4. ASSUME Numbered PROVE Numbered'
  BY <1>1, <1>2, <1>4 DEF Numbered, KeepsNumbers
<1> QED
  BY <1>3, <1>4

\* While requests do not overlap, no visit is moved on its own and no row is of
\* the seed, what JoinSegment has checked does prove that it never writes a
\* negative segment_index, as its comment claims.
THEOREM JoinStaysNonNegative ==
    ASSUME ~Overlapping, Movable = {}, Seeded = {}
    PROVE  Spec => []JoinGuardProves
<1> DEFINE I == SerialInv /\ SegmentsAscend /\ Numbered
<1>1. Init => I
  <2>1. Init => Numbered
    BY DEF Init, Numbered
  <2> QED
    BY <2>1, SerialInit, SegmentsStart
<1>2. I /\ [Next]_vars => I'
  BY SerialStep, SegmentsStep, NumbersStep
<1>3. I => JoinGuardProves
  <2> SUFFICES ASSUME I, NEW v \in Visits, JoinAccepted(v), NEW x \in TailFrom(v)
               PROVE  segmentIndex[x] >= 1
    BY DEF JoinGuardProves
  <2>1. TypeOK /\ UniqueStops /\ SegmentsAscend /\ Numbered
    BY DEF SerialInv
  <2>2. PICK g : g = groupId[v]
    OBVIOUS
  <2>3. PICK n \in Neighbours(v, "up") :
           segmentIndex[n] = Null \/ segmentIndex[n] # segmentIndex[v]
    BY DEF JoinAccepted
  <2>4. /\ g \in Groups /\ v \in Members(g) /\ n \in Members(g)
        /\ stopNr[v] \in Nat /\ stopNr[n] \in Nat /\ stopNr[n] < stopNr[v]
    BY <2>1, <2>2, <2>3, NextAbove DEF JoinAccepted
  <2>5. x \in Members(g) /\ stopNr[x] >= stopNr[v]
    BY <2>2 DEF TailFrom
  <2>6. \A y \in Members(g) : /\ y \in live /\ groupId[y] = g /\ g # NoGroup
                              /\ segmentIndex[y] \in Nat /\ stopNr[y] \in Nat
                              /\ Deref(segmentIndex[y]) = segmentIndex[y]
    <3> TAKE y \in Members(g)
    <3>1. y \in live /\ groupId[y] = g /\ g # NoGroup
      BY <2>1, <2>4, MembersAreVisits DEF Groups, NoGroup
    <3>2. stopNr[y] # Null /\ segmentIndex[y] # Null
      BY <2>1, <3>1 DEF Numbered
    <3> QED
      BY <2>1, <3>1, <3>2, MembersAreVisits DEF Places, Deref
  <2>7. \A y, z \in Members(g) : stopNr[y] < stopNr[z] => segmentIndex[y] <= segmentIndex[z]
    BY <2>1, <2>4, <2>6 DEF SegmentsAscend, Ascending
  <2>8. segmentIndex[v] >= 1
    BY <2>3, <2>4, <2>6, <2>7 DEF Null
  <2>9. CASE stopNr[x] = stopNr[v]
    <3>1. stopNr[v] # Null
      BY <2>4 DEF Null
    <3>2. x = v
      BY <2>1, <2>4, <2>5, <2>6, <2>9, <3>1 DEF UniqueStops
    <3> QED
      BY <2>8, <3>2
  <2>10. CASE stopNr[x] > stopNr[v]
    BY <2>4, <2>5, <2>6, <2>7, <2>8, <2>10
  <2> QED
    BY <2>4, <2>5, <2>6, <2>9, <2>10
<1> QED
  BY <1>1, <1>2, <1>3, PTL DEF Spec

\* A visit alone in its segment shares neither its stop nor its segment.
LEMMA AloneApart ==
    ASSUME TypeOK, UniqueStops, Unnumbered, NEW g \in Groups, NEW v \in Members(g), Alone(v)
    PROVE  \A x \in Members(g) \ {v} : /\ stopNr[x] # stopNr[v]
                                       /\ Deref(segmentIndex[x]) # Deref(segmentIndex[v])
<1> SUFFICES ASSUME NEW x \in Members(g) \ {v}
             PROVE  /\ stopNr[x] # stopNr[v]
                    /\ Deref(segmentIndex[x]) # Deref(segmentIndex[v])
  OBVIOUS
<1>1. /\ x \in live /\ v \in live /\ g # NoGroup
      /\ groupId[x] = g /\ groupId[v] = g
  BY MembersAreVisits DEF Groups, NoGroup
<1>2. Deref(segmentIndex[x]) # Deref(segmentIndex[v])
  BY <1>1 DEF Alone
<1>3. CASE stopNr[v] # Null
  BY <1>1, <1>2, <1>3 DEF UniqueStops
<1>4. CASE stopNr[v] = Null
  <2>1. stopNr[x] = Null => segmentIndex[x] = segmentIndex[v]
    BY <1>1, <1>4 DEF Unnumbered
  <2> QED
    BY <1>2, <1>4, <2>1
<1> QED
  BY <1>2, <1>3, <1>4

\* Storing an order keeps the places of visits that are alone in their segment.
LEMMA StoreOrderLocks ==
    ASSUME TypeOK, TypeOK', UniqueStops, UniqueStops', Unnumbered, Unnumbered',
           SegmentsAscend, SegmentsAscend', SnapshotCurrent,
           NEW w \in Workers, StoreOrder(w), NEW g \in Groups, g = task[w].group,
           NEW v \in Members(g), Alone(v)
    PROVE  Rank(v)' = Rank(v)
<1>1. UNCHANGED <<live, groupId, segmentIndex>>
  BY StoredPlaces
<1>2. groupId[v] = g /\ groupId'[v] = g /\ Members(g)' = Members(g)
  BY <1>1 DEF Members
<1>3. PICK M, seg : M = Members(g) /\ seg = [x \in M |-> Deref(segmentIndex[x])]
  OBVIOUS
<1>4. \A x \in M : seg[x] = Deref(segmentIndex[x])
  BY <1>3
<1>5. \A x \in M : seg[x] \in Nat /\ stopNr[x] \in Int /\ stopNr'[x] \in Int
  BY <1>3, <1>4, MembersAreVisits DEF TypeOK, Places, Null
<1>6. \A x, y \in M : stopNr[x] < stopNr[y] => seg[x] <= seg[y]
  BY <1>3, <1>4 DEF SegmentsAscend, Ascending
<1>7. \A x, y \in M : stopNr'[x] < stopNr'[y] => seg[x] <= seg[y]
  BY <1>1, <1>2, <1>3, <1>4 DEF SegmentsAscend, Ascending, Deref
<1>8. \A x \in M \ {v} : stopNr[x] # stopNr[v] /\ seg[x] # seg[v]
  BY <1>3, <1>4, AloneApart
<1>9. \A x \in M \ {v} : stopNr'[x] # stopNr'[v]
  <2> SUFFICES ASSUME NEW x \in M \ {v} PROVE stopNr'[x] # stopNr'[v]
    OBVIOUS
  <2>1. /\ x \in live' /\ v \in live' /\ g # NoGroup
        /\ groupId'[x] = g /\ groupId'[v] = g
    BY <1>1, <1>3, MembersAreVisits DEF Groups, NoGroup
  <2>2. CASE stopNr'[v] # Null
    BY <2>1, <2>2 DEF UniqueStops
  <2>3. CASE stopNr'[v] = Null
    <3>1. stopNr'[x] = Null => segmentIndex[x] = segmentIndex[v]
      BY <1>1, <2>1, <2>3 DEF Unnumbered
    <3> QED
      BY <1>3, <1>4, <1>8, <2>3, <3>1
  <2> QED
    BY <2>2, <2>3
<1>10. v \in M /\ \A x \in M : stopNr[x] < stopNr[v] <=> seg[x] < seg[v]
  <2>1. v \in M
    BY <1>3
  <2> QED
    BY <2>1, <1>5, <1>6, <1>8
<1>11. \A x \in M : stopNr'[x] < stopNr'[v] <=> seg[x] < seg[v]
  <2>1. \A x \in M \ {v} : stopNr'[x] # stopNr'[v] /\ seg[x] # seg[v]
    BY <1>8, <1>9
  <2> QED
    BY <2>1, <1>5, <1>7, <1>10
<1>12. /\ Rank(v) = Cardinality({x \in M : stopNr[x] < stopNr[v]})
       /\ Rank(v)' = Cardinality({x \in M : stopNr'[x] < stopNr'[v]})
  BY <1>2, <1>3 DEF Rank
<1>13. {x \in M : stopNr'[x] < stopNr'[v]} = {x \in M : stopNr[x] < stopNr[v]}
  BY <1>10, <1>11
<1> QED
  BY <1>12, <1>13

\* A stop in a segment of its own is locked, as the README says: while requests do
\* not overlap and no visit is moved on its own, the optimizer never changes how
\* many stops are in front of it, also when the solver fails for some segments
\* (OptimizeGroup, optimizeSegmented).
THEOREM LockedStopsStayPut ==
    ASSUME ~Overlapping, Movable = {}
    PROVE  Spec => LockedStaysPut
<1> DEFINE I == SerialInv /\ SegmentsAscend /\ Unnumbered
           A == \A w \in Workers, g \in Groups : Stored(w, g) =>
                   \A v \in Members(g) : Alone(v) => Rank(v)' = Rank(v)
<1>1. Init => I
  <2>1. Init => Unnumbered
    BY DEF Init, Unnumbered
  <2> QED
    BY <2>1, SerialInit, SegmentsStart
<1>2. I /\ [Next]_vars => I'
  BY SerialStep, SegmentsStep, NumbersStep
<1>3. I /\ [Next]_vars => A
  <2> SUFFICES ASSUME I, [Next]_vars, NEW w \in Workers, NEW g \in Groups, Stored(w, g),
                      NEW v \in Members(g), Alone(v)
               PROVE  Rank(v)' = Rank(v)
    OBVIOUS
  <2>1. I'
    BY <1>2
  <2>2. StoreOrder(w) /\ g = task[w].group
    BY StoredByStoreOrder DEF SerialInv
  <2> QED
    BY <2>1, <2>2, StoreOrderLocks DEF SerialInv
<1>4. I /\ [Next]_vars => [A]_vars
  BY <1>3
<1> HIDE DEF I, A
<1>5. Spec => [][A]_vars
  BY <1>1, <1>2, <1>4, PTL DEF Spec
<1> QED
  BY <1>5 DEF A, LockedStaysPut

----------------------------------------------------------------------------
\* Drawn routes and sent letters.

\* The order a road is being drawn for is still the order of the group.
DrawCurrent ==
    \A w \in Workers : task[w].step = "draw" =>
        task[w].order \in StopOrders(Members(task[w].group))

\* A visit whose status is still to be confirmed has it.
ConfirmCurrent ==
    \A w \in Workers : task[w].step = "confirm" =>
        \A i \in DOMAIN task[w].todo : statusId[task[w].todo[i]] = 2

\* One request at a time: the planner edits when none is under way, and otherwise
\* the only one goes on.
LEMMA OneByOne ==
    ASSUME ~Overlapping, SerialInv, [Next]_vars
    PROVE  \/ /\ Edit \/ Regroup \/ Deletion \/ LetterSent
              /\ UNCHANGED task /\ \A w \in Workers : task[w] = Idle
           \/ UNCHANGED vars
           \/ \E w \in Workers : /\ Start(w) \/ Continue(w)
                                 /\ \A u \in Workers \ {w} : task[u] = Idle
<1>1. CASE Edit \/ Regroup \/ Deletion \/ LetterSent
  <2>1. Admitted /\ UNCHANGED task
    BY <1>1 DEF Edit, ReorderVisit, SplitSegment, JoinSegment, CommitEdit, Regroup,
                ChangeGroupId, Deletion, DeleteVisit, LetterSent, VisitLetterSent
  <2> QED
    BY <1>1, <2>1 DEF Admitted
<1>2. ASSUME NEW w \in Workers, Start(w)
      PROVE  \A u \in Workers \ {w} : task[u] = Idle
  BY <1>2 DEF Start, AssignVisitsToGroup, OptimizeGroup, RecomputeGroupRoute, Admitted
<1>3. ASSUME NEW w \in Workers, Continue(w)
      PROVE  \A u \in Workers \ {w} : task[u] = Idle
  <2>1. task[w] # Idle
    BY <1>3 DEF Continue, ConfirmStatus, StoreOrder, OptimizeFails, OptimizeRoute,
                StoreRoute, DrawFails, Idle
  <2> QED
    BY <2>1 DEF SerialInv, OneRequest
<1> QED
  BY <1>1, <1>2, <1>3 DEF Next

\* Rows that stay have the orders they had.
LEMMA SameOrders ==
    ASSUME NEW S, \A v \in S : stopNr'[v] = stopNr[v]
    PROVE  StopOrders(S)' = StopOrders(S)
<1>1. ASSUME NEW s \in SetToSeqs(S), NEW i \in DOMAIN s
      PROVE  s[i] \in S
  BY DEF SetToSeqs
<1>2. \A s \in SetToSeqs(S) : \A i \in DOMAIN s : stopNr'[s[i]] = stopNr[s[i]]
  BY <1>1
<1> QED
  BY <1>2 DEF StopOrders

\* What a request holds next, when it is the only one.
LEMMA NextTask ==
    ASSUME TypeOK, NEW w \in Workers, NEW t, Become(w, t),
           \A u \in Workers \ {w} : task[u] = Idle,
           t.step = "draw" => t.order \in StopOrders(Members(t.group))',
           t.step = "confirm" => \A i \in DOMAIN t.todo : statusId'[t.todo[i]] = 2
    PROVE  DrawCurrent' /\ ConfirmCurrent'
<1>1. task'[w] = t /\ \A u \in Workers \ {w} : task'[u] = Idle
  BY OthersIdle
<1>2. Idle.step # "draw" /\ Idle.step # "confirm"
  BY DEF Idle
<1> QED
  BY <1>1, <1>2 DEF DrawCurrent, ConfirmCurrent

LEMMA RequestStep ==
    ASSUME ~Overlapping, SerialInv, DrawCurrent, ConfirmCurrent, [Next]_vars
    PROVE  DrawCurrent' /\ ConfirmCurrent'
<1>0. TypeOK
  BY DEF SerialInv
<1>1. CASE UNCHANGED task /\ \A w \in Workers : task[w] = Idle
  BY <1>1 DEF DrawCurrent, ConfirmCurrent, Idle
<1>2. CASE UNCHANGED vars
  BY <1>2 DEF vars, DrawCurrent, ConfirmCurrent, StopOrders, Members
<1>3. ASSUME NEW w \in Workers, Start(w) \/ Continue(w),
             \A u \in Workers \ {w} : task[u] = Idle
      PROVE  DrawCurrent' /\ ConfirmCurrent'
  <2>1. CASE \E S \in (SUBSET live) \ {{}} : \E sel \in SetToSeqs(S) : AssignVisitsToGroup(w, sel)
    <3>1. PICK S \in (SUBSET live) \ {{}} : \E sel \in SetToSeqs(S) : AssignVisitsToGroup(w, sel)
      BY <2>1
    <3>2. PICK sel \in SetToSeqs(S) : AssignVisitsToGroup(w, sel)
      BY <3>1
    <3>3. PICK g \in Groups, chosen \in SUBSET Visits : Assigned(w, sel, g, chosen)
      BY <1>0, <3>2, AssignedGroup
    <3>4. /\ Become(w, [step |-> "confirm", todo |-> sel])
          /\ \A i \in DOMAIN sel : statusId'[sel[i]] = 2
      BY <3>3 DEF Assigned
    <3> QED
      BY <1>0, <1>3, <3>4, NextTask
  <2>2. CASE \E g \in Groups : OptimizeGroup(w, g)
    <3>1. PICK g, snap : Become(w, [step |-> "solve", group |-> g, snap |-> snap])
      BY <2>2 DEF OptimizeGroup
    <3> QED
      BY <1>0, <1>3, <3>1, NextTask
  <2>3. CASE (\E g \in Groups : RecomputeGroupRoute(w, g)) \/ OptimizeRoute(w)
    <3>1. PICK g : ReadOrder(w, g)
      BY <2>3 DEF RecomputeGroupRoute, OptimizeRoute
    <3>2. PICK order \in StopOrders(Members(g)) :
             Become(w, IF order = <<>> THEN Idle
                       ELSE [step |-> "draw", group |-> g, order |-> order])
      BY <3>1 DEF ReadOrder
    <3>3. StopOrders(Members(g))' = StopOrders(Members(g))
      BY <3>1 DEF ReadOrder, visitVars, StopOrders, Members
    <3>4. CASE order = <<>>
      <4>1. Become(w, Idle) /\ Idle.step # "draw" /\ Idle.step # "confirm"
        BY <3>2, <3>4 DEF Idle
      <4> QED
        BY <1>0, <1>3, <4>1, NextTask
    <3>5. CASE order # <<>>
      <4>1. Become(w, [step |-> "draw", group |-> g, order |-> order])
        BY <3>2, <3>5
      <4>2. order \in StopOrders(Members(g))'
        BY <3>2, <3>3
      <4> QED
        BY <1>0, <1>3, <4>1, <4>2, NextTask
    <3> QED
      BY <3>4, <3>5
  <2>4. CASE ConfirmStatus(w)
    <3>1. PICK todo : todo = task[w].todo
      OBVIOUS
    <3>2. todo \in Seq(Visits) /\ todo # <<>>
      BY <1>0, <2>4, <3>1, TaskFields DEF TypeOK, ConfirmStatus
    <3>3. /\ statusId' = IF Head(todo) \in live THEN [statusId EXCEPT ![Head(todo)] = 2]
                                               ELSE statusId
          /\ Become(w, IF Tail(todo) = <<>> THEN Idle
                       ELSE [step |-> "confirm", todo |-> Tail(todo)])
      BY <2>4, <3>1 DEF ConfirmStatus
    <3>4. \A i \in DOMAIN todo : statusId[todo[i]] = 2
      BY <2>4, <3>1 DEF ConfirmCurrent, ConfirmStatus
    <3>5. \A i \in DOMAIN Tail(todo) : statusId'[Tail(todo)[i]] = 2
      <4>1. \A i \in DOMAIN Tail(todo) : i + 1 \in DOMAIN todo /\ Tail(todo)[i] = todo[i + 1]
        BY <3>2
      <4>2. \A i \in DOMAIN todo : todo[i] \in Visits
        BY <3>2
      <4> QED
        BY <1>0, <3>3, <3>4, <4>1, <4>2 DEF TypeOK
    <3>6. CASE Tail(todo) = <<>>
      <4>1. Become(w, Idle) /\ Idle.step # "draw" /\ Idle.step # "confirm"
        BY <3>3, <3>6 DEF Idle
      <4> QED
        BY <1>0, <1>3, <4>1, NextTask
    <3>7. CASE Tail(todo) # <<>>
      <4>1. Become(w, [step |-> "confirm", todo |-> Tail(todo)])
        BY <3>3, <3>7
      <4> QED
        BY <1>0, <1>3, <3>5, <4>1, NextTask
    <3> QED
      BY <3>6, <3>7
  <2>5. CASE StoreOrder(w)
    <3>1. Become(w, [step |-> "ordered", group |-> task[w].group])
      BY <2>5 DEF StoreOrder
    <3> QED
      BY <1>0, <1>3, <3>1, NextTask
  <2>6. CASE OptimizeFails(w) \/ StoreRoute(w) \/ DrawFails(w)
    <3>1. Become(w, Idle) /\ Idle.step # "draw" /\ Idle.step # "confirm"
      BY <2>6 DEF OptimizeFails, StoreRoute, DrawFails, Idle
    <3> QED
      BY <1>0, <1>3, <3>1, NextTask
  <2> QED
    BY <1>3, <2>1, <2>2, <2>3, <2>4, <2>5, <2>6 DEF Start, Continue
<1> QED
  BY <1>1, <1>2, <1>3, OneByOne

RequestInv == SerialInv /\ DrawCurrent /\ ConfirmCurrent

LEMMA RequestStart == Init => RequestInv
<1>1. Init => DrawCurrent /\ ConfirmCurrent
  BY DEF Init, DrawCurrent, ConfirmCurrent, Idle
<1> QED
  BY <1>1, SerialInit DEF RequestInv

LEMMA RequestNext == ~Overlapping /\ RequestInv /\ [Next]_vars => RequestInv'
BY SerialStep, RequestStep DEF RequestInv

\* While requests do not overlap, a visit whose letter was sent is set back to
\* "planned" only by the assignment that gives it another group: the statuses
\* AssignVisitsToGroup confirms one by one after its commit are the ones it set
\* (AssignVisitsToGroup, VisitLetterSent).
THEOREM LettersStaySent ==
    ASSUME ~Overlapping
    PROVE  Spec => LetterStaysSent
<1> DEFINE A == \A v \in Visits : statusId[v] = 3 /\ statusId'[v] = 2
                                    => groupId'[v] # groupId[v]
<1>1. RequestInv /\ [Next]_vars => A
  <2> SUFFICES ASSUME RequestInv, [Next]_vars, NEW v \in Visits,
                      statusId[v] = 3, statusId'[v] = 2
               PROVE  groupId'[v] # groupId[v]
    OBVIOUS
  <2>1. TypeOK /\ ConfirmCurrent
    BY DEF RequestInv, SerialInv
  <2>2. ~UNCHANGED statusId
    OBVIOUS
  <2>3. ~Edit /\ ~Regroup /\ ~Deletion /\ ~UNCHANGED vars
    BY <2>2 DEF Edit, ReorderVisit, SplitSegment, JoinSegment, CommitEdit, Regroup,
                ChangeGroupId, Deletion, DeleteVisit, vars
  <2>4. ~LetterSent
    BY <2>1 DEF LetterSent, VisitLetterSent, TypeOK
  <2>5. PICK w \in Workers : Start(w) \/ Continue(w)
    BY <2>3, <2>4 DEF Next
  <2>6. CASE \E S \in (SUBSET live) \ {{}} : \E sel \in SetToSeqs(S) : AssignVisitsToGroup(w, sel)
    <3>1. PICK S \in (SUBSET live) \ {{}} : \E sel \in SetToSeqs(S) : AssignVisitsToGroup(w, sel)
      BY <2>6
    <3>2. PICK sel \in SetToSeqs(S) : AssignVisitsToGroup(w, sel)
      BY <3>1
    <3>3. PICK g \in Groups, chosen \in SUBSET Visits : Assigned(w, sel, g, chosen)
      BY <2>1, <3>2, AssignedGroup
    <3>4. v \in chosen
      BY <3>3 DEF Assigned
    <3>5. groupId[v] < g /\ groupId'[v] = g
      BY <3>3, <3>4 DEF Assigned
    <3>6. groupId[v] \in Int
      BY <2>1 DEF TypeOK, Groups, NoGroup
    <3> QED
      BY <3>5, <3>6
  <2>7. CASE ConfirmStatus(w)
    <3>1. PICK todo : todo = task[w].todo
      OBVIOUS
    <3>2. todo \in Seq(Visits) /\ todo # <<>>
      BY <2>1, <2>7, <3>1, TaskFields DEF TypeOK, ConfirmStatus
    <3>3. statusId' = IF Head(todo) \in live THEN [statusId EXCEPT ![Head(todo)] = 2]
                                            ELSE statusId
      BY <2>7, <3>1 DEF ConfirmStatus
    <3>4. statusId[Head(todo)] = 2
      <4>1. \A i \in DOMAIN todo : statusId[todo[i]] = 2
        BY <2>1, <2>7, <3>1 DEF ConfirmCurrent, ConfirmStatus
      <4>2. 1 \in DOMAIN todo /\ Head(todo) = todo[1]
        BY <3>2
      <4> QED
        BY <4>1, <4>2
    <3> QED
      BY <2>1, <3>3, <3>4 DEF TypeOK
  <2>8. CASE \/ \E g \in Groups : OptimizeGroup(w, g) \/ RecomputeGroupRoute(w, g)
             \/ StoreOrder(w) \/ OptimizeFails(w) \/ OptimizeRoute(w)
             \/ StoreRoute(w) \/ DrawFails(w)
    BY <2>2, <2>8 DEF OptimizeGroup, RecomputeGroupRoute, ReadOrder, StoreOrder,
                      OptimizeFails, OptimizeRoute, StoreRoute, DrawFails, visitVars
  <2> QED
    BY <2>5, <2>6, <2>7, <2>8 DEF Start, Continue
<1>2. RequestInv /\ [Next]_vars => [A]_vars
  BY <1>1
<1> HIDE DEF A
<1>3. Spec => [][A]_vars
  BY <1>2, RequestStart, RequestNext, PTL DEF Spec
<1> QED
  BY <1>3 DEF A, LetterStaysSent

\* A group whose visits and stops stay, and whose route is kept.
LEMMA FreshKept ==
    ASSUME NEW g, Members(g)' = Members(g), route'[g] = route[g],
           \A v \in Members(g) : stopNr'[v] = stopNr[v], Fresh(g)
    PROVE  Fresh(g)'
<1>1. PICK S : S = Members(g)
  OBVIOUS
<1>2. StopOrders(S)' = StopOrders(S)
  BY <1>1, SameOrders
<1>3. StopOrders(Members(g))' = StopOrders(S)
  <2>1. Members(g)' = S
    BY <1>1
  <2> QED
    BY <1>2, <2>1 DEF StopOrders
<1> QED
  BY <1>1, <1>3 DEF Fresh

\* A group nobody is in has no fresh route but none.
LEMMA EmptyFresh ==
    ASSUME NEW g, Members(g) = {}, Fresh(g)
    PROVE  route[g] = NoRoute
<1>1. SUFFICES ASSUME NEW s \in SetToSeqs({}) PROVE s = <<>>
  BY DEF Fresh, StopOrders, NoRoute
<1>2. s \in Seq({})
  BY Listing
<1>3. Len(s) = 0
  <2>1. ASSUME Len(s) # 0 PROVE FALSE
    <3>1. 1 \in DOMAIN s
      BY <1>2, <2>1
    <3> QED
      BY <1>2, <3>1
  <2> QED
    BY <2>1
<1> QED
  BY <1>2, <1>3

\* A step drops the route of group g, which was fresh, only in these ways.
Excused(g) == Fresh(g)' \/ Left(g) \/ \E w \in Workers : Stored(w, g)

LEMMA EditFresh ==
    ASSUME TypeOK, NEW g \in Groups, Fresh(g), Edit
    PROVE  Excused(g)
<1>1. PICK v \in Visits : \/ \E side \in {"up", "down"} : ReorderVisit(v, side)
                          \/ SplitSegment(v)
                          \/ JoinSegment(v)
  BY DEF Edit
<1>2. /\ UNCHANGED <<live, groupId>> /\ Planned(v)
      /\ route' = [route EXCEPT ![groupId[v]] = NoRoute]
  BY <1>1 DEF ReorderVisit, SplitSegment, JoinSegment, JoinAccepted, CommitEdit
<1>3. CASE g = groupId[v]
  BY <1>2, <1>3 DEF TypeOK, Excused, Fresh
<1>4. CASE g # groupId[v]
  <2>1. Members(g)' = Members(g) /\ route'[g] = route[g]
    BY <1>2, <1>4 DEF Members, TypeOK
  <2>2. \A x \in Members(g) : x \in Visits /\ groupId[x] # groupId[v]
    BY <1>4, MembersAreVisits
  <2>3. \A x \in Members(g) : stopNr'[x] = stopNr[x]
    <3>1. CASE \E side \in {"up", "down"} : ReorderVisit(v, side)
      <4>1. PICK n : groupId[n] = groupId[v] /\ stopNr' = Swapped(v, n)
        BY <3>1 DEF ReorderVisit, Neighbours, Members
      <4> QED
        BY <2>2, <4>1 DEF Swapped, TypeOK
    <3>2. CASE SplitSegment(v) \/ JoinSegment(v)
      BY <3>2 DEF SplitSegment, JoinSegment
    <3> QED
      BY <1>1, <3>1, <3>2
  <2> QED
    BY <2>1, <2>3, FreshKept DEF Excused
<1> QED
  BY <1>3, <1>4

LEMMA RegroupFresh ==
    ASSUME TypeOK, NEW g \in Groups, Fresh(g), Regroup
    PROVE  Excused(g)
<1>1. PICK v \in Visits, target \in Groups \cup {NoGroup} : ChangeGroupId(v, target)
  BY DEF Regroup
<1>2. g # NoGroup /\ \A x \in Members(g) : x \in Visits /\ groupId[x] = g
  BY MembersAreVisits DEF Groups, NoGroup
<1>3. CASE target = NoGroup
  <2>1. /\ groupId' = [groupId EXCEPT ![v] = NoGroup]
        /\ UNCHANGED <<live, stopNr, route>>
    BY <1>1, <1>3 DEF ChangeGroupId
  <2>2. Members(g)' = Members(g) \ {v}
    BY <1>2, <2>1 DEF Members, TypeOK
  <2>3. CASE v \in Members(g)
    BY <2>2, <2>3 DEF Excused, Left
  <2>4. CASE v \notin Members(g)
    BY <2>1, <2>2, <2>4, FreshKept DEF Excused
  <2> QED
    BY <2>3, <2>4
<1>4. CASE target # NoGroup
  <2>1. PICK h, S : /\ S = Members(h) \cup {v}
                    /\ groupId' = [groupId EXCEPT ![v] = h]
                    /\ \E p \in fixRouteOrder(S, v) :
                          stopNr' = [x \in Visits |-> IF x \in S THEN p[x] ELSE stopNr[x]]
                    /\ route' = [route EXCEPT ![h] = NoRoute]
    BY <1>1, <1>4 DEF ChangeGroupId
  <2>2. live' = live
    BY <1>1 DEF ChangeGroupId
  <2>3. CASE g = h
    BY <2>1, <2>3 DEF Excused, Fresh, TypeOK
  <2>4. CASE g # h /\ v \in Members(g)
    <3>1. v \notin Members(g)'
      BY <2>1, <2>4 DEF Members, TypeOK
    <3> QED
      BY <2>4, <3>1 DEF Excused, Left
  <2>5. CASE g # h /\ v \notin Members(g)
    <3>1. Members(g)' = Members(g) /\ route'[g] = route[g]
      BY <2>1, <2>2, <2>5 DEF Members, TypeOK
    <3>2. \A x \in Members(g) : x \in Visits /\ x \notin S
      BY <1>2, <2>1, <2>5, OneGroup
    <3>3. \A x \in Members(g) : stopNr'[x] = stopNr[x]
      BY <2>1, <3>2
    <3> QED
      BY <3>1, <3>3, FreshKept DEF Excused
  <2> QED
    BY <2>3, <2>4, <2>5
<1> QED
  BY <1>3, <1>4

LEMMA AssignFresh ==
    ASSUME TypeOK, NEW g \in Groups, Fresh(g), NEW w \in Workers,
           NEW S \in (SUBSET live) \ {{}}, NEW sel \in SetToSeqs(S), AssignVisitsToGroup(w, sel)
    PROVE  Excused(g)
<1>1. PICK h \in Groups, chosen \in SUBSET Visits : Assigned(w, sel, h, chosen)
  BY AssignedGroup
<1>2. /\ Members(h) = {} /\ live' = live /\ route' = route
      /\ \A x \in chosen : groupId'[x] = h
      /\ \A x \in Visits \ chosen : groupId'[x] = groupId[x] /\ stopNr'[x] = stopNr[x]
  BY <1>1 DEF Assigned
<1>3. CASE g = h
  <2>1. route'[g] = NoRoute
    BY <1>2, <1>3, EmptyFresh
  <2> QED
    BY <2>1 DEF Excused, Fresh
<1>4. CASE g # h /\ Members(g) \cap chosen # {}
  BY <1>2, <1>4 DEF Excused, Left, Members
<1>5. CASE g # h /\ Members(g) \cap chosen = {}
  <2>1. \A x \in Members(g) : x \in Visits \ chosen
    BY <1>5, MembersAreVisits
  <2>2. Members(g)' = Members(g)
    <3>1. \A x \in live : x \in Visits
      BY DEF TypeOK
    <3>2. \A x \in live : groupId'[x] = g <=> groupId[x] = g
      BY <1>2, <1>5, <2>1, <3>1 DEF Members
    <3> QED
      BY <1>2, <3>2 DEF Members
  <2> QED
    BY <1>2, <2>1, <2>2, FreshKept DEF Excused
<1> QED
  BY <1>3, <1>4, <1>5

\* While requests do not overlap, a drawn route that was current stops being so
\* only because a visit leaves the group or because OptimizeGroup, which draws a
\* new one next, has just written an order: every other edit drops the route, a new
\* group whose id was used before has none, and the order a road is drawn for is
\* still the order of the group when it is stored (computeAndStoreRoute).
THEOREM RoutesGoStaleAsIntended ==
    ASSUME ~Overlapping
    PROVE  Spec => StaleOnlyByLeavingOrOptimizing
<1> DEFINE A == \A g \in Groups : Fresh(g) /\ ~Fresh(g)' =>
                   Left(g) \/ \E w \in Workers : Stored(w, g)
<1>1. RequestInv /\ [Next]_vars => A
  <2> SUFFICES ASSUME RequestInv, [Next]_vars, NEW g \in Groups, Fresh(g) PROVE Excused(g)
    BY DEF Excused
  <2>1. TypeOK /\ SnapshotCurrent /\ DrawCurrent
    BY DEF RequestInv, SerialInv
  <2>2. ASSUME UNCHANGED <<live, groupId, stopNr, route>> PROVE Excused(g)
    BY <2>2, FreshKept DEF Excused, Members
  <2>3. CASE Deletion
    <3>1. live' \subseteq live /\ UNCHANGED <<groupId, stopNr, route>>
      BY <2>3 DEF Deletion, DeleteVisit
    <3>2. CASE Members(g)' = Members(g)
      BY <3>1, <3>2, FreshKept DEF Excused
    <3>3. CASE Members(g)' # Members(g)
      BY <3>1, <3>3 DEF Members, Excused, Left
    <3> QED
      BY <3>2, <3>3
  <2>4. CASE LetterSent \/ UNCHANGED vars
    BY <2>2, <2>4 DEF LetterSent, VisitLetterSent, vars
  <2>5. ASSUME NEW w \in Workers, Start(w) \/ Continue(w) PROVE Excused(g)
    <3>1. CASE \E S \in (SUBSET live) \ {{}} : \E sel \in SetToSeqs(S) : AssignVisitsToGroup(w, sel)
      BY <2>1, <3>1, AssignFresh
    <3>2. CASE StoreOrder(w)
      <4>1. PICK h : h = task[w].group
        OBVIOUS
      <4>2. /\ h \in Groups /\ UNCHANGED <<live, groupId>>
            /\ \A x \in Visits : x \notin Members(h) => stopNr'[x] = stopNr[x]
        BY <2>1, <3>2, <4>1, StoredPlaces
      <4>3. CASE g = h
        <5>1. task[w].step = "solve" /\ task'[w].step = "ordered"
          BY <2>1, <3>2 DEF StoreOrder, Become, TypeOK
        <5> QED
          BY <4>1, <4>3, <5>1 DEF Excused, Stored
      <4>4. CASE g # h
        <5>1. \A x \in Members(g) : stopNr'[x] = stopNr[x]
          BY <2>1, <4>2, <4>4, OneGroup, MembersAreVisits
        <5>2. Members(g)' = Members(g) /\ route' = route
          BY <3>2, <4>2 DEF Members, StoreOrder
        <5> QED
          BY <5>1, <5>2, FreshKept DEF Excused
      <4> QED
        BY <4>3, <4>4
    <3>3. CASE StoreRoute(w)
      <4>1. PICK h, order : h = task[w].group /\ order = task[w].order
        OBVIOUS
      <4>2. /\ route' = [route EXCEPT ![h] = order] /\ UNCHANGED <<live, groupId, stopNr>>
            /\ order \in StopOrders(Members(h)) /\ h \in Groups
        BY <2>1, <3>3, <4>1, TaskFields DEF StoreRoute, DrawCurrent, visitVars, TypeOK
      <4>3. Members(g)' = Members(g)
        BY <4>2 DEF Members
      <4>4. CASE g = h
        <5>1. StopOrders(Members(g))' = StopOrders(Members(g))
          BY <4>2, <4>3 DEF StopOrders
        <5>2. route'[g] = order
          BY <2>1, <4>2, <4>4 DEF TypeOK
        <5> QED
          BY <4>2, <4>4, <5>1, <5>2 DEF Excused, Fresh
      <4>5. CASE g # h
        BY <4>2, <4>3, <4>5, FreshKept DEF Excused
      <4> QED
        BY <4>4, <4>5
    <3>4. CASE \/ \E h \in Groups : OptimizeGroup(w, h) \/ RecomputeGroupRoute(w, h)
               \/ ConfirmStatus(w) \/ OptimizeFails(w) \/ OptimizeRoute(w) \/ DrawFails(w)
      <4>1. UNCHANGED <<live, groupId, stopNr, route>>
        BY <3>4 DEF OptimizeGroup, RecomputeGroupRoute, ReadOrder, ConfirmStatus,
                    OptimizeFails, OptimizeRoute, DrawFails, visitVars
      <4> QED
        BY <2>2, <4>1
    <3> QED
      BY <2>5, <3>1, <3>2, <3>3, <3>4 DEF Start, Continue
  <2> QED
    BY <2>1, <2>3, <2>4, <2>5, EditFresh, RegroupFresh DEF Next
<1>2. RequestInv /\ [Next]_vars => [A]_vars
  BY <1>1
<1> HIDE DEF A
<1>3. Spec => [][A]_vars
  BY <1>2, RequestStart, RequestNext, PTL DEF Spec
<1> QED
  BY <1>3 DEF A, StaleOnlyByLeavingOrOptimizing

----------------------------------------------------------------------------
\* RoutePlanning implements RouteBoard.

\* The board before and after a step.
Reads(b, n) ==
    /\ b = [g \in Groups |-> GroupAsLine(g)]
    /\ n = [g \in Groups |-> GroupAsLine(g)']

LEMMA SamePairs ==
    ASSUME NEW M, NEW A, A \subseteq M \X M, NEW B, B \subseteq M \X M,
           \A x, y \in M : <<x, y>> \in A <=> <<x, y>> \in B
    PROVE  A = B
<1>1. \A p \in M \X M : p = <<p[1], p[2]>> /\ p[1] \in M /\ p[2] \in M
  OBVIOUS
<1>2. \A p \in M \X M : p \in A <=> p \in B
  BY <1>1
<1> QED
  BY <1>2

\* What the board says of a group.
LEMMA LineBefore ==
    ASSUME NEW b, NEW n, Reads(b, n), NEW g \in Groups
    PROVE  /\ DOMAIN b = Groups
           /\ b[g] = Board!Line(Members(g), Before(g), Together(g))
           /\ b[g].visits = Members(g) /\ b[g].before = Before(g)
           /\ b[g].together = Together(g)
           /\ Before(g) \subseteq Members(g) \X Members(g)
           /\ Together(g) \subseteq Members(g) \X Members(g)
           /\ \A x, y \in Members(g) :
                 /\ <<x, y>> \in Before(g) <=> stopNr[x] < stopNr[y]
                 /\ <<x, y>> \in Together(g)
                       <=> Deref(segmentIndex[x]) = Deref(segmentIndex[y])
<1>1. b[g] = GroupAsLine(g) /\ DOMAIN b = Groups
  BY DEF Reads
<1>2. b[g] = [visits |-> Members(g), before |-> Before(g), together |-> Together(g)]
  BY <1>1 DEF GroupAsLine
<1>3. b[g].visits = Members(g) /\ b[g].before = Before(g) /\ b[g].together = Together(g)
  BY <1>2
<1>4. /\ Before(g) \subseteq Members(g) \X Members(g)
      /\ Together(g) \subseteq Members(g) \X Members(g)
  BY DEF Before, Together, Pairs
<1>5. \A x, y \in Members(g) :
         /\ <<x, y>> \in Before(g) <=> stopNr[x] < stopNr[y]
         /\ <<x, y>> \in Together(g) <=> Deref(segmentIndex[x]) = Deref(segmentIndex[y])
  BY DEF Before, Together, Pairs
<1> QED
  BY <1>1, <1>2, <1>3, <1>4, <1>5 DEF Board!Line

LEMMA LineAfter ==
    ASSUME NEW b, NEW n, Reads(b, n), NEW g \in Groups
    PROVE  /\ DOMAIN n = Groups
           /\ n[g] = Board!Line(Members(g)', Before(g)', Together(g)')
           /\ n[g].visits = Members(g)' /\ n[g].before = Before(g)'
           /\ n[g].together = Together(g)'
           /\ Before(g)' \subseteq Members(g)' \X Members(g)'
           /\ Together(g)' \subseteq Members(g)' \X Members(g)'
           /\ \A x, y \in Members(g)' :
                 /\ <<x, y>> \in Before(g)' <=> stopNr'[x] < stopNr'[y]
                 /\ <<x, y>> \in Together(g)'
                       <=> Deref(segmentIndex'[x]) = Deref(segmentIndex'[y])
<1>1. n[g] = GroupAsLine(g)' /\ DOMAIN n = Groups
  BY DEF Reads
<1>2. n[g] = [visits |-> Members(g)', before |-> Before(g)', together |-> Together(g)']
  BY <1>1 DEF GroupAsLine
<1>3. n[g].visits = Members(g)' /\ n[g].before = Before(g)' /\ n[g].together = Together(g)'
  BY <1>2
<1>4. /\ Before(g)' \subseteq Members(g)' \X Members(g)'
      /\ Together(g)' \subseteq Members(g)' \X Members(g)'
  BY DEF Before, Together, Pairs
<1>5. \A x, y \in Members(g)' :
         /\ <<x, y>> \in Before(g)' <=> stopNr'[x] < stopNr'[y]
         /\ <<x, y>> \in Together(g)' <=> Deref(segmentIndex'[x]) = Deref(segmentIndex'[y])
  BY DEF Before, Together, Pairs, Deref
<1> QED
  BY <1>1, <1>2, <1>3, <1>4, <1>5 DEF Board!Line

\* A group that keeps some of its visits as they are.
LEMMA KeptLine ==
    ASSUME NEW b, NEW n, Reads(b, n), NEW g \in Groups, NEW S,
           Members(g)' = Members(g) \cap S,
           \A x \in Members(g)' : stopNr'[x] = stopNr[x] /\ segmentIndex'[x] = segmentIndex[x]
    PROVE  n[g] = Board!Only(b[g], S)
<1>1. PICK M : M = Members(g)'
  OBVIOUS
<1>2. M = Members(g) \cap S /\ M \subseteq Members(g)
  BY <1>1
<1>3. /\ Before(g)' \subseteq M \X M /\ Together(g)' \subseteq M \X M
      /\ \A x, y \in M :
            /\ <<x, y>> \in Before(g)' <=> stopNr[x] < stopNr[y]
            /\ <<x, y>> \in Together(g)' <=> Deref(segmentIndex[x]) = Deref(segmentIndex[y])
  BY <1>1, LineAfter
<1>4. /\ Before(g) \cap (S \X S) \subseteq M \X M
      /\ Together(g) \cap (S \X S) \subseteq M \X M
      /\ \A x, y \in M :
            /\ <<x, y>> \in Before(g) \cap (S \X S) <=> stopNr[x] < stopNr[y]
            /\ <<x, y>> \in Together(g) \cap (S \X S)
                  <=> Deref(segmentIndex[x]) = Deref(segmentIndex[y])
  <2>1. /\ Before(g) \subseteq Members(g) \X Members(g)
        /\ Together(g) \subseteq Members(g) \X Members(g)
        /\ \A x, y \in Members(g) :
             /\ <<x, y>> \in Before(g) <=> stopNr[x] < stopNr[y]
             /\ <<x, y>> \in Together(g)
                   <=> Deref(segmentIndex[x]) = Deref(segmentIndex[y])
    BY LineBefore
  <2> QED
    BY <1>2, <2>1
<1>5. Before(g)' = Before(g) \cap (S \X S) /\ Together(g)' = Together(g) \cap (S \X S)
  BY <1>3, <1>4, SamePairs
<1>6. n[g] = Board!Line(M, Before(g)', Together(g)')
  BY <1>1, LineAfter
<1>7. b[g].visits = Members(g) /\ b[g].before = Before(g) /\ b[g].together = Together(g)
  BY LineBefore
<1> QED
  BY <1>2, <1>5, <1>6, <1>7 DEF Board!Only

LEMMA SameLine ==
    ASSUME NEW b, NEW n, Reads(b, n), NEW g \in Groups, Members(g)' = Members(g),
           \A x \in Members(g) : stopNr'[x] = stopNr[x] /\ segmentIndex'[x] = segmentIndex[x]
    PROVE  n[g] = b[g]
<1>1. PICK M : M = Members(g)
  OBVIOUS
<1>2. n[g] = Board!Only(b[g], M)
  BY <1>1, KeptLine
<1>3. /\ b[g].visits = M /\ b[g].before \subseteq M \X M /\ b[g].together \subseteq M \X M
      /\ b[g] = Board!Line(b[g].visits, b[g].before, b[g].together)
  BY <1>1, LineBefore
<1> QED
  BY <1>2, <1>3 DEF Board!Only

LEMMA PutLine ==
    ASSUME NEW b, NEW n, Reads(b, n), NEW g \in Groups, NEW l, n[g] = l,
           \A h \in Groups \ {g} : n[h] = b[h]
    PROVE  Board!Put(b, n, g, l)
<1>1. b = [h \in Groups |-> GroupAsLine(h)] /\ n = [h \in Groups |-> GroupAsLine(h)']
  BY DEF Reads
<1>2. n = [h \in Groups |-> n[h]] /\ [b EXCEPT ![g] = l] = [h \in Groups |-> IF h = g THEN l ELSE b[h]]
  BY <1>1
<1> QED
  BY <1>2 DEF Board!Put

----------------------------------------------------------------------------
\* The columns of a group, in which blocks ascend and no number is missing.

BoardInv == SerialInv /\ SegmentsAscend /\ Numbered

LEMMA BoardRows ==
    ASSUME BoardInv, NEW g \in Groups
    PROVE  /\ \A x \in Members(g) :
                 /\ x \in Visits /\ x \in live /\ groupId[x] = g
                 /\ stopNr[x] \in Nat /\ segmentIndex[x] \in Nat
                 /\ Deref(segmentIndex[x]) = segmentIndex[x]
           /\ \A x, y \in Members(g) : stopNr[x] = stopNr[y] => x = y
           /\ \A x, y \in Members(g) : stopNr[x] < stopNr[y] => segmentIndex[x] <= segmentIndex[y]
<1>1. TypeOK /\ UniqueStops /\ SegmentsAscend /\ Numbered
  BY DEF BoardInv, SerialInv
<1>2. ASSUME NEW x \in Members(g)
      PROVE  /\ x \in Visits /\ x \in live /\ groupId[x] = g
             /\ stopNr[x] \in Nat /\ segmentIndex[x] \in Nat
             /\ Deref(segmentIndex[x]) = segmentIndex[x]
  <2>1. x \in live /\ groupId[x] = g /\ g # NoGroup
    BY <1>1, MembersAreVisits DEF Groups, NoGroup
  <2>2. stopNr[x] # Null /\ segmentIndex[x] # Null
    BY <1>1, <2>1 DEF Numbered
  <2> QED
    BY <1>1, <2>1, <2>2, MembersAreVisits DEF Places, Deref
<1>3. \A x, y \in Members(g) : stopNr[x] = stopNr[y] => x = y
  <2>1. g # NoGroup /\ \A m \in Nat : m # Null
    BY DEF Groups, NoGroup, Null
  <2> QED
    BY <1>1, <1>2, <2>1 DEF UniqueStops
<1>4. \A x, y \in Members(g) : stopNr[x] < stopNr[y] => segmentIndex[x] <= segmentIndex[y]
  BY <1>1, <1>2 DEF SegmentsAscend, Ascending
<1> QED
  BY <1>2, <1>3, <1>4

\* Nothing is driven between a visit and its nearest neighbour.
LEMMA Adjacent ==
    ASSUME BoardInv, NEW v \in Visits, Planned(v), NEW side \in {"up", "down"},
           NEW m \in Neighbours(v, side), NEW g, g = groupId[v]
    PROVE  /\ g \in Groups /\ v \in Members(g) /\ m \in Members(g) /\ v # m
           /\ side = "up" => stopNr[m] < stopNr[v]
           /\ side = "down" => stopNr[v] < stopNr[m]
           /\ \A x \in Members(g) \ {v, m} : stopNr[x] < stopNr[v] <=> stopNr[x] < stopNr[m]
<1>1. g \in Groups /\ v \in Members(g)
  BY DEF BoardInv, SerialInv, TypeOK, Planned, Members
<1>2. /\ m \in Members(g) /\ v # m
      /\ IF side = "up" THEN stopNr[m] < stopNr[v] ELSE stopNr[m] > stopNr[v]
      /\ \A x \in Members(g) \ {v} :
           /\ stopNr[x] # Null
           /\ IF side = "up" THEN stopNr[x] < stopNr[v] ELSE stopNr[x] > stopNr[v]
           => \/ stopNr[m] = stopNr[x]
              \/ side = "up" /\ stopNr[m] > stopNr[x]
              \/ side = "down" /\ stopNr[m] < stopNr[x]
  BY DEF Neighbours
<1>3. /\ \A x \in Members(g) : stopNr[x] \in Nat /\ stopNr[x] # Null
      /\ \A x, y \in Members(g) : stopNr[x] = stopNr[y] => x = y
  BY <1>1, BoardRows DEF Null
<1>4. ASSUME NEW x \in Members(g) \ {v, m}
      PROVE  stopNr[x] < stopNr[v] <=> stopNr[x] < stopNr[m]
  <2>1. stopNr[x] # stopNr[m] /\ stopNr[x] # stopNr[v]
    BY <1>1, <1>2, <1>3
  <2>2. CASE side = "up"
    BY <1>1, <1>2, <1>3, <2>1, <2>2
  <2>3. CASE side = "down"
    BY <1>1, <1>2, <1>3, <2>1, <2>3
  <2> QED
    BY <2>2, <2>3
<1> QED
  BY <1>1, <1>2, <1>4

\* An edit leaves the other groups alone.
LEMMA EditElsewhere ==
    ASSUME TypeOK, NEW b, NEW n, Reads(b, n), NEW g, UNCHANGED <<live, groupId>>,
           \A x \in Visits : groupId[x] # g =>
               stopNr'[x] = stopNr[x] /\ segmentIndex'[x] = segmentIndex[x]
    PROVE  \A h \in Groups \ {g} : n[h] = b[h]
<1> SUFFICES ASSUME NEW h \in Groups \ {g} PROVE n[h] = b[h]
  OBVIOUS
<1>1. Members(h)' = Members(h)
  BY DEF Members
<1>2. \A x \in Members(h) : stopNr'[x] = stopNr[x] /\ segmentIndex'[x] = segmentIndex[x]
  BY MembersAreVisits
<1> QED
  BY <1>1, <1>2, SameLine

\* ReorderVisit swaps neighbours of one segment.
LEMMA ReorderOnBoard ==
    ASSUME BoardInv, NEW b, NEW n, Reads(b, n), NEW v \in Visits,
           NEW side \in {"up", "down"}, ReorderVisit(v, side)
    PROVE  Board!Step(b, n)
<1>0. PICK g : g = groupId[v]
  OBVIOUS
<1>1. PICK m \in Neighbours(v, side) :
         /\ g = groupId[v]
         /\ Deref(segmentIndex[v]) = Deref(segmentIndex[m])
         /\ stopNr' = Swapped(v, m)
  BY <1>0 DEF ReorderVisit
<1>2. TypeOK /\ Planned(v) /\ UNCHANGED <<live, groupId, segmentIndex>>
  BY DEF BoardInv, SerialInv, ReorderVisit, CommitEdit
<1>3. /\ g \in Groups /\ v \in Members(g) /\ m \in Members(g) /\ v # m
      /\ side = "up" => stopNr[m] < stopNr[v]
      /\ side = "down" => stopNr[v] < stopNr[m]
      /\ \A x \in Members(g) \ {v, m} : stopNr[x] < stopNr[v] <=> stopNr[x] < stopNr[m]
  BY <1>1, <1>2, Adjacent
<1>4. /\ \A x \in Members(g) : x \in Visits /\ groupId[x] = g /\ stopNr[x] \in Nat
      /\ \A x, y \in Members(g) : stopNr[x] = stopNr[y] => x = y
  BY <1>3, BoardRows
<1>5. /\ stopNr'[v] = stopNr[m] /\ stopNr'[m] = stopNr[v]
      /\ \A x \in Visits \ {v, m} : stopNr'[x] = stopNr[x]
  BY <1>1, <1>2, <1>3, <1>4 DEF Swapped, TypeOK
<1>6. PICK a \in Members(g), c \in Members(g) :
         /\ {a, c} = {v, m} /\ a # c /\ stopNr[a] < stopNr[c]
         /\ \A x \in Members(g) \ {a, c} : stopNr[x] < stopNr[a] <=> stopNr[x] < stopNr[c]
         /\ stopNr'[a] = stopNr[c] /\ stopNr'[c] = stopNr[a]
  <2>1. CASE side = "up"
    BY <1>3, <1>5, <2>1
  <2>2. CASE side = "down"
    BY <1>3, <1>5, <2>2
  <2> QED
    BY <2>1, <2>2
<1>7. \A x \in Members(g) \ {a, c} : stopNr'[x] = stopNr[x]
  BY <1>4, <1>5, <1>6
<1>8. PICK M : M = Members(g) /\ M = Members(g)'
  BY <1>2 DEF Members
<1>9. Before(g)' = (Before(g) \ {<<a, c>>}) \cup {<<c, a>>}
  <2>1. /\ Before(g) \subseteq M \X M /\ Before(g)' \subseteq M \X M /\ a \in M /\ c \in M
        /\ \A x, y \in M : /\ <<x, y>> \in Before(g) <=> stopNr[x] < stopNr[y]
                           /\ <<x, y>> \in Before(g)' <=> stopNr'[x] < stopNr'[y]
    BY <1>3, <1>6, <1>8, LineBefore, LineAfter
  <2>2. (Before(g) \ {<<a, c>>}) \cup {<<c, a>>} \subseteq M \X M
    BY <2>1
  <2>3. ASSUME NEW x \in M, NEW y \in M
        PROVE  stopNr'[x] < stopNr'[y] <=> \/ x = c /\ y = a
                                           \/ stopNr[x] < stopNr[y] /\ ~(x = a /\ y = c)
    <3>1. \A z \in M : stopNr[z] \in Nat
      BY <1>4, <1>8
    <3>2. stopNr[x] = stopNr[y] => x = y
      BY <1>4, <1>8
    <3>3. x \in {a, c} \/ (stopNr'[x] = stopNr[x] /\ (stopNr[x] < stopNr[a] <=> stopNr[x] < stopNr[c]))
      BY <1>6, <1>7, <1>8
    <3>4. y \in {a, c} \/ (stopNr'[y] = stopNr[y] /\ (stopNr[y] < stopNr[a] <=> stopNr[y] < stopNr[c]))
      BY <1>6, <1>7, <1>8
    <3>5. (stopNr[x] = stopNr[a] => x = a) /\ (stopNr[y] = stopNr[a] => y = a)
          /\ (stopNr[x] = stopNr[c] => x = c) /\ (stopNr[y] = stopNr[c] => y = c)
      BY <1>4, <1>8, <2>1
    <3> QED
      BY <1>6, <2>1, <3>1, <3>2, <3>3, <3>4, <3>5
  <2>4. \A x, y \in M : <<x, y>> \in Before(g)' <=>
                          <<x, y>> \in (Before(g) \ {<<a, c>>}) \cup {<<c, a>>}
    BY <2>1, <2>3
  <2> QED
    BY <2>1, <2>2, <2>4, SamePairs
<1>10. Together(g)' = Together(g)
  BY <1>2 DEF Together, Pairs, Members, Deref
<1>11. Board!Swap(b, n, g, a, c)
  <2>1. /\ b[g].visits = M /\ b[g].before = Before(g) /\ b[g].together = Together(g)
        /\ n[g] = Board!Line(M, Before(g)', Together(g)')
    BY <1>3, <1>8, LineBefore, LineAfter
  <2>2. Board!RightBehind(b[g], a, c)
    <3>1. /\ <<a, c>> \in Before(g)
          /\ \A w \in M : /\ <<a, w>> \in Before(g) => stopNr[a] < stopNr[w]
                          /\ <<w, c>> \in Before(g) => stopNr[w] < stopNr[c]
      BY <1>3, <1>6, <1>8, LineBefore
    <3>2. \A w \in M : ~(stopNr[a] < stopNr[w] /\ stopNr[w] < stopNr[c])
      BY <1>4, <1>6, <1>8
    <3> QED
      BY <2>1, <3>1, <3>2 DEF Board!RightBehind
  <2>3. <<a, c>> \in Together(g)
    <3>1. Deref(segmentIndex[a]) = Deref(segmentIndex[c])
      BY <1>1, <1>6
    <3> QED
      BY <1>3, <1>6, <3>1, LineBefore
  <2>4. \A h \in Groups \ {g} : n[h] = b[h]
    <3>1. \A x \in Visits : groupId[x] # g => x \notin {v, m}
      BY <1>1, <1>3, <1>4
    <3> QED
      BY <1>2, <1>5, <3>1, EditElsewhere
  <2>5. n[g] = Board!Line(b[g].visits, (b[g].before \ {<<a, c>>}) \cup {<<c, a>>}, b[g].together)
    BY <1>9, <1>10, <2>1
  <2>6. Board!Put(b, n, g, Board!Line(b[g].visits,
                                      (b[g].before \ {<<a, c>>}) \cup {<<c, a>>},
                                      b[g].together))
    BY <1>3, <2>4, <2>5, PutLine
  <2> QED
    BY <2>1, <2>2, <2>3, <2>6 DEF Board!Swap
<1> QED
  BY <1>3, <1>4, <1>6, <1>11 DEF Board!Step

\* A group whose members stay: its line before and after.
LEMMA LineKept ==
    ASSUME NEW b, NEW n, Reads(b, n), NEW g \in Groups, UNCHANGED <<live, groupId>>,
           NEW M, M = Members(g)
    PROVE  /\ b[g] = Board!Line(M, Before(g), Together(g))
           /\ b[g].visits = M /\ b[g].before = Before(g) /\ b[g].together = Together(g)
           /\ n[g] = Board!Line(M, Before(g)', Together(g)')
           /\ n[g].before = Before(g)'
           /\ Before(g) \subseteq M \X M /\ Before(g)' \subseteq M \X M
           /\ Together(g) \subseteq M \X M /\ Together(g)' \subseteq M \X M
           /\ \A x, y \in M :
                 /\ <<x, y>> \in Before(g) <=> stopNr[x] < stopNr[y]
                 /\ <<x, y>> \in Together(g)
                       <=> Deref(segmentIndex[x]) = Deref(segmentIndex[y])
           /\ \A x, y \in M :
                 /\ <<x, y>> \in Before(g)' <=> stopNr'[x] < stopNr'[y]
                 /\ <<x, y>> \in Together(g)'
                       <=> Deref(segmentIndex'[x]) = Deref(segmentIndex'[y])
<1>1. M = Members(g)'
  BY DEF Members
<1>2. /\ b[g] = Board!Line(M, Before(g), Together(g))
      /\ b[g].visits = M /\ b[g].before = Before(g) /\ b[g].together = Together(g)
      /\ Before(g) \subseteq M \X M /\ Together(g) \subseteq M \X M
      /\ \A x, y \in M :
            /\ <<x, y>> \in Before(g) <=> stopNr[x] < stopNr[y]
            /\ <<x, y>> \in Together(g) <=> Deref(segmentIndex[x]) = Deref(segmentIndex[y])
  BY LineBefore
<1>3. /\ n[g] = Board!Line(M, Before(g)', Together(g)') /\ n[g].before = Before(g)'
      /\ Before(g)' \subseteq M \X M /\ Together(g)' \subseteq M \X M
      /\ \A x, y \in M :
            /\ <<x, y>> \in Before(g)' <=> stopNr'[x] < stopNr'[y]
            /\ <<x, y>> \in Together(g)' <=> Deref(segmentIndex'[x]) = Deref(segmentIndex'[y])
  BY <1>1, LineAfter
<1> QED
  BY <1>2, <1>3

\* SplitSegment cuts a line; in front of the first visit of a segment nothing is
\* cut, and only the numbers change.
LEMMA SplitOnBoard ==
    ASSUME BoardInv, NEW b, NEW n, Reads(b, n), NEW v \in Visits, SplitSegment(v)
    PROVE  Board!Step(b, n)
<1>0. PICK g : g = groupId[v]
  OBVIOUS
<1>1. /\ TypeOK /\ g \in Groups /\ v \in Members(g) /\ UNCHANGED <<live, groupId, stopNr>>
      /\ segmentIndex' = [x \in Visits |-> IF x \in TailFrom(v)
                                           THEN Deref(segmentIndex[x]) + 1
                                           ELSE segmentIndex[x]]
  BY <1>0 DEF BoardInv, SerialInv, SplitSegment, CommitEdit, Planned, TypeOK, Members
<1>2. PICK M : M = Members(g)
  OBVIOUS
<1>3. /\ \A x \in M : /\ x \in Visits /\ groupId[x] = g
                      /\ stopNr[x] \in Nat /\ segmentIndex[x] \in Nat
                      /\ Deref(segmentIndex[x]) = segmentIndex[x]
      /\ \A x, y \in M : stopNr[x] = stopNr[y] => x = y
      /\ \A x, y \in M : stopNr[x] < stopNr[y] => segmentIndex[x] <= segmentIndex[y]
  BY <1>1, <1>2, BoardRows
<1>4. \A x \in M : Deref(segmentIndex'[x]) = IF stopNr[x] < stopNr[v] THEN segmentIndex[x]
                                                                  ELSE segmentIndex[x] + 1
  <2> TAKE x \in M
  <2>1. x \in TailFrom(v) <=> ~(stopNr[x] < stopNr[v])
    BY <1>0, <1>1, <1>2, <1>3 DEF TailFrom
  <2>2. segmentIndex'[x] = IF stopNr[x] < stopNr[v] THEN segmentIndex[x]
                                                   ELSE segmentIndex[x] + 1
    BY <1>1, <1>3, <2>1
  <2>3. segmentIndex'[x] \in Nat
    BY <1>3, <2>2
  <2> QED
    BY <2>2, <2>3 DEF Deref, Null
<1>5. /\ b[g].visits = M /\ b[g].before = Before(g) /\ b[g].together = Together(g)
      /\ n[g] = Board!Line(M, Before(g)', Together(g)') /\ v \in M
      /\ Before(g)' = Before(g)
  <2>1. Before(g)' = Before(g)
    BY <1>1 DEF Before, Pairs, Members
  <2> QED
    BY <1>1, <1>2, <2>1, LineKept
<1> DEFINE cut == {p \in Together(g) : <<p[1], v>> \in Before(g) <=> <<p[2], v>> \in Before(g)}
<1>6. Together(g)' = cut
  <2>1. /\ Together(g) \subseteq M \X M /\ Together(g)' \subseteq M \X M
        /\ \A x, y \in M :
             /\ <<x, y>> \in Before(g) <=> stopNr[x] < stopNr[y]
             /\ <<x, y>> \in Together(g) <=> Deref(segmentIndex[x]) = Deref(segmentIndex[y])
             /\ <<x, y>> \in Together(g)' <=> Deref(segmentIndex'[x]) = Deref(segmentIndex'[y])
    BY <1>1, <1>2, LineKept
  <2>2. ASSUME NEW x \in M, NEW y \in M
        PROVE  <<x, y>> \in Together(g)' <=> <<x, y>> \in cut
    <3>1. <<x, y>> \in cut <=> /\ segmentIndex[x] = segmentIndex[y]
                               /\ stopNr[x] < stopNr[v] <=> stopNr[y] < stopNr[v]
      <4>1. <<x, y>> \in cut <=> /\ <<x, y>> \in Together(g)
                                 /\ <<x, v>> \in Before(g) <=> <<y, v>> \in Before(g)
        OBVIOUS
      <4> QED
        BY <1>3, <1>5, <2>1, <4>1
    <3>2. <<x, y>> \in Together(g)' <=>
             (IF stopNr[x] < stopNr[v] THEN segmentIndex[x] ELSE segmentIndex[x] + 1)
             = (IF stopNr[y] < stopNr[v] THEN segmentIndex[y] ELSE segmentIndex[y] + 1)
      BY <1>4, <2>1
    <3>3. /\ stopNr[x] < stopNr[v] /\ ~(stopNr[y] < stopNr[v]) => segmentIndex[x] <= segmentIndex[y]
          /\ stopNr[y] < stopNr[v] /\ ~(stopNr[x] < stopNr[v]) => segmentIndex[y] <= segmentIndex[x]
      BY <1>3, <1>5
    <3>4. segmentIndex[x] \in Nat /\ segmentIndex[y] \in Nat
      BY <1>3
    <3> QED
      BY <3>1, <3>2, <3>3, <3>4
  <2>3. cut \subseteq M \X M
    BY <2>1
  <2> HIDE DEF cut
  <2> QED
    BY <2>1, <2>2, <2>3, SamePairs
<1>7. \A h \in Groups \ {g} : n[h] = b[h]
  <2>1. \A x \in Visits : groupId[x] # g => x \notin TailFrom(v)
    BY <1>0 DEF TailFrom, Members
  <2>2. \A x \in Visits : groupId[x] # g =>
           stopNr'[x] = stopNr[x] /\ segmentIndex'[x] = segmentIndex[x]
    BY <1>1, <2>1
  <2> QED
    BY <1>1, <2>2, EditElsewhere
<1>8. Board!Put(b, n, g, Board!Line(M, Before(g), cut))
  <2>1. n[g] = Board!Line(M, Before(g), cut)
    BY <1>5, <1>6
  <2> QED
    BY <1>1, <1>7, <2>1, PutLine
<1>9. Board!Split(b, n, g, v)
  BY <1>5, <1>8 DEF Board!Split
<1> QED
  BY <1>1, <1>9 DEF Board!Step

LEMMA SameBoard ==
    ASSUME NEW b, NEW n, Reads(b, n), \A g \in Groups : n[g] = b[g]
    PROVE  n = b
<1>1. b = [g \in Groups |-> GroupAsLine(g)] /\ n = [g \in Groups |-> GroupAsLine(g)']
  BY DEF Reads
<1>2. b = [g \in Groups |-> b[g]] /\ n = [g \in Groups |-> n[g]]
  BY <1>1
<1> QED
  BY <1>2

\* JoinSegment joins two segments that are next to each other; where a number is
\* missing between them, which a delete leaves behind, it only takes up the gap.
LEMMA JoinOnBoard ==
    ASSUME BoardInv, NEW b, NEW n, Reads(b, n), NEW v \in Visits, JoinSegment(v)
    PROVE  Board!Step(b, n) \/ n = b
<1>0. PICK g : g = groupId[v]
  OBVIOUS
<1>1. /\ TypeOK /\ g \in Groups /\ Planned(v) /\ UNCHANGED <<live, groupId, stopNr>>
      /\ segmentIndex' = [x \in Visits |-> IF x \in TailFrom(v)
                                           THEN segmentIndex[x] - 1
                                           ELSE segmentIndex[x]]
      /\ \A x \in TailFrom(v) : segmentIndex[x] >= 1
  BY <1>0 DEF BoardInv, SerialInv, JoinSegment, JoinAccepted, CommitEdit, Planned, TypeOK
<1>2. PICK m \in Neighbours(v, "up") : segmentIndex[m] = Null \/ segmentIndex[m] # segmentIndex[v]
  BY DEF JoinSegment, JoinAccepted
<1>3. PICK M : M = Members(g)
  OBVIOUS
<1>4. /\ v \in M /\ m \in M /\ v # m /\ stopNr[m] < stopNr[v]
      /\ \A x \in M \ {v, m} : stopNr[x] < stopNr[v] <=> stopNr[x] < stopNr[m]
  BY <1>0, <1>1, <1>3, Adjacent
<1>5. /\ \A x \in M : /\ x \in Visits /\ groupId[x] = g
                      /\ stopNr[x] \in Nat /\ segmentIndex[x] \in Nat
                      /\ Deref(segmentIndex[x]) = segmentIndex[x]
      /\ \A x, y \in M : stopNr[x] = stopNr[y] => x = y
      /\ \A x, y \in M : stopNr[x] < stopNr[y] => segmentIndex[x] <= segmentIndex[y]
  BY <1>1, <1>3, BoardRows
<1>6. segmentIndex[m] < segmentIndex[v]
  <2>1. segmentIndex[m] # Null /\ segmentIndex[m] <= segmentIndex[v]
    BY <1>4, <1>5 DEF Null
  <2> QED
    BY <1>2, <1>4, <1>5, <2>1
\* What a row in front of v has, and one behind it.
<1>7. \A x \in M :
         IF stopNr[x] < stopNr[v]
         THEN /\ Deref(segmentIndex'[x]) = segmentIndex[x]
              /\ segmentIndex[x] <= segmentIndex[m]
         ELSE /\ Deref(segmentIndex'[x]) = segmentIndex[x] - 1
              /\ segmentIndex[v] <= segmentIndex[x]
  <2> TAKE x \in M
  <2>1. x \in TailFrom(v) <=> ~(stopNr[x] < stopNr[v])
    BY <1>0, <1>3, <1>4, <1>5 DEF TailFrom
  <2>2. segmentIndex'[x] = IF stopNr[x] < stopNr[v] THEN segmentIndex[x]
                                                   ELSE segmentIndex[x] - 1
    BY <1>1, <1>5, <2>1
  <2>3. ~(stopNr[x] < stopNr[v]) => segmentIndex[x] >= 1
    BY <1>1, <2>1
  <2>4. segmentIndex'[x] \in Nat
    BY <1>5, <2>2, <2>3
  <2>5. Deref(segmentIndex'[x]) = segmentIndex'[x]
    BY <2>4 DEF Deref, Null
  <2>6. stopNr[x] < stopNr[v] => segmentIndex[x] <= segmentIndex[m]
    <3>1. stopNr[x] < stopNr[v] => x = m \/ stopNr[x] < stopNr[m]
      BY <1>4, <1>5
    <3> QED
      BY <1>4, <1>5, <3>1
  <2>7. ~(stopNr[x] < stopNr[v]) => segmentIndex[v] <= segmentIndex[x]
    <3>1. ~(stopNr[x] < stopNr[v]) => x = v \/ stopNr[v] < stopNr[x]
      BY <1>4, <1>5
    <3> QED
      BY <1>4, <1>5, <3>1
  <2> QED
    BY <2>2, <2>5, <2>6, <2>7
<1>8. /\ b[g] = Board!Line(M, Before(g), Together(g))
      /\ b[g].visits = M /\ b[g].before = Before(g) /\ b[g].together = Together(g)
      /\ n[g] = Board!Line(M, Before(g)', Together(g)')
      /\ Together(g) \subseteq M \X M /\ Together(g)' \subseteq M \X M
      /\ \A x, y \in M :
            /\ <<x, y>> \in Before(g) <=> stopNr[x] < stopNr[y]
            /\ <<x, y>> \in Together(g)
                  <=> Deref(segmentIndex[x]) = Deref(segmentIndex[y])
      /\ \A x, y \in M :
            /\ <<x, y>> \in Before(g)' <=> stopNr'[x] < stopNr'[y]
            /\ <<x, y>> \in Together(g)'
                  <=> Deref(segmentIndex'[x]) = Deref(segmentIndex'[y])
  BY <1>1, <1>3, LineKept
<1>9. \A x, y \in M :
         /\ <<x, y>> \in Before(g) <=> stopNr[x] < stopNr[y]
         /\ <<x, y>> \in Together(g) <=> segmentIndex[x] = segmentIndex[y]
         /\ <<x, y>> \in Together(g)' <=> Deref(segmentIndex'[x]) = Deref(segmentIndex'[y])
  <2>1. \A x \in M : Deref(segmentIndex[x]) = segmentIndex[x]
    BY <1>5
  <2> TAKE x, y \in M
  <2>2. /\ <<x, y>> \in Before(g) <=> stopNr[x] < stopNr[y]
        /\ <<x, y>> \in Together(g) <=> Deref(segmentIndex[x]) = Deref(segmentIndex[y])
        /\ <<x, y>> \in Together(g)' <=> Deref(segmentIndex'[x]) = Deref(segmentIndex'[y])
    BY <1>8
  <2> QED
    BY <2>1, <2>2
<1>10. Before(g)' = Before(g)
  BY <1>1 DEF Before, Pairs, Members
<1>11. \A h \in Groups \ {g} : n[h] = b[h]
  <2>1. \A x \in Visits : groupId[x] # g => x \notin TailFrom(v)
    BY <1>0 DEF TailFrom, Members
  <2>2. \A x \in Visits : groupId[x] # g =>
           stopNr'[x] = stopNr[x] /\ segmentIndex'[x] = segmentIndex[x]
    BY <1>1, <2>1
  <2> QED
    BY <1>1, <2>2, EditElsewhere
<1>12. CASE segmentIndex[v] = segmentIndex[m] + 1
  <2> DEFINE both == {x \in M : <<x, m>> \in Together(g) \/ <<x, v>> \in Together(g)}
             joined == Together(g) \cup (both \X both)
  <2>1. \A x \in M : x \in both <=> segmentIndex[x] \in {segmentIndex[m], segmentIndex[v]}
    BY <1>4, <1>9
  <2>2. joined \subseteq M \X M
    BY <1>8
  <2>3. \A x, y \in M : <<x, y>> \in joined <=>
                           <<x, y>> \in Together(g) \/ (x \in both /\ y \in both)
    OBVIOUS
  <2> HIDE DEF both
  <2>4. ASSUME NEW x \in M, NEW y \in M
        PROVE  <<x, y>> \in Together(g)' <=> <<x, y>> \in joined
    <3>1. /\ segmentIndex[x] \in Nat /\ segmentIndex[y] \in Nat
          /\ segmentIndex[m] \in Nat /\ segmentIndex[v] \in Nat
      BY <1>4, <1>5
    <3>2. /\ <<x, y>> \in joined <=>
               \/ segmentIndex[x] = segmentIndex[y]
               \/ /\ segmentIndex[x] \in {segmentIndex[m], segmentIndex[v]}
                  /\ segmentIndex[y] \in {segmentIndex[m], segmentIndex[v]}
      BY <1>9, <2>1, <2>3
    <3>3. <<x, y>> \in Together(g)' <=> Deref(segmentIndex'[x]) = Deref(segmentIndex'[y])
      BY <1>9
    <3> HIDE DEF joined
    <3>4. CASE stopNr[x] < stopNr[v] /\ stopNr[y] < stopNr[v]
      BY <1>7, <1>12, <3>1, <3>2, <3>3, <3>4
    <3>5. CASE stopNr[x] < stopNr[v] /\ ~(stopNr[y] < stopNr[v])
      BY <1>7, <1>12, <3>1, <3>2, <3>3, <3>5
    <3>6. CASE ~(stopNr[x] < stopNr[v]) /\ stopNr[y] < stopNr[v]
      BY <1>7, <1>12, <3>1, <3>2, <3>3, <3>6
    <3>7. CASE ~(stopNr[x] < stopNr[v]) /\ ~(stopNr[y] < stopNr[v])
      BY <1>7, <1>12, <3>1, <3>2, <3>3, <3>7
    <3> QED
      BY <3>4, <3>5, <3>6, <3>7
  <2>5. Together(g)' = joined
    <3>1. Together(g)' \subseteq M \X M
      BY <1>8
    <3> HIDE DEF joined
    <3> QED
      BY <2>2, <2>4, <3>1, SamePairs
  <2>6. Board!RightBehind(b[g], m, v)
    <3>1. /\ <<m, v>> \in Before(g)
          /\ \A w \in M : /\ <<m, w>> \in Before(g) => stopNr[m] < stopNr[w]
                          /\ <<w, v>> \in Before(g) => stopNr[w] < stopNr[v]
      BY <1>4, <1>9
    <3>2. \A w \in M : ~(stopNr[m] < stopNr[w] /\ stopNr[w] < stopNr[v])
      BY <1>4, <1>5
    <3> QED
      BY <1>8, <3>1, <3>2 DEF Board!RightBehind
  <2>7. <<m, v>> \notin Together(g)
    BY <1>4, <1>5, <1>6, <1>9
  <2>8. Board!Put(b, n, g, Board!Line(M, Before(g), joined))
    <3>1. n[g] = Board!Line(M, Before(g), joined)
      BY <1>8, <1>10, <2>5
    <3> QED
      BY <1>1, <1>11, <3>1, PutLine
  <2>9. Board!Join(b, n, g, m, v)
    BY <1>8, <2>6, <2>7, <2>8 DEF Board!Join, both
  <2> QED
    BY <1>1, <1>4, <1>5, <2>9 DEF Board!Step
<1>13. CASE segmentIndex[v] # segmentIndex[m] + 1
  <2>1. ASSUME NEW x \in M, NEW y \in M
        PROVE  <<x, y>> \in Together(g)' <=> <<x, y>> \in Together(g)
    <3>1. /\ segmentIndex[x] \in Nat /\ segmentIndex[y] \in Nat
          /\ segmentIndex[m] \in Nat /\ segmentIndex[v] \in Nat
      BY <1>4, <1>5
    <3> QED
      BY <1>6, <1>7, <1>9, <1>13, <3>1
  <2>2. Together(g)' = Together(g)
    <3>1. Together(g) \subseteq M \X M /\ Together(g)' \subseteq M \X M
      BY <1>8
    <3> QED
      BY <2>1, <3>1, SamePairs
  <2>3. n[g] = b[g]
    BY <1>8, <1>10, <2>2
  <2> QED
    BY <1>11, <2>3, SameBoard
<1> QED
  BY <1>12, <1>13

\* Deleted rows leave their line.
LEMMA DeleteOnBoard ==
    ASSUME TypeOK, NEW b, NEW n, Reads(b, n), NEW v \in Visits, DeleteVisit(v)
    PROVE  Board!Step(b, n)
<1>1. live' = live \ {v} /\ UNCHANGED <<groupId, stopNr, segmentIndex>>
  BY DEF DeleteVisit
<1>2. ASSUME NEW g \in Groups
      PROVE  n[g] = Board!Only(b[g], Visits \ {v})
  <2>1. Members(g)' = Members(g) \cap (Visits \ {v})
    BY <1>1 DEF Members, TypeOK
  <2>2. \A x \in Members(g)' : stopNr'[x] = stopNr[x] /\ segmentIndex'[x] = segmentIndex[x]
    BY <1>1
  <2> QED
    BY <2>1, <2>2, KeptLine
<1>3. n = [g \in Groups |-> n[g]]
  BY DEF Reads
<1>4. n = [g \in Groups |-> Board!Only(b[g], Visits \ {v})]
  BY <1>2, <1>3
<1> QED
  BY <1>4 DEF Board!Step, Board!Delete

\* Distinct stop numbers put the visits one after another.
LEMMA StopsOrder ==
    ASSUME NEW M, NEW stop, NEW r, r \subseteq M \X M,
           \A x \in M : stop[x] \in Nat,
           \A x, y \in M : stop[x] = stop[y] => x = y,
           \A x, y \in M : <<x, y>> \in r <=> stop[x] < stop[y]
    PROVE  Board!Orders(r, M)
<1>1. \A x, y \in M : <<x, y>> \in r => <<y, x>> \notin r
  <2> TAKE x, y \in M
  <2> QED
    OBVIOUS
<1>2. \A x, y \in M : x # y => <<x, y>> \in r \/ <<y, x>> \in r
  <2> TAKE x, y \in M
  <2>1. x # y => stop[x] # stop[y]
    OBVIOUS
  <2> QED
    BY <2>1
<1>3. \A x, y, z \in M : <<x, y>> \in r /\ <<y, z>> \in r => <<x, z>> \in r
  <2> TAKE x, y, z \in M
  <2> QED
    OBVIOUS
<1> QED
  BY <1>1, <1>2, <1>3 DEF Board!Orders

\* The stops of a group after a step are again distinct numbers.
LEMMA OrdersAfter ==
    ASSUME TypeOK', UniqueStops', Numbered', NEW b, NEW n, Reads(b, n), NEW g \in Groups
    PROVE  Board!Orders(Before(g)', Members(g)')
<1>1. PICK M : M = Members(g)'
  OBVIOUS
<1>2. \A x \in M : x \in Visits /\ x \in live' /\ groupId'[x] = g /\ g # NoGroup
  BY <1>1 DEF Members, TypeOK, Groups, NoGroup
<1>3. \A x \in M : stopNr'[x] \in Nat /\ stopNr'[x] # Null
  <2> TAKE x \in M
  <2>1. stopNr'[x] # Null
    BY <1>2 DEF Numbered
  <2>2. stopNr'[x] \in Places
    BY <1>2 DEF TypeOK
  <2> QED
    BY <2>1, <2>2 DEF Places
<1>4. \A x, y \in M : stopNr'[x] = stopNr'[y] => x = y
  BY <1>2, <1>3 DEF UniqueStops
<1>5. /\ Before(g)' \subseteq M \X M
      /\ \A x, y \in M : <<x, y>> \in Before(g)' <=> stopNr'[x] < stopNr'[y]
  BY <1>1, LineAfter
<1>6. Board!Orders(Before(g)', M)
  BY <1>3, <1>4, <1>5, StopsOrder
<1> QED
  BY <1>1, <1>6

\* AssignVisitsToGroup takes visits off their lines and makes a new one.
LEMMA AssignOnBoard ==
    ASSUME BoardInv, BoardInv', NEW b, NEW n, Reads(b, n), NEW w \in Workers,
           NEW S \in (SUBSET live) \ {{}}, NEW sel \in SetToSeqs(S),
           AssignVisitsToGroup(w, sel)
    PROVE  Board!Step(b, n)
<1>1. TypeOK /\ TypeOK' /\ UniqueStops' /\ Numbered'
  BY DEF BoardInv, SerialInv
<1>2. PICK g \in Groups, chosen \in SUBSET Visits : Assigned(w, sel, g, chosen)
  BY <1>1, AssignedGroup
<1>3. /\ Members(g) = {} /\ chosen \subseteq live /\ live' = live
      /\ \A x \in live : groupId[x] < g
      /\ \A x \in chosen : groupId'[x] = g /\ segmentIndex'[x] = 0
      /\ \A x \in Visits \ chosen : /\ groupId'[x] = groupId[x] /\ stopNr'[x] = stopNr[x]
                                    /\ segmentIndex'[x] = segmentIndex[x]
  BY <1>2 DEF Assigned
<1>4. chosen # {}
  <2>1. S \in SUBSET Visits
    BY <1>1 DEF TypeOK
  <2>2. sel \in Seq(S) /\ sel # <<>>
    BY <2>1, Listing
  <2>3. 1 \in DOMAIN sel
    BY <2>2
  <2> QED
    BY <1>2, <2>3 DEF Assigned
<1>5. Members(g)' = chosen
  <2>1. \A x \in live : x \in Visits /\ groupId[x] # g
    BY <1>1, <1>3 DEF TypeOK, Members
  <2> QED
    BY <1>3, <2>1 DEF Members
<1>6. b[g] = Board!Empty
  <2>1. /\ b[g] = Board!Line(Members(g), Before(g), Together(g))
        /\ Before(g) \subseteq Members(g) \X Members(g)
        /\ Together(g) \subseteq Members(g) \X Members(g)
    BY LineBefore
  <2>2. Before(g) = {} /\ Together(g) = {}
    BY <1>3, <2>1
  <2> QED
    BY <1>3, <2>1, <2>2 DEF Board!Empty
<1>7. /\ n[g].visits = chosen /\ n[g].before = Before(g)'
      /\ n[g] = Board!Line(chosen, Before(g)', Together(g)')
      /\ Together(g)' \subseteq chosen \X chosen
      /\ \A x, y \in chosen : <<x, y>> \in Together(g)'
                                <=> Deref(segmentIndex'[x]) = Deref(segmentIndex'[y])
  BY <1>5, LineAfter
<1>8. Together(g)' = chosen \X chosen
  <2>1. \A x, y \in chosen : <<x, y>> \in Together(g)'
    <3> TAKE x, y \in chosen
    <3>1. segmentIndex'[x] = segmentIndex'[y]
      BY <1>3
    <3> QED
      BY <1>7, <3>1
  <2>2. \A x, y \in chosen : <<x, y>> \in Together(g)' <=> <<x, y>> \in chosen \X chosen
    BY <2>1
  <2>3. chosen \X chosen \subseteq chosen \X chosen /\ Together(g)' \subseteq chosen \X chosen
    BY <1>7
  <2> QED
    BY <2>2, <2>3, SamePairs
<1>9. Board!Orders(n[g].before, chosen)
  BY <1>1, <1>5, <1>7, OrdersAfter
<1>10. ASSUME NEW h \in Groups, h # g
       PROVE  n[h] = Board!Only(b[h], Visits \ chosen)
  <2>1. Members(h)' = Members(h) \cap (Visits \ chosen)
    BY <1>1, <1>3, <1>10 DEF Members, TypeOK
  <2>2. \A x \in Members(h)' : stopNr'[x] = stopNr[x] /\ segmentIndex'[x] = segmentIndex[x]
    BY <1>3, <2>1
  <2> QED
    BY <2>1, <2>2, KeptLine
<1>11. n = [h \in Groups |-> IF h = g THEN Board!Line(chosen, n[g].before, chosen \X chosen)
                                      ELSE Board!Only(b[h], Visits \ chosen)]
  <2>1. n = [h \in Groups |-> n[h]]
    BY DEF Reads
  <2>2. n[g] = Board!Line(chosen, n[g].before, chosen \X chosen)
    BY <1>7, <1>8
  <2> QED
    BY <1>10, <2>1, <2>2
<1>12. Board!NewGroup(b, n, g)
  BY <1>2, <1>4, <1>6, <1>7, <1>9, <1>11 DEF Board!NewGroup
<1> QED
  BY <1>12 DEF Board!Step

\* OptimizeGroup shuffles the visits of each segment of one line.
LEMMA StoreOrderOnBoard ==
    ASSUME BoardInv, BoardInv', NEW b, NEW n, Reads(b, n), NEW w \in Workers, StoreOrder(w)
    PROVE  Board!Step(b, n)
<1>1. TypeOK /\ SnapshotCurrent /\ TypeOK' /\ UniqueStops' /\ Numbered'
  BY DEF BoardInv, SerialInv
<1>2. PICK g : g = task[w].group
  OBVIOUS
<1>3. /\ g \in Groups /\ UNCHANGED <<live, groupId, segmentIndex>>
      /\ \A v \in Visits : v \notin Members(g) => stopNr'[v] = stopNr[v]
      /\ \A u, v \in Members(g) :
            Deref(segmentIndex[u]) < Deref(segmentIndex[v]) => stopNr'[u] < stopNr'[v]
  BY <1>1, <1>2, StoredPlaces
<1>4. PICK M : M = Members(g)
  OBVIOUS
<1>5. Members(g)' = M
  BY <1>3, <1>4 DEF Members
<1>6. /\ b[g].visits = M /\ b[g].before = Before(g) /\ b[g].together = Together(g)
      /\ n[g] = Board!Line(M, Before(g)', Together(g)') /\ n[g].before = Before(g)'
      /\ Together(g) \subseteq M \X M /\ Together(g)' \subseteq M \X M
      /\ \A x, y \in M :
            /\ <<x, y>> \in Before(g) <=> stopNr[x] < stopNr[y]
            /\ <<x, y>> \in Together(g)
                  <=> Deref(segmentIndex[x]) = Deref(segmentIndex[y])
      /\ \A x, y \in M :
            /\ <<x, y>> \in Before(g)' <=> stopNr'[x] < stopNr'[y]
            /\ <<x, y>> \in Together(g)'
                  <=> Deref(segmentIndex'[x]) = Deref(segmentIndex'[y])
  BY <1>3, <1>4, LineKept
<1>7. Together(g)' = Together(g)
  BY <1>3 DEF Together, Pairs, Members, Deref
<1>8. Board!Orders(Before(g)', M)
  BY <1>1, <1>3, <1>5, OrdersAfter
<1>9. ASSUME NEW p \in (M \X M) \ Together(g)
      PROVE  p \in Before(g)' <=> p \in Before(g)
  <2>1. PICK x \in M, y \in M : p = <<x, y>>
    OBVIOUS
  <2>2. /\ stopNr[x] \in Nat /\ segmentIndex[x] \in Nat
        /\ stopNr[y] \in Nat /\ segmentIndex[y] \in Nat
        /\ Deref(segmentIndex[x]) = segmentIndex[x] /\ Deref(segmentIndex[y]) = segmentIndex[y]
        /\ stopNr[x] = stopNr[y] => x = y
        /\ stopNr[x] < stopNr[y] => segmentIndex[x] <= segmentIndex[y]
        /\ stopNr[y] < stopNr[x] => segmentIndex[y] <= segmentIndex[x]
    BY <1>3, <1>4, BoardRows
  <2>3. stopNr'[x] \in Nat /\ stopNr'[y] \in Nat
    <3>1. /\ x \in Visits /\ x \in live' /\ groupId'[x] = g
          /\ y \in Visits /\ y \in live' /\ groupId'[y] = g /\ g # NoGroup
      BY <1>1, <1>3, <1>5 DEF Members, TypeOK, Groups, NoGroup
    <3>2. stopNr'[x] # Null /\ stopNr'[y] # Null
      BY <1>1, <3>1 DEF Numbered
    <3> QED
      BY <1>1, <3>1, <3>2 DEF TypeOK, Places
  <2>4. segmentIndex[x] # segmentIndex[y]
    BY <1>6, <1>9, <2>1
  <2>5. /\ segmentIndex[x] < segmentIndex[y] => stopNr'[x] < stopNr'[y]
        /\ segmentIndex[y] < segmentIndex[x] => stopNr'[y] < stopNr'[x]
    BY <1>3, <1>4, <2>2
  <2>6. stopNr'[x] < stopNr'[y] <=> stopNr[x] < stopNr[y]
    BY <2>2, <2>3, <2>4, <2>5
  <2> QED
    BY <1>6, <2>1, <2>6
<1>10. \A h \in Groups \ {g} : n[h] = b[h]
  <2>1. \A x \in Visits : groupId[x] # g =>
           stopNr'[x] = stopNr[x] /\ segmentIndex'[x] = segmentIndex[x]
    BY <1>3 DEF Members
  <2> QED
    BY <1>1, <1>3, <2>1, EditElsewhere
<1>11. Board!Put(b, n, g, Board!Line(M, Before(g)', Together(g)))
  <2>1. n[g] = Board!Line(M, Before(g)', Together(g))
    BY <1>6, <1>7
  <2> QED
    BY <1>3, <1>10, <2>1, PutLine
<1>12. Board!Optimize(b, n, g)
  BY <1>6, <1>8, <1>9, <1>11 DEF Board!Optimize
<1> QED
  BY <1>3, <1>12 DEF Board!Step

----------------------------------------------------------------------------
\* The board of the step as a whole.

LEMMA StartOnBoard ==
    ASSUME BoardInv, BoardInv', NEW b, NEW n, Reads(b, n), NEW w \in Workers, Start(w)
    PROVE  Board!Step(b, n) \/ UNCHANGED <<live, groupId, stopNr, segmentIndex>>
<1>1. ASSUME NEW S \in (SUBSET live) \ {{}}, NEW sel \in SetToSeqs(S),
             AssignVisitsToGroup(w, sel)
      PROVE  Board!Step(b, n)
  BY <1>1, AssignOnBoard
<1>2. ASSUME NEW g \in Groups, OptimizeGroup(w, g) \/ RecomputeGroupRoute(w, g)
      PROVE  UNCHANGED <<live, groupId, stopNr, segmentIndex>>
  BY <1>2 DEF OptimizeGroup, RecomputeGroupRoute, ReadOrder, visitVars
<1> QED
  BY <1>1, <1>2 DEF Start

LEMMA StepOnBoard ==
    ASSUME Movable = {}, BoardInv, BoardInv', [Next]_vars, NEW b, NEW n, Reads(b, n)
    PROVE  Board!Step(b, n) \/ n = b
<1>1. CASE Edit
  BY <1>1, ReorderOnBoard, SplitOnBoard, JoinOnBoard DEF Edit
<1>2. CASE Regroup
  BY <1>2 DEF Regroup, ChangeGroupId
<1>3. CASE Deletion
  BY <1>3, DeleteOnBoard DEF Deletion, BoardInv, SerialInv
<1>4. ASSUME NEW w \in Workers, StoreOrder(w)
      PROVE  Board!Step(b, n)
  BY <1>4, StoreOrderOnBoard
<1>5. ASSUME NEW w \in Workers, Start(w)
      PROVE  Board!Step(b, n) \/ UNCHANGED <<live, groupId, stopNr, segmentIndex>>
  BY <1>5, StartOnBoard
<1>6. CASE UNCHANGED <<live, groupId, stopNr, segmentIndex>>
  <2>1. \A g \in Groups : n[g] = b[g]
    <3> TAKE g \in Groups
    <3>1. Members(g)' = Members(g)
      BY <1>6 DEF Members
    <3>2. \A x \in Members(g) : stopNr'[x] = stopNr[x] /\ segmentIndex'[x] = segmentIndex[x]
      BY <1>6
    <3> QED
      BY <3>1, <3>2, SameLine
  <2> QED
    BY <2>1, SameBoard
<1>7. CASE LetterSent \/ UNCHANGED vars
  BY <1>6, <1>7 DEF LetterSent, VisitLetterSent, vars
<1>8. ASSUME NEW w \in Workers, Continue(w), ~StoreOrder(w)
      PROVE  UNCHANGED <<live, groupId, stopNr, segmentIndex>>
  BY <1>8 DEF Continue, ConfirmStatus, OptimizeFails, OptimizeRoute, ReadOrder, StoreRoute,
              DrawFails, visitVars
<1> QED
  BY <1>1, <1>2, <1>3, <1>4, <1>5, <1>6, <1>7, <1>8 DEF Next

LEMMA BoardStart ==
    ASSUME Init, Seeded = {}
    PROVE  BoardInv /\ Board!Init
<1>1. BoardInv
  BY SerialInit, SegmentsStart DEF BoardInv, Init, Numbered
<1>2. ASSUME NEW g \in Groups
      PROVE  GroupAsLine(g) = Board!Empty
  <2>1. Members(g) = {}
    BY DEF Init, Members, Groups, NoGroup
  <2>2. Before(g) = {} /\ Together(g) = {}
    BY <2>1 DEF Before, Together, Pairs
  <2> QED
    BY <2>1, <2>2 DEF GroupAsLine, Board!Empty, Board!Line
<1> QED
  BY <1>1, <1>2 DEF Board!Init

LEMMA BoardNext ==
    ASSUME ~Overlapping, Movable = {}, BoardInv, [Next]_vars
    PROVE  BoardInv'
<1> QED
  BY SerialStep, SegmentsStep, NumbersStep DEF BoardInv

\* As long as requests do not overlap, no visit is moved on its own and no row
\* comes from the seed, the numbers RoutePlanning keeps behave as lines of visits
\* cut into segments: every request is one of the board's steps, or none.
THEOREM PlanningImplementsBoard ==
    ASSUME ~Overlapping, Movable = {}, Seeded = {}
    PROVE  Spec => ImplementsBoard
<1>1. Init => BoardInv /\ Board!Init
  BY BoardStart
<1>2. BoardInv /\ [Next]_vars => BoardInv'
  BY BoardNext
<1>3. BoardInv /\ BoardInv' /\ [Next]_vars
        => [Board!Next]_[g \in Groups |-> GroupAsLine(g)]
  <2> SUFFICES ASSUME BoardInv, BoardInv', [Next]_vars
               PROVE  [Board!Next]_[g \in Groups |-> GroupAsLine(g)]
    OBVIOUS
  <2>1. PICK b : b = [g \in Groups |-> GroupAsLine(g)]
    OBVIOUS
  <2>2. PICK n : n = [g \in Groups |-> GroupAsLine(g)]'
    OBVIOUS
  <2>3. Reads(b, n)
    BY <2>1, <2>2 DEF Reads
  <2>4. Board!Step(b, n) \/ n = b
    BY <2>3, StepOnBoard
  <2> QED
    BY <2>1, <2>2, <2>4 DEF Board!Next
<1> QED
  BY <1>1, <1>2, <1>3, PTL DEF Spec, ImplementsBoard, Board!Spec
=============================================================================
