------------------------ MODULE RoutePlanningProofs ------------------------
(***************************************************************************)
(* Proofs about RoutePlanning, for any number of visits, groups and        *)
(* workers:                                                                *)
(*   - every column and every request under way keeps its type;            *)
(*   - an optimized order gives distinct places to distinct visits, also   *)
(*     when solver calls failed;                                           *)
(*   - no request but one that stores an optimized order can put two       *)
(*     visits of a group at one stop, however requests interleave;         *)
(*   - with one request at a time nothing can.                             *)
(***************************************************************************)
EXTENDS RoutePlanning, FiniteSetTheorems, TLAPS

----------------------------------------------------------------------------
\* Operators.

\* Any set of visits is finite.
LEMMA VisitsFinite ==
    ASSUME NEW S \in SUBSET Visits
    PROVE  /\ IsFiniteSet(S)
           /\ Cardinality(S) \in Nat
           /\ S # {} => Cardinality(S) >= 1
<1>1. IsFiniteSet(S)
  BY VisitsAssumption, FS_Subset
<1>2. Cardinality(S) \in Nat
  BY <1>1, FS_CardinalityType
<1>3. S # {} => Cardinality(S) # 0
  BY <1>1, FS_EmptySet
<1>4. QED
  BY <1>1, <1>2, <1>3

\* A listing of a set of visits is an injective sequence of them.
LEMMA Listing ==
    ASSUME NEW S \in SUBSET Visits, NEW s \in SetToSeqs(S)
    PROVE  /\ s \in Seq(S)
           /\ s \in Seq(Visits)
           /\ S # {} => s # <<>>
           /\ \A i, j \in DOMAIN s : i # j => s[i] # s[j]
<1>1. Cardinality(S) \in Nat /\ (S # {} => Cardinality(S) >= 1)
  BY VisitsFinite
<1>2. s \in [1..Cardinality(S) -> S] /\ \A i, j \in 1..Cardinality(S) : i # j => s[i] # s[j]
  BY DEF SetToSeqs
<1>3. s \in Seq(S) /\ s \in Seq(Visits) /\ Len(s) = Cardinality(S)
  BY <1>1, <1>2
<1>4. QED
  BY <1>1, <1>2, <1>3

\* Dereferencing a column gives a number.
LEMMA DerefType ==
    ASSUME NEW x \in Places
    PROVE  Deref(x) \in Nat
BY DEF Deref, Places, Null

Snapshots(S) == [S -> [stop : Nat, seg : Nat]]

\* A failed segment moves the visits behind it by one place more than the
\* visits of the segments up to it, and no visit in front of another is moved
\* further than that one.
LEMMA ShiftGrows ==
    ASSUME NEW S \in SUBSET Visits, NEW s \in Snapshots(S),
           NEW failed \in SUBSET NonLast(s),
           NEW v \in S, NEW w \in S, s[v].seg <= s[w].seg
    PROVE  /\ Shift(s, failed, v) \in Nat
           /\ Shift(s, failed, v) <= Shift(s, failed, w)
           /\ \A k \in failed : s[v].seg <= k /\ k < s[w].seg
                 => Shift(s, failed, v) < Shift(s, failed, w)
<1> DEFINE before(x) == {k \in failed : k < s[x].seg}
<1>1. DOMAIN s = S /\ Segments(s) \subseteq Nat
  BY DEF Snapshots, Segments
<1>2. IsFiniteSet(Segments(s))
  <2> DEFINE f == [x \in S |-> s[x].seg]
  <2>1. f \in Surjection(S, Segments(s))
    BY <1>1 DEF Surjection, Segments
  <2>2. IsFiniteSet(S)
    BY VisitsFinite
  <2>3. QED
    BY <2>1, <2>2, FS_Surjection
<1>3. failed \subseteq Segments(s) /\ IsFiniteSet(failed)
  <2>1. failed \subseteq Segments(s)
    BY DEF NonLast
  <2>2. QED
    BY <2>1, <1>2, FS_Subset
<1>4. \A x \in S : IsFiniteSet(before(x)) /\ Cardinality(before(x)) \in Nat
  <2> TAKE x \in S
  <2>1. before(x) \in SUBSET failed
    OBVIOUS
  <2>2. IsFiniteSet(before(x))
    BY <2>1, <1>3, FS_Subset
  <2>3. QED
    BY <2>2, FS_CardinalityType
<1>5. before(v) \in SUBSET before(w)
  BY <1>1, <1>3 DEF Snapshots
<1>6. Cardinality(before(v)) <= Cardinality(before(w))
  BY <1>4, <1>5, FS_Subset
<1>7. ASSUME NEW k \in failed, s[v].seg <= k, k < s[w].seg
      PROVE  Cardinality(before(v)) < Cardinality(before(w))
  <2>1. k \in before(w) /\ k \notin before(v)
    BY <1>7, <1>1, <1>3 DEF Snapshots
  <2>2. Cardinality(before(v)) # Cardinality(before(w))
    BY <2>1, <1>4, <1>5, FS_Subset
  <2>3. QED
    BY <2>2, <1>4, <1>6
<1>8. \A x \in S : Shift(s, failed, x) = Cardinality(before(x))
  BY DEF Shift
<1>9. QED
  BY <1>4, <1>6, <1>7, <1>8

\* Where the list of an optimized order holds a visit: at one place, or at two
\* neighbouring ones.
Slots(places, v) ==
    \E a \in Nat : places[v] = {a} \/ (a > 0 /\ places[v] = {a - 1, a})

\* Visit by visit the places of an optimized order are different.
Separate(S, places) ==
    /\ DOMAIN places = S
    /\ \A v \in S : Slots(places, v)
    /\ \A v, w \in S : v # w => places[v] \cap places[w] = {}

LEMMA TourType ==
    ASSUME NEW S \in SUBSET Visits, NEW s \in Snapshots(S), NEW p \in Tours(s)
    PROVE  /\ DOMAIN s = S
           /\ p \in [S -> Nat]
           /\ \A v, w \in S : /\ p[v] = p[w] => v = w
                              /\ s[v].seg < s[w].seg => p[v] < p[w]
<1>1. DOMAIN s = S /\ Cardinality(S) \in Nat
  BY VisitsFinite DEF Snapshots
<1>2. p \in [S -> 0..(Cardinality(S) - 1)]
  BY <1>1 DEF Tours
<1>3. QED
  BY <1>1, <1>2 DEF Tours

LEMMA FreeSeparate ==
    ASSUME NEW S \in SUBSET Visits, NEW s \in Snapshots(S), NEW places \in optimizeFree(s)
    PROVE  Separate(S, places)
<1>1. PICK p \in Tours(s) : places = [v \in DOMAIN s |-> {p[v]}]
  BY DEF optimizeFree
<1>2. /\ DOMAIN s = S
      /\ p \in [S -> Nat]
      /\ \A v, w \in S : /\ p[v] = p[w] => v = w
                         /\ s[v].seg < s[w].seg => p[v] < p[w]
  BY TourType
<1>3. DOMAIN places = S /\ \A v \in S : p[v] \in Nat /\ places[v] = {p[v]}
  BY <1>1, <1>2
<1>4. \A v \in S : Slots(places, v)
  BY <1>3 DEF Slots
<1>5. QED
  BY <1>2, <1>3, <1>4 DEF Separate

\* Failed segments push the places of later visits apart, never together.
LEMMA SegmentedSeparate ==
    ASSUME NEW S \in SUBSET Visits, NEW s \in Snapshots(S),
           NEW places \in optimizeSegmented(s)
    PROVE  Separate(S, places)
<1>1. PICK failed \in SUBSET NonLast(s), p \in Tours(s) : places = PlacesOf(s, p, failed)
  BY DEF optimizeSegmented
<1> DEFINE at(v) == p[v] + Shift(s, failed, v)
<1>2. /\ DOMAIN s = S
      /\ p \in [S -> Nat]
      /\ \A v, w \in S : /\ p[v] = p[w] => v = w
                         /\ s[v].seg < s[w].seg => p[v] < p[w]
  BY TourType
<1>3. \A v \in S : s[v].seg \in Nat /\ Shift(s, failed, v) \in Nat /\ at(v) \in Nat
  <2> TAKE v \in S
  <2>1. s[v].seg \in Nat
    BY DEF Snapshots
  <2>2. Shift(s, failed, v) \in Nat
    <3>1. s[v].seg <= s[v].seg
      BY <2>1
    <3>2. QED
      BY <3>1, ShiftGrows
  <2>3. QED
    BY <2>1, <2>2, <1>2
<1>4. /\ DOMAIN places = S
      /\ \A v \in S : places[v] = IF v \in Borrowed(s, p, failed) THEN {at(v) - 1, at(v)}
                                                            ELSE {at(v)}
  BY <1>1, <1>2 DEF PlacesOf
<1>5. ASSUME NEW v \in S, NEW w \in S, p[v] < p[w]
      PROVE  at(v) < at(w) /\ (w \in Borrowed(s, p, failed) => at(v) < at(w) - 1)
  <2>1. s[v].seg <= s[w].seg
    BY <1>2, <1>3, <1>5
  <2>2. Shift(s, failed, v) <= Shift(s, failed, w)
    BY <2>1, ShiftGrows
  <2>3. at(v) < at(w)
    BY <2>2, <1>2, <1>3, <1>5
  <2>4. ASSUME w \in Borrowed(s, p, failed)
        PROVE  at(v) < at(w) - 1
    <3>1. PICK k \in failed : /\ k < s[w].seg
                              /\ \A j \in Segments(s) : j <= k \/ j >= s[w].seg
      BY <2>4 DEF Borrowed
    <3>2. s[v].seg # s[w].seg
      BY <2>4, <1>2, <1>3, <1>5 DEF Borrowed, Heads, Segment
    <3>3. s[v].seg \in Segments(s)
      BY <1>2 DEF Segments
    <3>4. s[v].seg <= k
      BY <3>1, <3>2, <3>3, <2>1, <1>3
    <3>5. Shift(s, failed, v) < Shift(s, failed, w)
      BY <3>1, <3>4, <2>1, ShiftGrows
    <3>6. QED
      BY <3>5, <1>2, <1>3, <1>5
  <2>5. QED
    BY <2>3, <2>4
<1>6. ASSUME NEW v \in S, v \in Borrowed(s, p, failed)
      PROVE  at(v) > 0
  <2>1. PICK k \in failed : k < s[v].seg
    BY <1>6 DEF Borrowed
  <2>2. PICK u \in S : s[u].seg = k
    BY <1>2 DEF NonLast, Segments
  <2>3. Shift(s, failed, u) < Shift(s, failed, v)
    BY <2>1, <2>2, <1>3, ShiftGrows
  <2>4. QED
    BY <2>3, <1>2, <1>3
<1>7. \A v \in S : Slots(places, v)
  BY <1>3, <1>4, <1>6 DEF Slots
<1>8. ASSUME NEW v \in S, NEW w \in S, p[v] < p[w]
      PROVE  places[v] \cap places[w] = {}
  BY <1>3, <1>4, <1>5, <1>8
<1>9. ASSUME NEW v \in S, NEW w \in S, v # w
      PROVE  places[v] \cap places[w] = {}
  <2>1. p[v] # p[w]
    BY <1>2, <1>9
  <2>2. p[v] < p[w] \/ p[w] < p[v]
    BY <2>1, <1>2
  <2>3. CASE p[v] < p[w]
    BY <2>3, <1>8
  <2>4. CASE p[w] < p[v]
    BY <2>4, <1>8
  <2>5. QED
    BY <2>2, <2>3, <2>4
<1>10. QED
  BY <1>4, <1>7, <1>9 DEF Separate

\* What a request under way holds, by the step it is at.
LEMMA TaskFields ==
    ASSUME NEW t, IsTask(t)
    PROVE  /\ t.step = "confirm" => t.todo \in Seq(Visits) /\ t.todo # <<>>
           /\ t.step = "solve" =>
                /\ t.group \in Groups
                /\ DOMAIN t.snap \in SUBSET Visits
                /\ t.snap \in Snapshots(DOMAIN t.snap)
           /\ t.step \in {"ordered", "draw"} => t.group \in Groups
           /\ t.step = "draw" => t.order \in Seq(Visits)
<1>1. CASE t = Idle
  BY <1>1 DEF Idle
<1>2. CASE t \in [step : {"confirm"}, todo : Seq(Visits) \ {<<>>}]
  BY <1>2
<1>3. CASE \E S \in SUBSET Visits :
             t \in [step : {"solve"}, group : Groups, snap : Snapshots(S)]
  BY <1>3 DEF Snapshots
<1>4. CASE t \in [step : {"ordered"}, group : Groups]
  BY <1>4
<1>5. CASE t \in [step : {"draw"}, group : Groups, order : Seq(Visits)]
  BY <1>5
<1>6. QED
  BY <1>1, <1>2, <1>3, <1>4, <1>5 DEF IsTask, Snapshots

\* A worker that goes on holds a task again.
LEMMA BecomeType ==
    ASSUME TypeOK, NEW w \in Workers, NEW t, IsTask(t), Become(w, t)
    PROVE  DOMAIN task' = Workers /\ \A x \in Workers : IsTask(task'[x])
<1>1. \A x \in Workers : task'[x] = IF x = w THEN t ELSE task[x]
  BY DEF TypeOK, Become
<1>2. DOMAIN task' = Workers
  BY DEF TypeOK, Become
<1>3. QED
  BY <1>1, <1>2 DEF TypeOK

LEMMA IdleType == IsTask(Idle)
BY DEF IsTask

----------------------------------------------------------------------------
\* Type correctness.

LEMMA InitType ==
    ASSUME Init
    PROVE  TypeOK
<1>1. Groups # {} /\ 1 \in Groups
  BY MaxGroupAssumption DEF Groups
<1>2. \A w \in Workers : IsTask(task[w])
  BY IdleType DEF Init
<1>3. route \in [Groups -> Seq(Visits)]
  BY DEF Init, NoRoute
<1>4. QED
  BY <1>1, <1>2, <1>3 DEF Init, TypeOK, Places, Null, NoGroup

LEMMA ChangeGroupIdType ==
    ASSUME TypeOK, NEW v \in Visits, NEW target \in Groups \cup {NoGroup},
           ChangeGroupId(v, target)
    PROVE  TypeOK'
<1>1. CASE target = NoGroup
  BY <1>1 DEF ChangeGroupId, TypeOK
<1>2. CASE target # NoGroup
  <2>1. PICK g \in Groups :
          LET S == Members(g) \cup {v}
          IN  /\ groupId' = [groupId EXCEPT ![v] = g]
              /\ \E p \in fixRouteOrder(S, v) :
                   stopNr' = [x \in Visits |-> IF x \in S THEN p[x] ELSE stopNr[x]]
              /\ route' = [route EXCEPT ![g] = NoRoute]
    BY <1>2 DEF ChangeGroupId, nextVacantGroupId
  <2> DEFINE S == Members(g) \cup {v}
  <2>2. S \in SUBSET Visits /\ Cardinality(S) \in Nat
    <3>1. S \in SUBSET Visits
      BY DEF TypeOK, Members
    <3>2. QED
      BY <3>1, VisitsFinite
  <2>3. PICK p \in fixRouteOrder(S, v) :
          stopNr' = [x \in Visits |-> IF x \in S THEN p[x] ELSE stopNr[x]]
    BY <2>1
  <2>4. p \in [S -> Nat]
    BY <2>2 DEF fixRouteOrder
  <2>5. stopNr' \in [Visits -> Places]
    BY <2>3, <2>4 DEF TypeOK, Places
  <2>6. groupId' \in [Visits -> Groups \cup {NoGroup}]
    BY <2>1 DEF TypeOK
  <2>7. route' \in [Groups -> Seq(Visits)]
    BY <2>1 DEF TypeOK, NoRoute
  <2>8. QED
    BY <2>5, <2>6, <2>7 DEF ChangeGroupId, TypeOK
<1>3. QED
  BY <1>1, <1>2

LEMMA EditType ==
    ASSUME TypeOK, Edit
    PROVE  TypeOK'
<1>1. PICK v \in Visits : \/ \E side \in {"up", "down"} : ReorderVisit(v, side)
                          \/ SplitSegment(v)
                          \/ JoinSegment(v)
  BY DEF Edit
<1>2. Planned(v) /\ CommitEdit(groupId[v])
  BY <1>1 DEF ReorderVisit, SplitSegment, JoinSegment, JoinAccepted
<1>3. route' \in [Groups -> Seq(Visits)]
  <2>1. PICK g : route' = [route EXCEPT ![g] = NoRoute]
    BY <1>2 DEF CommitEdit
  <2>2. NoRoute \in Seq(Visits)
    BY DEF NoRoute
  <2>3. QED
    BY <2>1, <2>2 DEF TypeOK
<1>4. stopNr' \in [Visits -> Places] /\ segmentIndex' \in [Visits -> Places]
  <2>1. CASE \E side \in {"up", "down"} : ReorderVisit(v, side)
    <3>1. PICK n \in Members(groupId[v]) :
            stopNr' = [stopNr EXCEPT ![v] = stopNr[n], ![n] = stopNr[v]]
      BY <2>1 DEF ReorderVisit, Swapped, Neighbours
    <3>2. n \in Visits
      BY DEF Members, TypeOK
    <3>3. QED
      BY <2>1, <3>1, <3>2 DEF ReorderVisit, TypeOK
  <2>2. CASE SplitSegment(v)
    <3>1. \A x \in Visits : Deref(segmentIndex[x]) + 1 \in Places
      <4> TAKE x \in Visits
      <4>1. Deref(segmentIndex[x]) \in Nat
        BY DerefType DEF TypeOK
      <4>2. QED
        BY <4>1 DEF Places
    <3>2. QED
      BY <2>2, <3>1 DEF SplitSegment, TypeOK
  <2>3. CASE JoinSegment(v)
    <3>1. \A x \in TailFrom(v) : x \in Visits /\ segmentIndex[x] - 1 \in Places
      BY <2>3 DEF JoinSegment, TailFrom, Members, TypeOK, Places, Null
    <3>2. QED
      BY <2>3, <3>1 DEF JoinSegment, TypeOK
  <2>4. QED
    BY <1>1, <2>1, <2>2, <2>3
<1>5. QED
  BY <1>2, <1>3, <1>4 DEF CommitEdit, TypeOK

LEMMA AssignType ==
    ASSUME TypeOK, NEW w \in Workers, NEW S \in (SUBSET live) \ {{}},
           NEW sel \in SetToSeqs(S), AssignVisitsToGroup(w, sel)
    PROVE  TypeOK'
<1>1. /\ S \in SUBSET Visits
      /\ sel \in Seq(Visits)
      /\ sel # <<>>
  <2>1. S \in SUBSET Visits
    BY DEF TypeOK
  <2>2. QED
    BY <2>1, Listing
<1> DEFINE chosen == {sel[i] : i \in DOMAIN sel}
<1> DEFINE at(x) == CHOOSE i \in DOMAIN sel : sel[i] = x
<1>2. \A x \in chosen : at(x) \in DOMAIN sel
  OBVIOUS
<1>3. \A x \in chosen : at(x) - 1 \in Nat
  <2>1. DOMAIN sel = 1..Len(sel) /\ Len(sel) \in Nat
    BY <1>1
  <2> HIDE DEF at, chosen
  <2>2. QED
    BY <1>2, <2>1
<1>4. stopNr' \in [Visits -> Places]
  <2>1. stopNr' = [x \in Visits |-> IF x \in chosen THEN at(x) - 1 ELSE stopNr[x]]
    BY DEF AssignVisitsToGroup
  <2> HIDE DEF at, chosen
  <2>2. QED
    BY <1>3, <2>1 DEF TypeOK, Places
<1>5. PICK g \in Groups : groupId' = [x \in Visits |-> IF x \in chosen THEN g ELSE groupId[x]]
  BY DEF AssignVisitsToGroup, nextVacantGroupId
<1>6. IsTask([step |-> "confirm", todo |-> sel])
  BY <1>1 DEF IsTask
<1>7. DOMAIN task' = Workers /\ \A x \in Workers : IsTask(task'[x])
  <2>1. Become(w, [step |-> "confirm", todo |-> sel])
    BY DEF AssignVisitsToGroup
  <2>2. QED
    BY <1>6, <2>1, BecomeType
<1>8. /\ segmentIndex' = [x \in Visits |-> IF x \in chosen THEN 0 ELSE segmentIndex[x]]
      /\ statusId' = [x \in Visits |-> IF x \in chosen THEN 2 ELSE statusId[x]]
      /\ UNCHANGED <<live, route>>
  BY DEF AssignVisitsToGroup
<1> HIDE DEF chosen
<1>9. /\ groupId' \in [Visits -> Groups \cup {NoGroup}]
      /\ segmentIndex' \in [Visits -> Places]
      /\ statusId' \in [Visits -> 1..3]
  BY <1>5, <1>8 DEF TypeOK, Places
<1>10. QED
  BY <1>4, <1>7, <1>8, <1>9 DEF TypeOK

LEMMA ReadOrderType ==
    ASSUME TypeOK, NEW w \in Workers, NEW g \in Groups, ReadOrder(w, g)
    PROVE  TypeOK'
<1>1. PICK order \in StopOrders(Members(g)) :
        Become(w, IF order = <<>> THEN Idle
                  ELSE [step |-> "draw", group |-> g, order |-> order])
  BY DEF ReadOrder
<1>2. order \in Seq(Visits)
  <2>1. Members(g) \in SUBSET Visits /\ order \in SetToSeqs(Members(g))
    BY DEF Members, StopOrders, TypeOK
  <2>2. QED
    BY <2>1, Listing
<1>3. IsTask(IF order = <<>> THEN Idle
             ELSE [step |-> "draw", group |-> g, order |-> order])
  BY <1>2 DEF IsTask
<1>4. DOMAIN task' = Workers /\ \A x \in Workers : IsTask(task'[x])
  BY <1>1, <1>3, BecomeType
<1>5. QED
  BY <1>4 DEF ReadOrder, visitVars, TypeOK

LEMMA StartType ==
    ASSUME TypeOK, NEW w \in Workers, Start(w)
    PROVE  TypeOK'
<1>1. CASE \E S \in (SUBSET live) \ {{}} : \E sel \in SetToSeqs(S) : AssignVisitsToGroup(w, sel)
  BY <1>1, AssignType
<1>2. CASE \E g \in Groups : OptimizeGroup(w, g)
  <2>1. PICK g \in Groups : OptimizeGroup(w, g)
    BY <1>2
  <2> DEFINE snap == [v \in Members(g) |-> [stop |-> Deref(stopNr[v]),
                                            seg |-> Deref(segmentIndex[v])]]
  <2>2. Members(g) \in SUBSET Visits
    BY DEF Members, TypeOK
  <2>3. snap \in [Members(g) -> [stop : Nat, seg : Nat]]
    <3>1. \A v \in Members(g) : Deref(stopNr[v]) \in Nat /\ Deref(segmentIndex[v]) \in Nat
      BY <2>2, DerefType DEF TypeOK
    <3>2. QED
      BY <3>1
  <2>4. Become(w, [step |-> "solve", group |-> g, snap |-> snap])
    BY <2>1 DEF OptimizeGroup
  <2> HIDE DEF snap
  <2>5. IsTask([step |-> "solve", group |-> g, snap |-> snap])
    BY <2>2, <2>3 DEF IsTask
  <2>6. DOMAIN task' = Workers /\ \A x \in Workers : IsTask(task'[x])
    BY <2>4, <2>5, BecomeType
  <2>7. QED
    BY <2>1, <2>6 DEF OptimizeGroup, visitVars, TypeOK
<1>3. CASE \E g \in Groups : RecomputeGroupRoute(w, g)
  BY <1>3, ReadOrderType DEF RecomputeGroupRoute
<1>4. QED
  BY <1>1, <1>2, <1>3 DEF Start

\* The place a visit has after the order is stored is one of its places.
LEMMA StoredPlace ==
    ASSUME NEW S \in SUBSET Visits, NEW s \in Snapshots(S),
           NEW places \in optimizeFree(s) \cup optimizeSegmented(s), NEW v \in S
    PROVE  /\ places[v] \subseteq Nat
           /\ v \in Writes(s, places) => LastWrite(s, places, v) \in places[v]
           /\ v \notin Writes(s, places) => places[v] = {s[v].stop}
<1>1. PICK a \in Nat : places[v] = {a} \/ (a > 0 /\ places[v] = {a - 1, a})
  BY FreeSeparate, SegmentedSeparate DEF Separate, Slots
<1>2. DOMAIN s = S /\ s[v].stop \in Nat
  BY DEF Snapshots
<1>3. ASSUME v \in Writes(s, places)
      PROVE  \E i \in places[v] \ {s[v].stop} : \A j \in places[v] \ {s[v].stop} : j <= i
  <2>1. CASE a \in places[v] \ {s[v].stop}
    BY <2>1, <1>1
  <2>2. CASE a \notin places[v] \ {s[v].stop}
    <3>1. a = s[v].stop
      BY <2>2, <1>1
    <3>2. places[v] \ {s[v].stop} = {a - 1}
      BY <3>1, <1>1, <1>3, <1>2 DEF Writes
    <3>3. QED
      BY <3>2, <1>1
  <2>3. QED
    BY <2>1, <2>2
<1>4. v \in Writes(s, places) => LastWrite(s, places, v) \in places[v]
  BY <1>3 DEF LastWrite
<1>5. QED
  BY <1>1, <1>2, <1>4 DEF Writes

LEMMA StoreOrderType ==
    ASSUME TypeOK, NEW w \in Workers, StoreOrder(w)
    PROVE  TypeOK'
<1> DEFINE s == task[w].snap
<1> DEFINE S == DOMAIN s
<1>1. task[w].group \in Groups /\ S \in SUBSET Visits /\ s \in Snapshots(S)
  BY TaskFields DEF TypeOK, StoreOrder
<1>2. PICK places \in optimizeFree(s) \cup optimizeSegmented(s) :
        stopNr' = [v \in Visits |-> IF v \in S /\ v \in Writes(s, places)
                                    THEN LastWrite(s, places, v) ELSE stopNr[v]]
  BY DEF StoreOrder
<1>3. Become(w, [step |-> "ordered", group |-> task[w].group])
  BY DEF StoreOrder
<1>4. UNCHANGED <<live, groupId, segmentIndex, statusId, route>>
  BY DEF StoreOrder
<1>5. IsTask([step |-> "ordered", group |-> task[w].group])
  BY <1>1 DEF IsTask
<1> HIDE DEF S, s
<1>6. \A v \in S : v \in Writes(s, places) => LastWrite(s, places, v) \in Nat
  BY <1>1, StoredPlace
<1>7. stopNr' \in [Visits -> Places]
  BY <1>2, <1>6 DEF TypeOK, Places
<1>8. DOMAIN task' = Workers /\ \A x \in Workers : IsTask(task'[x])
  BY <1>3, <1>5, BecomeType
<1>9. QED
  BY <1>4, <1>7, <1>8 DEF TypeOK

LEMMA ContinueType ==
    ASSUME TypeOK, NEW w \in Workers, Continue(w)
    PROVE  TypeOK'
<1> IsTask(task[w])
  BY DEF TypeOK
<1>1. ASSUME Become(w, Idle), UNCHANGED visitVars,
             UNCHANGED route \/ (\E g \in Groups : \E o \in Seq(Visits) :
                                   route' = [route EXCEPT ![g] = o])
      PROVE  TypeOK'
  <2>1. DOMAIN task' = Workers /\ \A x \in Workers : IsTask(task'[x])
    BY <1>1, IdleType, BecomeType
  <2>2. route' \in [Groups -> Seq(Visits)]
    BY <1>1 DEF TypeOK
  <2>3. QED
    BY <2>1, <2>2, <1>1 DEF visitVars, TypeOK
<1>2. CASE ConfirmStatus(w)
  <2> DEFINE rest == Tail(task[w].todo)
  <2> DEFINE t == IF rest = <<>> THEN Idle ELSE [step |-> "confirm", todo |-> rest]
  <2>1. task[w].todo \in Seq(Visits) /\ task[w].todo # <<>>
    BY <1>2, TaskFields DEF ConfirmStatus
  <2>2. rest \in Seq(Visits)
    BY <2>1
  <2>3. Become(w, t)
    BY <1>2 DEF ConfirmStatus
  <2>4. /\ statusId' \in {statusId, [statusId EXCEPT ![Head(task[w].todo)] = 2]}
        /\ UNCHANGED <<live, groupId, stopNr, segmentIndex, route>>
    BY <1>2 DEF ConfirmStatus
  <2> HIDE DEF rest
  <2>5. IsTask(t)
    BY <2>2 DEF IsTask
  <2>6. DOMAIN task' = Workers /\ \A x \in Workers : IsTask(task'[x])
    BY <2>3, <2>5, BecomeType
  <2>7. QED
    BY <2>4, <2>6 DEF TypeOK
<1>3. CASE StoreOrder(w)
  BY <1>3, StoreOrderType
<1>4. CASE OptimizeFails(w)
  BY <1>4, <1>1 DEF OptimizeFails
<1>5. CASE OptimizeRoute(w)
  <2>1. task[w].group \in Groups /\ ReadOrder(w, task[w].group)
    BY <1>5, TaskFields DEF OptimizeRoute
  <2>2. QED
    BY <2>1, ReadOrderType
<1>6. CASE StoreRoute(w)
  <2>1. task[w].group \in Groups /\ task[w].order \in Seq(Visits)
    BY <1>6, TaskFields DEF StoreRoute
  <2>2. QED
    BY <2>1, <1>6, <1>1 DEF StoreRoute
<1>7. CASE DrawFails(w)
  BY <1>7, <1>1 DEF DrawFails
<1>8. QED
  BY <1>2, <1>3, <1>4, <1>5, <1>6, <1>7 DEF Continue

LEMMA NextType ==
    ASSUME TypeOK, [Next]_vars
    PROVE  TypeOK'
<1>1. CASE Edit
  BY <1>1, EditType
<1>2. CASE Regroup
  BY <1>2, ChangeGroupIdType DEF Regroup
<1>3. CASE Deletion
  BY <1>3 DEF Deletion, DeleteVisit, TypeOK
<1>4. CASE LetterSent
  BY <1>4 DEF LetterSent, VisitLetterSent, TypeOK
<1>5. CASE \E w \in Workers : Start(w) \/ Continue(w)
  BY <1>5, StartType, ContinueType
<1>6. CASE UNCHANGED vars
  BY <1>6 DEF vars, TypeOK
<1>7. QED
  BY <1>1, <1>2, <1>3, <1>4, <1>5, <1>6 DEF Next

\* Every column and every request under way keeps its type, however the
\* requests of v1_groups.go, v1_routing.go and v1_route.go interleave: no
\* optimized order or join writes a negative stop_nr or segment_index.
THEOREM TypeCorrect == Spec => []TypeOK
<1>1. Init => TypeOK
  BY InitType
<1>2. TypeOK /\ [Next]_vars => TypeOK'
  BY NextType
<1>3. QED
  BY <1>1, <1>2, PTL DEF Spec

----------------------------------------------------------------------------
\* Distinct stops.

\* A step that moves no visit and no stop keeps stops distinct.
LEMMA StopsKept ==
    ASSUME UniqueStops, live' \subseteq live, UNCHANGED <<groupId, stopNr>>
    PROVE  UniqueStops'
BY DEF UniqueStops

\* A visit that enters a group gets a number of its own there: the members are
\* renumbered together, and the group that is left keeps its numbers.
LEMMA ChangeGroupIdUnique ==
    ASSUME TypeOK, UniqueStops, NEW v \in Visits, NEW target \in Groups \cup {NoGroup},
           ChangeGroupId(v, target)
    PROVE  UniqueStops'
<1>1. CASE target = NoGroup
  <2>1. /\ groupId' = [groupId EXCEPT ![v] = NoGroup]
        /\ UNCHANGED <<live, stopNr>>
    BY <1>1 DEF ChangeGroupId
  <2>2. QED
    BY <2>1 DEF UniqueStops, TypeOK
<1>2. CASE target # NoGroup
  <2>1. PICK g \in Groups :
          LET S == Members(g) \cup {v}
          IN  /\ groupId' = [groupId EXCEPT ![v] = g]
              /\ \E p \in fixRouteOrder(S, v) :
                   stopNr' = [x \in Visits |-> IF x \in S THEN p[x] ELSE stopNr[x]]
    BY <1>2 DEF ChangeGroupId, nextVacantGroupId
  <2> DEFINE S == Members(g) \cup {v}
  <2>2. PICK p \in fixRouteOrder(S, v) :
          stopNr' = [x \in Visits |-> IF x \in S THEN p[x] ELSE stopNr[x]]
    BY <2>1
  <2>3. \A x, y \in S : p[x] = p[y] => x = y
    BY DEF fixRouteOrder
  <2>4. live' = live /\ live \subseteq Visits
    BY DEF ChangeGroupId, TypeOK
  <2>5. \A x \in live : groupId'[x] = IF x = v THEN g ELSE groupId[x]
    BY <2>1, <2>4 DEF TypeOK
  <2>6. \A x \in live : groupId'[x] = g <=> x \in S
    BY <2>4, <2>5 DEF ChangeGroupId, Members
  <2>7. \A x \in live : stopNr'[x] = IF x \in S THEN p[x] ELSE stopNr[x]
    BY <2>2, <2>4
  <2> HIDE DEF S
  <2>8. SUFFICES ASSUME NEW x \in live, NEW y \in live, x # y,
                        groupId'[x] = groupId'[y], groupId'[x] # NoGroup,
                        stopNr'[x] # Null
                 PROVE  stopNr'[x] # stopNr'[y]
    BY <2>4 DEF UniqueStops
  <2>9. CASE x \in S
    BY <2>3, <2>6, <2>7, <2>8, <2>9
  <2>10. CASE x \notin S
    <3>1. y \notin S
      BY <2>6, <2>8, <2>10
    <3>2. v \in S
      BY DEF S
    <3>3. groupId[x] = groupId[y] /\ groupId[x] # NoGroup /\ stopNr[x] # Null
      BY <2>5, <2>7, <2>8, <2>10, <3>1, <3>2
    <3>4. QED
      BY <2>7, <2>8, <2>10, <3>1, <3>3 DEF UniqueStops
  <2>11. QED
    BY <2>9, <2>10
<1>3. QED
  BY <1>1, <1>2

LEMMA EditUnique ==
    ASSUME TypeOK, UniqueStops, Edit
    PROVE  UniqueStops'
<1>1. PICK v \in Visits : \/ \E side \in {"up", "down"} : ReorderVisit(v, side)
                          \/ SplitSegment(v)
                          \/ JoinSegment(v)
  BY DEF Edit
<1>2. CASE \E side \in {"up", "down"} : ReorderVisit(v, side)
  <2>1. PICK n \in Members(groupId[v]) \ {v} :
          stopNr' = [stopNr EXCEPT ![v] = stopNr[n], ![n] = stopNr[v]]
    BY <1>2 DEF ReorderVisit, Swapped, Neighbours
  <2>2. UNCHANGED <<live, groupId>>
    BY <1>2 DEF ReorderVisit, CommitEdit
  <2>3. n \in live /\ n \in Visits /\ groupId[n] = groupId[v] /\ v \in live
    BY <1>2 DEF ReorderVisit, Planned, Members, TypeOK
  <2>4. \A x \in Visits : stopNr'[x] = IF x = n THEN stopNr[v]
                                       ELSE IF x = v THEN stopNr[n] ELSE stopNr[x]
    BY <2>1, <2>3 DEF TypeOK
  <2>5. live \subseteq Visits
    BY DEF TypeOK
  <2> DEFINE from(x) == IF x = n THEN v ELSE IF x = v THEN n ELSE x
  <2>6. \A x \in live : /\ from(x) \in live
                        /\ groupId[from(x)] = groupId'[x]
                        /\ stopNr[from(x)] = stopNr'[x]
    BY <2>2, <2>3, <2>4, <2>5
  <2>7. \A x, y \in live : x # y => from(x) # from(y)
    BY <2>1
  <2> HIDE DEF from
  <2>8. QED
    BY <2>2, <2>6, <2>7 DEF UniqueStops
<1>3. CASE SplitSegment(v) \/ JoinSegment(v)
  BY <1>3, StopsKept DEF SplitSegment, JoinSegment, CommitEdit
<1>4. QED
  BY <1>1, <1>2, <1>3

\* The visits of a new group are numbered by their place in the request, and
\* the id of the new group belongs to no live visit.
LEMMA AssignUnique ==
    ASSUME TypeOK, UniqueStops, NEW w \in Workers, NEW S \in (SUBSET live) \ {{}},
           NEW sel \in SetToSeqs(S), AssignVisitsToGroup(w, sel)
    PROVE  UniqueStops'
<1> DEFINE chosen == {sel[i] : i \in DOMAIN sel}
<1> DEFINE at(x) == CHOOSE i \in DOMAIN sel : sel[i] = x
<1>1. sel \in Seq(Visits)
  BY Listing DEF TypeOK
<1>2. \A x \in chosen : at(x) \in DOMAIN sel /\ sel[at(x)] = x /\ at(x) \in Nat
  <2>1. \A x \in chosen : at(x) \in DOMAIN sel /\ sel[at(x)] = x
    OBVIOUS
  <2> HIDE DEF at, chosen
  <2>2. QED
    BY <2>1, <1>1
<1>3. live' = live /\ live \subseteq Visits
  BY DEF AssignVisitsToGroup, TypeOK
<1>4. PICK g \in nextVacantGroupId :
        groupId' = [x \in Visits |-> IF x \in chosen THEN g ELSE groupId[x]]
  BY DEF AssignVisitsToGroup
<1>5. \A x \in live : groupId[x] # g
  BY <1>3 DEF nextVacantGroupId, TypeOK, Groups, NoGroup
<1>6. stopNr' = [x \in Visits |-> IF x \in chosen THEN at(x) - 1 ELSE stopNr[x]]
  BY DEF AssignVisitsToGroup
<1> HIDE DEF chosen, at
<1>7. SUFFICES ASSUME NEW x \in live, NEW y \in live, x # y,
                      groupId'[x] = groupId'[y], groupId'[x] # NoGroup,
                      stopNr'[x] # Null
               PROVE  stopNr'[x] # stopNr'[y]
  BY <1>3 DEF UniqueStops
<1>8. CASE x \in chosen /\ y \in chosen
  <2>1. at(x) # at(y)
    BY <1>2, <1>7, <1>8
  <2>2. QED
    BY <2>1, <1>2, <1>3, <1>6, <1>8
<1>9. CASE x \notin chosen /\ y \notin chosen
  BY <1>3, <1>4, <1>6, <1>7, <1>9 DEF UniqueStops
<1>10. CASE x \in chosen <=> y \notin chosen
  BY <1>3, <1>4, <1>5, <1>7, <1>10
<1>11. QED
  BY <1>8, <1>9, <1>10

\* Every step of Next keeps stops distinct unless it stores an optimized order.
LEMMA OtherStepsUnique ==
    ASSUME TypeOK, UniqueStops, [Next]_vars, ~\E w \in Workers : StoreOrder(w)
    PROVE  UniqueStops'
<1>1. CASE Edit
  BY <1>1, EditUnique
<1>2. CASE Regroup
  BY <1>2, ChangeGroupIdUnique DEF Regroup
<1>3. CASE Deletion
  BY <1>3, StopsKept DEF Deletion, DeleteVisit
<1>4. CASE LetterSent
  BY <1>4, StopsKept DEF LetterSent, VisitLetterSent
<1>5. ASSUME NEW w \in Workers, Start(w)
      PROVE  UniqueStops'
  <2>1. CASE \E S \in (SUBSET live) \ {{}} : \E sel \in SetToSeqs(S) : AssignVisitsToGroup(w, sel)
    BY <2>1, AssignUnique
  <2>2. CASE \E g \in Groups : OptimizeGroup(w, g) \/ RecomputeGroupRoute(w, g)
    <3>1. UNCHANGED visitVars
      BY <2>2 DEF OptimizeGroup, RecomputeGroupRoute, ReadOrder
    <3>2. QED
      BY <3>1, StopsKept DEF visitVars
  <2>3. QED
    BY <1>5, <2>1, <2>2 DEF Start
<1>6. ASSUME NEW w \in Workers, Continue(w)
      PROVE  UniqueStops'
  <2>1. UNCHANGED <<live, groupId, stopNr>>
    BY <1>6 DEF Continue, ConfirmStatus, OptimizeFails, OptimizeRoute, ReadOrder,
                StoreRoute, DrawFails, visitVars
  <2>2. QED
    BY <2>1, StopsKept
<1>7. CASE UNCHANGED vars
  BY <1>7, StopsKept DEF vars
<1>8. QED
  BY <1>1, <1>2, <1>3, <1>4, <1>5, <1>6, <1>7 DEF Next

\* Requests may interleave at every database step: only the write of an
\* optimized order, computed from rows read earlier, can put two visits of a
\* group at one stop. Moves, assignments and segment edits never do.
THEOREM OnlyStoreDuplicates == Spec => OnlyOptimizeDuplicates
<1> DEFINE A == UniqueStops /\ ~UniqueStops' =>
                  \E w \in Workers, g \in Groups : Stored(w, g)
<1>1. TypeOK /\ [Next]_vars => A
  <2> SUFFICES ASSUME TypeOK, [Next]_vars, UniqueStops, ~UniqueStops'
               PROVE  \E w \in Workers, g \in Groups : Stored(w, g)
    OBVIOUS
  <2>1. PICK w \in Workers : StoreOrder(w)
    BY OtherStepsUnique
  <2>2. task[w].step = "solve" /\ task[w].group \in Groups
    BY <2>1, TaskFields DEF StoreOrder, TypeOK
  <2>3. task'[w].step = "ordered"
    BY <2>1 DEF StoreOrder, Become, TypeOK
  <2>4. QED
    BY <2>2, <2>3 DEF Stored
<1>2. TypeOK /\ [Next]_vars => [A]_vars
  BY <1>1
<1>3. QED
  BY <1>2, TypeCorrect, PTL DEF Spec, OnlyOptimizeDuplicates

----------------------------------------------------------------------------
\* One request at a time.

\* At most one request is under way. SnapshotCurrent needs it: nobody changes
\* the rows a solver is working on.
OneRequest ==
    \A u, w \in Workers : task[u] # Idle /\ task[w] # Idle => u = w

\* What the solver was given is what the group still is when the order comes
\* back.
SnapshotCurrent ==
    \A w \in Workers : task[w].step = "solve" =>
        /\ DOMAIN task[w].snap = Members(task[w].group)
        /\ \A v \in DOMAIN task[w].snap :
              task[w].snap[v] = [stop |-> Deref(stopNr[v]), seg |-> Deref(segmentIndex[v])]

\* UniqueStops is not inductive: StoreOrder writes places that differ among the
\* visits it read, so these must still be the visits of the group and a visit it
\* leaves alone must still be at the place it was read at.
SerialInv == TypeOK /\ UniqueStops /\ OneRequest /\ SnapshotCurrent

\* Storing an optimized order for rows that are as they were read.
LEMMA StoreOrderUnique ==
    ASSUME TypeOK, UniqueStops, SnapshotCurrent, NEW w \in Workers, StoreOrder(w)
    PROVE  UniqueStops'
<1> DEFINE s == task[w].snap
<1> DEFINE g == task[w].group
<1> DEFINE S == DOMAIN s
<1>1. g \in Groups /\ S \in SUBSET Visits /\ s \in Snapshots(S)
  BY TaskFields DEF TypeOK, StoreOrder
<1>2. PICK places \in optimizeFree(s) \cup optimizeSegmented(s) :
        stopNr' = [v \in Visits |-> IF v \in S /\ v \in Writes(s, places)
                                    THEN LastWrite(s, places, v) ELSE stopNr[v]]
  BY DEF StoreOrder
<1>3. /\ S = Members(g)
      /\ \A v \in S : s[v] = [stop |-> Deref(stopNr[v]), seg |-> Deref(segmentIndex[v])]
  BY DEF SnapshotCurrent, StoreOrder
<1>4. UNCHANGED <<live, groupId>> /\ live \subseteq Visits
  BY DEF StoreOrder, TypeOK
<1> HIDE DEF S, s, g
<1>5. Separate(S, places)
  BY <1>1, FreeSeparate, SegmentedSeparate
<1>6. ASSUME NEW v \in S, stopNr'[v] # Null
      PROVE  stopNr'[v] \in places[v]
  <2>1. v \in Visits
    BY <1>1
  <2>2. CASE v \in Writes(s, places)
    BY <2>1, <2>2, <1>1, <1>2, StoredPlace
  <2>3. CASE v \notin Writes(s, places)
    <3>1. stopNr'[v] = stopNr[v]
      BY <2>1, <2>3, <1>2
    <3>2. places[v] = {s[v].stop}
      BY <2>3, <1>1, StoredPlace
    <3>3. s[v].stop = stopNr[v]
      <4>1. s[v] = [stop |-> Deref(stopNr[v]), seg |-> Deref(segmentIndex[v])]
        BY <1>3
      <4>2. s[v].stop = Deref(stopNr[v])
        BY <4>1
      <4>3. stopNr[v] # Null
        BY <3>1, <1>6
      <4>4. QED
        BY <4>2, <4>3 DEF Deref
    <3>4. QED
      BY <3>1, <3>2, <3>3
  <2>4. QED
    BY <2>2, <2>3
<1>7. SUFFICES ASSUME NEW v \in live, NEW x \in live, v # x,
                      groupId[v] = groupId[x], groupId[v] # NoGroup,
                      stopNr'[v] # Null, stopNr'[x] # Null
               PROVE  stopNr'[v] # stopNr'[x]
  BY <1>4 DEF UniqueStops
<1>8. CASE v \in S
  <2>1. x \in S
    BY <1>3, <1>7, <1>8 DEF Members
  <2>2. stopNr'[v] \in places[v] /\ stopNr'[x] \in places[x]
    BY <1>6, <1>7, <1>8, <2>1
  <2>3. QED
    BY <2>1, <2>2, <1>5, <1>7, <1>8 DEF Separate
<1>9. CASE v \notin S
  <2>1. x \notin S
    BY <1>3, <1>7, <1>9 DEF Members
  <2>2. stopNr'[v] = stopNr[v] /\ stopNr'[x] = stopNr[x]
    BY <2>1, <1>2, <1>4, <1>9
  <2>3. QED
    BY <2>2, <1>7 DEF UniqueStops
<1>10. QED
  BY <1>8, <1>9

\* With every other worker idle, the step of worker w leaves them idle.
LEMMA OthersIdle ==
    ASSUME TypeOK, NEW w \in Workers, NEW t, Become(w, t),
           \A u \in Workers \ {w} : task[u] = Idle
    PROVE  /\ task'[w] = t
           /\ \A u \in Workers \ {w} : task'[u] = Idle
           /\ OneRequest'
<1>1. task'[w] = t /\ \A u \in Workers \ {w} : task'[u] = Idle
  BY DEF TypeOK, Become
<1>2. QED
  BY <1>1 DEF OneRequest

LEMMA SerialInit ==
    ASSUME Init
    PROVE  SerialInv
<1>1. TypeOK
  BY InitType
<1>2. UniqueStops
  BY SeededAssumption DEF Init, UniqueStops
<1>3. OneRequest /\ SnapshotCurrent
  BY DEF Init, OneRequest, SnapshotCurrent, Idle
<1>4. QED
  BY <1>1, <1>2, <1>3 DEF SerialInv

LEMMA SerialStep ==
    ASSUME ~Overlapping, SerialInv, [Next]_vars
    PROVE  SerialInv'
<1> USE DEF SerialInv
<1>1. TypeOK'
  BY NextType
<1>2. UniqueStops'
  <2>1. CASE \E w \in Workers : StoreOrder(w)
    BY <2>1, StoreOrderUnique
  <2>2. CASE ~\E w \in Workers : StoreOrder(w)
    BY <2>2, OtherStepsUnique
  <2>3. QED
    BY <2>1, <2>2
<1>3. OneRequest' /\ SnapshotCurrent'
  <2>1. CASE Edit \/ Regroup \/ Deletion \/ LetterSent
    <3>1. Admitted /\ UNCHANGED task
      BY <2>1 DEF Edit, ReorderVisit, SplitSegment, JoinSegment, CommitEdit, Regroup,
                  ChangeGroupId, Deletion, DeleteVisit, LetterSent, VisitLetterSent
    <3>2. QED
      BY <2>1, <3>1 DEF Admitted, OneRequest, SnapshotCurrent, Idle
  <2>2. ASSUME NEW w \in Workers, Start(w)
        PROVE  OneRequest' /\ SnapshotCurrent'
    <3>1. \A u \in Workers \ {w} : task[u] = Idle
      BY <2>2 DEF Start, AssignVisitsToGroup, OptimizeGroup, RecomputeGroupRoute, Admitted
    <3>2. ASSUME NEW t, Become(w, t), t.step # "solve"
          PROVE  OneRequest' /\ SnapshotCurrent'
      BY <3>1, <3>2, OthersIdle DEF SnapshotCurrent, Idle
    <3>3. CASE \E S \in (SUBSET live) \ {{}} : \E sel \in SetToSeqs(S) :
                 AssignVisitsToGroup(w, sel)
      <4>1. PICK sel : Become(w, [step |-> "confirm", todo |-> sel])
        BY <3>3 DEF AssignVisitsToGroup
      <4>2. QED
        BY <4>1, <3>2
    <3>4. CASE \E g \in Groups : OptimizeGroup(w, g)
      <4>1. PICK g \in Groups : OptimizeGroup(w, g)
        BY <3>4
      <4> DEFINE snap == [v \in Members(g) |-> [stop |-> Deref(stopNr[v]),
                                                seg |-> Deref(segmentIndex[v])]]
      <4>2. Become(w, [step |-> "solve", group |-> g, snap |-> snap])
        BY <4>1 DEF OptimizeGroup
      <4>3. UNCHANGED <<live, groupId, stopNr, segmentIndex>>
        BY <4>1 DEF OptimizeGroup, visitVars
      <4>4. /\ DOMAIN snap = Members(g)'
            /\ \A v \in Members(g)' :
                 snap[v] = [stop |-> Deref(stopNr[v])', seg |-> Deref(segmentIndex[v])']
        BY <4>3 DEF Members, Deref
      <4> HIDE DEF snap
      <4>5. /\ task'[w] = [step |-> "solve", group |-> g, snap |-> snap]
            /\ \A u \in Workers \ {w} : task'[u] = Idle
            /\ OneRequest'
        BY <4>2, <3>1, OthersIdle
      <4>6. QED
        BY <4>4, <4>5 DEF SnapshotCurrent, Idle
    <3>5. CASE \E g \in Groups : RecomputeGroupRoute(w, g)
      <4>1. PICK g \in Groups : ReadOrder(w, g)
        BY <3>5 DEF RecomputeGroupRoute
      <4>2. PICK order \in StopOrders(Members(g)) :
              Become(w, IF order = <<>> THEN Idle
                        ELSE [step |-> "draw", group |-> g, order |-> order])
        BY <4>1 DEF ReadOrder
      <4>3. QED
        BY <4>2, <3>2 DEF Idle
    <3>6. QED
      BY <2>2, <3>3, <3>4, <3>5 DEF Start
  <2>3. ASSUME NEW w \in Workers, Continue(w)
        PROVE  OneRequest' /\ SnapshotCurrent'
    <3>1. task[w] # Idle
      BY <2>3 DEF Continue, ConfirmStatus, StoreOrder, OptimizeFails, OptimizeRoute,
                  StoreRoute, DrawFails, Idle
    <3>2. \A u \in Workers \ {w} : task[u] = Idle
      BY <3>1 DEF OneRequest
    <3>3. PICK t : Become(w, t) /\ t.step # "solve"
      <4>1. CASE ConfirmStatus(w)
        BY <4>1 DEF ConfirmStatus, Idle
      <4>2. CASE StoreOrder(w)
        BY <4>2 DEF StoreOrder
      <4>3. CASE OptimizeRoute(w)
        BY <4>3 DEF OptimizeRoute, ReadOrder, Idle
      <4>4. CASE OptimizeFails(w) \/ StoreRoute(w) \/ DrawFails(w)
        BY <4>4 DEF OptimizeFails, StoreRoute, DrawFails, Idle
      <4>5. QED
        BY <2>3, <4>1, <4>2, <4>3, <4>4 DEF Continue
    <3>4. QED
      BY <3>2, <3>3, OthersIdle DEF SnapshotCurrent, Idle
  <2>4. CASE UNCHANGED vars
    BY <2>4 DEF vars, OneRequest, SnapshotCurrent, Members, Deref
  <2>5. QED
    BY <2>1, <2>2, <2>3, <2>4 DEF Next
<1>4. QED
  BY <1>1, <1>2, <1>3

\* While no two requests overlap, two visits of a group are never the same
\* stop, whatever the solver answers or fails to answer: the unique (group_id,
\* stop_nr) index that the code is written for would never be hit.
THEOREM SerialUniqueStops ==
    ASSUME ~Overlapping
    PROVE  Spec => []UniqueStops
<1>1. Init => SerialInv
  BY SerialInit
<1>2. SerialInv /\ [Next]_vars => SerialInv'
  BY SerialStep
<1>3. SerialInv => UniqueStops
  BY DEF SerialInv
<1>4. QED
  BY <1>1, <1>2, <1>3, PTL DEF Spec

============================================================================
