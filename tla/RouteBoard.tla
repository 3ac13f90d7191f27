----------------------------- MODULE RouteBoard -----------------------------
(***************************************************************************)
(* What the route editor promises the planner: every group is a line of    *)
(* visits, cut into segments. A visit is on the board at most once.        *)
(* RoutePlanning keeps the line in two numbers per visit.                  *)
(*                                                                         *)
(* A line is what it says of its visits: which is driven before which, and *)
(* which two are in one segment.                                           *)
(***************************************************************************)
CONSTANTS Visits, Groups

VARIABLE board

Line(visits, before, together) ==
    [visits |-> visits, before |-> before, together |-> together]

Empty == Line({}, {}, {})

\* l without the visits outside S.
Only(l, S) == Line(l.visits \cap S, l.before \cap (S \X S), l.together \cap (S \X S))

\* r puts the elements of S one after another.
Orders(r, S) ==
    /\ r \subseteq S \X S
    /\ \A u, v \in S : <<u, v>> \in r => <<v, u>> \notin r
    /\ \A u, v \in S : u # v => <<u, v>> \in r \/ <<v, u>> \in r
    /\ \A u, v, w \in S : <<u, v>> \in r /\ <<v, w>> \in r => <<u, w>> \in r

\* v comes right behind u.
RightBehind(l, u, v) ==
    /\ <<u, v>> \in l.before
    /\ \A w \in l.visits : ~(<<u, w>> \in l.before /\ <<w, v>> \in l.before)

Init == board = [g \in Groups |-> Empty]

----------------------------------------------------------------------------
\* The steps, from a board b to a board n.

Put(b, n, g, l) == n = [b EXCEPT ![g] = l]

\* The visits chosen leave their groups and form a new one of one segment.
NewGroup(b, n, g) ==
    LET S == n[g].visits
    IN  /\ b[g] = Empty
        /\ S \in (SUBSET Visits) \ {{}} /\ Orders(n[g].before, S)
        /\ n = [h \in Groups |-> IF h = g THEN Line(S, n[g].before, S \X S)
                                          ELSE Only(b[h], Visits \ S)]

\* Two neighbours inside one segment change places.
Swap(b, n, g, u, v) ==
    /\ RightBehind(b[g], u, v) /\ <<u, v>> \in b[g].together
    /\ Put(b, n, g, Line(b[g].visits, (b[g].before \ {<<u, v>>}) \cup {<<v, u>>},
                         b[g].together))

\* The line is cut in front of v.
Split(b, n, g, v) ==
    Put(b, n, g, Line(b[g].visits, b[g].before,
                      {p \in b[g].together :
                          <<p[1], v>> \in b[g].before <=> <<p[2], v>> \in b[g].before}))

\* The segment of v is joined to the one of u, right in front of it.
Join(b, n, g, u, v) ==
    LET l == b[g]
        both == {x \in l.visits : <<x, u>> \in l.together \/ <<x, v>> \in l.together}
    IN  /\ RightBehind(l, u, v) /\ <<u, v>> \notin l.together
        /\ Put(b, n, g, Line(l.visits, l.before, l.together \cup (both \X both)))

\* The optimizer reorders the visits of each segment and nothing else.
Optimize(b, n, g) ==
    LET l == b[g]
    IN  /\ Orders(n[g].before, l.visits)
        /\ \A p \in (l.visits \X l.visits) \ l.together :
             p \in n[g].before <=> p \in l.before
        /\ Put(b, n, g, Line(l.visits, n[g].before, l.together))

Delete(b, n, v) == n = [g \in Groups |-> Only(b[g], Visits \ {v})]

Step(b, n) ==
    \/ \E g \in Groups : NewGroup(b, n, g) \/ Optimize(b, n, g)
    \/ \E g \in Groups, u, v \in Visits :
          Swap(b, n, g, u, v) \/ Split(b, n, g, v) \/ Join(b, n, g, u, v)
    \/ \E v \in Visits : Delete(b, n, v)

\* The board before and after, read from the columns once.
Next == \E b \in {board}, n \in {board'} : Step(b, n)

Spec == Init /\ [][Next]_board
=============================================================================
