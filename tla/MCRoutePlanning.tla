-------------------------- MODULE MCRoutePlanning --------------------------
\* Instances of RoutePlanning for TLC.
EXTENDS RoutePlanningBoard

TwoVisits == {1, 2}
ThreeVisits == {1, 2, 3}
FourVisits == {1, 2, 3, 4}
NoVisits == {}

\* No handler reads a column of a deleted row, or the stop_nr of a row outside
\* every group.
ReadColumns ==
    <<[v \in live |-> <<groupId[v], IF groupId[v] = NoGroup THEN Null ELSE stopNr[v],
                        segmentIndex[v], statusId[v]>>],
      route, task>>
============================================================================
