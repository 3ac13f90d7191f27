CONSTANTS
    Visits <- FourVisits
    MaxGroup = 2
    Letters = {}
    Deletable = {1}
    Splittable <- ThreeVisits
    Drawable = {}
    Seeded <- NoVisits
    Movable = {}
    Workers = {w1}
    Overlapping = FALSE
SPECIFICATION Spec
VIEW ReadColumns
INVARIANTS SegmentsAscend JoinGuardProves
PROPERTIES LockedStaysPut ImplementsBoard
CHECK_DEADLOCK FALSE
