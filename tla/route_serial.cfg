CONSTANTS
    Visits <- ThreeVisits
    MaxGroup = 2
    Letters = {1}
    Deletable = {3}
    Splittable <- ThreeVisits
    Drawable = {1}
    Seeded <- TwoVisits
    Movable <- ThreeVisits
    Workers = {w1}
    Overlapping = FALSE
SPECIFICATION Spec
VIEW ReadColumns
INVARIANTS TypeOK UniqueStops
PROPERTIES OptimizeRestoresBlocks StaleOnlyByLeavingOrOptimizing LetterStaysSent
CHECK_DEADLOCK FALSE
