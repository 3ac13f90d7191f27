CONSTANTS
    Visits <- ThreeVisits
    MaxGroup = 1
    Letters = {}
    Deletable = {}
    Splittable <- NoVisits
    Drawable = {}
    Seeded <- NoVisits
    Movable <- ThreeVisits
    Workers = {w1, w2}
    Overlapping = TRUE
SPECIFICATION Spec
VIEW ReadColumns
CONSTRAINT UniqueStops
PROPERTIES OnlyOptimizeDuplicates
CHECK_DEADLOCK FALSE
