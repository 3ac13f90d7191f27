CONSTANTS
    Visits <- TwoVisits
    MaxGroup = 1
    Letters <- TwoVisits
    Deletable <- NoVisits
    Splittable <- NoVisits
    Drawable = {}
    Seeded <- NoVisits
    Movable <- NoVisits
    Workers = {w1}
    Overlapping = TRUE
SPECIFICATION Spec
PROPERTY LetterStaysSent
CHECK_DEADLOCK FALSE
