CONSTANTS
    None = None
    v1 = v1
    v2 = v2
    n1 = n1
    n2 = n2
    n3 = n3
    i1 = i1
    i2 = i2
    w1 = w1
    w2 = w2
    Visits = {v1}
    Workers = {w1, w2}
    Handlers <- StatusHandlers
    Overlapping = TRUE
    Title <- OneTitle
    Lists <- Nothing
    Answers = {"a"}
    Batches = {1, 2}
    Images = {}
    Names = {n1, n2}
    Rounds <- Single
    MaxLog = 2
    MaxFaults = 1
SPECIFICATION Spec
SYMMETRY Symmetry
INVARIANTS ToReviewIsCompleted ExportedHasDocument
