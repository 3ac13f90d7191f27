CONSTANTS
    None = None
    v1 = v1
    v2 = v2
    n1 = n1
    n2 = n2
    n3 = n3
    i1 = i1
    i2 = i2
    w1 = w1
    w2 = w2
    Visits = {v1}
    Workers = {w1, w2}
    Handlers <- Posts
    Overlapping = TRUE
    Title <- OneTitle
    Lists <- CarOnly
    Answers = {"a"}
    Batches = {1, 2, 3}
    Images = {}
    Names = {}
    Rounds = {}
    MaxLog = 3
    MaxFaults = 0
SPECIFICATION Spec
INVARIANTS ItemStoredOnce
