CONSTANTS
    None = None
    v1 = v1
    v2 = v2
    n1 = n1
    n2 = n2
    n3 = n3
    i1 = i1
    i2 = i2
    w1 = w1
    w2 = w2
    Visits = {v1}
    Workers = {w1}
    Handlers <- OnTheWay
    Overlapping = FALSE
    Title <- OneTitle
    Lists <- Nothing
    Answers = {"a"}
    Batches = {1}
    Images = {}
    Names = {n1, n2}
    Rounds <- Single
    MaxLog = 2
    MaxFaults = 0
SPECIFICATION FairSpec
PROPERTIES ReviewFinishes
