CONSTANTS
    None = None
    v1 = v1
    v2 = v2
    n1 = n1
    n2 = n2
    n3 = n3
    i1 = i1
    i2 = i2
    w1 = w1
    w2 = w2
    Visits = {v1}
    Workers = {w1}
    Handlers <- AllHandlers
    Overlapping = FALSE
    Title <- OneTitle
    Lists <- CarOrNothing
    Answers = {"a", "blank"}
    Batches = {1, 2}
    Images = {i1}
    Names = {n1, n2}
    Rounds <- Single
    MaxLog = 3
    MaxFaults = 1
SPECIFICATION Spec
SYMMETRY Symmetry
INVARIANTS ResponseAsPosted LogBreaksOnlyByFault FilesMatchDocuments PendingOnlyByFault OneDocumentPerTitle StoredImageHasFile
