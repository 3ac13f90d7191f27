CONSTANTS
    Requests = {r1, r2}
    Handlers <- OwnHandle
    Troubles = {}
SPECIFICATION FairSpec
INVARIANTS TransactionUsesOwnHandle
PROPERTIES Answered
