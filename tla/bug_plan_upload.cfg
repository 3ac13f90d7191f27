CONSTANTS
    Requests = {r1, r2}
    Handlers = {"PlanVisit"}
    Troubles = {}
SPECIFICATION Spec
INVARIANT TransactionUsesOwnHandle
