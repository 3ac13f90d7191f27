CONSTANTS
    Cases = {c1}
    Clients = {b1, b2}
    Capacity = 8
    Minutes = 3
    MaxErrors = 2
    MaxRestarts = 1
SPECIFICATION FairSpec
INVARIANTS RegistryMatchesFlows NoEventLost TimeoutMeansUnsigned
PROPERTIES EveryWaitEnds ImplementsOutcome
CHECK_DEADLOCK FALSE
