SPECIFICATION ExecutionSpec
CONSTANTS
    NCalls = 3
    MaxGen = 2
    Gated = {2}
    Searches = {1}
    MaxFaults = 1
    Attempts = 2
    Failovers = 1
    Nodes = 2
    Resumes = 2
    Faults = 1
    LostAcks = {"decide"}
CHECK_DEADLOCK FALSE
INVARIANTS
    ExecutedAtMostOnce SettledCallsAreTrue LedgerTruthful
PROPERTIES
    DeclaredOrder  DecisionOnce ExecutionRests
