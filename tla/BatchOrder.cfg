SPECIFICATION Spec
CONSTANTS
    NCalls = 3
    MaxGen = 1
    Gated = {2}
    Searches = {}
    MaxFaults = 0
INVARIANTS SiblingsSettledFirst
CHECK_DEADLOCK FALSE
