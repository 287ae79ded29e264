CONSTANTS
    S1 = S1
    Sessions = {S1}
    Runs = {r1}
    Tokens = {k1, k2, k3}
    Turns = {t1, t2, t3}
    Ordinals = {1, 2, 3}
    Items = {i1}
    Calls = {}
    Claims = {}
    Revisions = {1, 2, 3}
    Blobs <- MCBlobs
    Stamps = {1, 2}
    None = None
    First = First
    Reconciled = Reconciled
    Drivers = {d1}
    HostEvents = {}
    RunSession <- MCRunSession
    ItemSession <- MCItemSession
SPECIFICATION TLSpec
INVARIANTS
    PauseIsAccepted
CHECK_DEADLOCK FALSE
