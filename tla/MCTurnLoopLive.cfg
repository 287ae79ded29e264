CONSTANTS
    S1 = S1
    Sessions = {S1}
    Runs = {r1}
    Tokens = {k1, k2, k3, k4}
    Turns = {t1, t2, t3}
    Ordinals = {1, 2, 3}
    Items = {i1}
    Calls = {}
    Claims = {}
    Revisions = {1, 2}
    Blobs <- MCBlobs
    Stamps = {1, 2}
    None = None
    First = First
    Reconciled = Reconciled
    Drivers = {d1, d2}
    HostEvents = {"crash", "abandon", "fail", "startfail"}
    RunSession <- MCRunSession
    ItemSession <- MCItemSession
SPECIFICATION TLFairSpec
INVARIANTS
    OneFencedDriver
PROPERTIES
    RunsComeToRest
CHECK_DEADLOCK FALSE
