CONSTANTS
    S1 = S1
    Sessions = {S1}
    Runs = {r1, r2}
    Tokens = {k1, k2, k3}
    Turns = {t1, t2}
    Ordinals = {1, 2}
    Items = {i1}
    Calls = {c1}
    Claims = {w1, w2}
    Revisions = {1, 2}
    Blobs = {b1}
    Stamps = {1, 2}
    None = None
    RunSession <- MCRunSession
    ItemSession <- MCItemSession
SPECIFICATION MCSpec
SYMMETRY MCSymmetry
INVARIANTS
    OneOpenRun
    TerminalRunIsSettled
    SubmissionsSound
PROPERTIES
    RecordsStand
    KeepsContract
CHECK_DEADLOCK FALSE
