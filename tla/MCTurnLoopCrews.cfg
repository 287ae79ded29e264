CONSTANTS
    s1 = s1  r1 = r1
    t1 = t1  t2 = t2  t3 = t3  t4 = t4
    i1 = i1  i2 = i2
    d1 = d1  d2 = d2
    c1 = c1  c2 = c2  c3 = c3
    Tokens = {k1, k2, k3, k4}
    Stamps = {1, 2}
    None = None
    First = First
    Reconciled = Reconciled
    Calls = {c1, c2, c3}
    Requests <- MCRequests
    MaxPayloadBytes = 1
SPECIFICATION CrewSpec
INVARIANTS
    ResumeAccepts
    DrivenTurnIsCurrent
    ItemsAnswered
    OneRunPerKey
    AnswersAreTrue
PROPERTIES
    CallsReturn
CHECK_DEADLOCK FALSE
