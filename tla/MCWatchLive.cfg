SPECIFICATION Spec
CONSTANTS
  s1 = s1  s2 = s2  r1 = r1  r2 = r2  m1 = m1  m2 = m2
  None = None  Failed = Failed
  sessionOf <- MCSessionOf
  runOf <- MCRunOf
  InitialRows <- MCStreaming
  Sessions = {s1}  Runs = {r1}  Messages = {m1, m2}  Attempts = {a1, a2}
  StoreIDs = {A}  Replacements = {}  Groups = {g1}  Subs = {u1}
  Resnapshotters = {u1}
  MaxRevision = 2  MaxVersion = 3
  MaxSubscriptions = 1  MaxWatchedSessions = 1  MaxLiveRuns = 1
  MaxLiveTextBytes = 1  PendingUpdates = 2
  Outcomes = {}
INVARIANTS ViewConverges LiveAccounted
SYMMETRY Identities
CHECK_DEADLOCK FALSE
