SPECIFICATION FairSpec
CONSTANTS
  s1 = s1  s2 = s2  r1 = r1  r2 = r2  m1 = m1  m2 = m2
  None = None  Failed = Failed
  sessionOf <- MCSessionOf
  runOf <- MCRunOf
  InitialRows <- MCEmpty
  Sessions = {s1}  Runs = {}  Messages = {}  Attempts = {}
  StoreIDs = {A, B}  Replacements = {B}  Groups = {g1}  Subs = {u1}
  Resnapshotters = {u1}
  MaxRevision = 1  MaxVersion = 0
  MaxSubscriptions = 2  MaxWatchedSessions = 1  MaxLiveRuns = 1
  MaxLiveTextBytes = 1  PendingUpdates = 1
  Outcomes = {None, Failed}
INVARIANTS WatchTypeOK
PROPERTIES ViewNeverGoesBack ObserversLearn
CHECK_DEADLOCK FALSE
