SPECIFICATION ObserversSpec
CONSTANTS
  m1 = m1  m2 = m2  t1 = t1  p1 = p1  None = None
  Messages = {m1, m2}  Calls = {t1}  Pauses = {p1}
  callsOf <- MCCallsOf
  resultsOf <- MCResultsOf
  Scripts <- MCScripts
  QueueSize = 2  TailSize = 2  Limit = 2  MaxConnects = 2
  s1 = s1  Subs = {u1, u2}  Groups = {g1, g2}  StoreIDs = {A}  Failed = Failed
INVARIANTS FramesOnce NothingSkipped SubscriberServed
SYMMETRY Identities
CHECK_DEADLOCK FALSE
