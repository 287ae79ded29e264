SPECIFICATION Spec
CONSTANTS
  m1 = m1  m2 = m2  t1 = t1  p1 = p1  None = None
  Messages = {m1, m2}  Calls = {t1}  Pauses = {p1}
  callsOf <- MCCallsOf
  resultsOf <- MCResultsOf
  Scripts <- MCScripts
  QueueSize = 9  TailSize = 9  Limit = 2  MaxConnects = 2
INVARIANTS ToolStartOnce
CHECK_DEADLOCK FALSE
