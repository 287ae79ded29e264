SPECIFICATION ExtensionsSpec
CONSTANTS
  None = None
  Mounts = {a1, a2}
  Plans = {p1}
  InstanceID <- MCInstanceID
  Scope <- MCScope
  Target <- MCTarget
  Closers = {c1, c2}
  Effects = 2
  QueueSize = 1
  Notices = 2
  CleanupFailures = 1
  s1 = s1
  s2 = s2
  Sessions = {s1}
  Global = Global
  EveryTool = EveryTool
  MaxMounted = 3
  Catalog <- MCCatalog
  Configs <- MCConfigs
INVARIANTS
  CleanupOnceAndLast FlushIsABarrier ResumedAsAdmitted NamesResolve OthersDoNotBlockResume
PROPERTIES CloseEnds
CHECK_DEADLOCK FALSE
