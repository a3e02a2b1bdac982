SPECIFICATION ReqSpec
CONSTANTS
  a = a
  b = b
  c = c
  e = e
  p = p
  x = x
  None = None
  Loc = {a, b, c, e, p, x}
  Doc = {a, b, e}
  KindOf <- MCKindOf
  FileOf <- MCFileOf
  Declared <- MCDeclared
  Existing <- MCExisting
  Parsed <- MCParsed
  Versions <- MCVersions
  Broken = {2}
  MaxWrites = 1
  Budgets <- MCBudgets
  MaxSessions = 1
  CacheCapacity = 2
  SyncModes = {TRUE, FALSE}
INVARIANTS
  ReqTypeOK
  RecentSessionsResolve
  ResolvesFromFile
PROPERTIES
  EditInvalidatesUsers
  OwnerLocated
CHECK_DEADLOCK FALSE
