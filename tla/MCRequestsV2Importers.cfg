SPECIFICATION ReqSpec
CONSTANTS
  a = a
  b = b
  c = c
  e = e
  p = p
  x = x
  None = None
  Loc = {a, b, c, p, x}
  Doc = {a, b}
  KindOf <- MCKindOf
  FileOf <- MCFileOf
  Declared <- MCDeclared
  Existing <- MCExisting
  Parsed <- MCParsed
  Versions <- MCVersions
  Broken = {}
  MaxWrites = 0
  Budgets <- MCEdits
  MaxSessions = 1
  CacheCapacity = 4
  SyncModes = {TRUE}
PROPERTIES
  EditInvalidatesImporters
CHECK_DEADLOCK FALSE
