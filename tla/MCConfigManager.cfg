SPECIFICATION CfgSpec
CONSTANTS
  r = r
  s = s
  k = k
  docR = docR
  docS = docS
  None = None
  Dir = {r, s}
  Custom = k
  CustomDir = r
  Doc = {docR, docS}
  Up <- MCUp
  Root <- MCRoot
  Files <- MCFiles
  Options <- MCOptions
  Edits <- MCEdits
  MaxWrites = 2
  MaxRequests = 2
INVARIANTS
  CfgTypeOK
  StatesSettle
  ClientsSettle
  CachesSettle
  IndexSettles
  PromptOnce
CHECK_DEADLOCK FALSE
