SPECIFICATION V1Spec
CONSTANTS
  a = a
  b = b
  x = x
  helpers = helpers
  addr = addr
  None = None
  Names <- MCNames
  Configured <- MCConfigured
  Text = {"tx", "script", "c1", "c2", "bad", "wild"}
  TextInfo <- MCTextInfo
  Loc = {a, b, x, helpers}
  Doc = {a, b}
  Builtin = {helpers}
  Address = {addr}
  Imports <- MCImports
  DocTexts <- MCDocTexts
  DiskTexts <- MCDiskTexts
  InitialDisk <- MCInitialDisk
  NoProgram = {"bad"}
  ParseErrors = {"bad"}
  CheckErrors = {"script"}
  ProblemsOf <- MCProblemsOf
  AccountNumbers = {0, 1}
  Modes = {"strict"}
  Budgets <- MCBudgets
INVARIANTS
  AnswersCurrentText
  ActionsOfCurrentText
  LatestItemsResolve
  OneActiveAccount
PROPERTIES
  ImportsSeeEditor
CHECK_DEADLOCK FALSE
