SPECIFICATION WasmSpec
CONSTANTS
  Client = {c1, c2, c3}
  None = None
  MaxCalls = 4
  MaxCallbacks = 3
INVARIANTS
  WasmTypeOK
  RepliesToSender
  ServersListen
  ClosesOnce
CHECK_DEADLOCK FALSE
