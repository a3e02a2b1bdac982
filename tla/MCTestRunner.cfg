SPECIFICATION RunnerSpec
CONSTANTS
  None = None
  Contract = {"Foo", "Token"}
  Code = {"good", "bad"}
  Failing = {"bad"}
  Builtin = {"Token"}
  Addresses <- MCAddresses
  OwnerOf <- MCOwnerOf
  Snapshot = {"snap"}
  InitialAccounts = 1
  RemoteHeight = 3
  Scripts <- MCScripts
  Configurations <- MCConfigurations
  Hosts = {"mainnet", "testnet"}
  ImportFiles <- MCImportFiles
  Shuffled = {TRUE, FALSE}
  MaxRuns = 2
  MaxCalls = 3
INVARIANTS
  RunnerTypeOK
  OffsetTracksBlock
  ForkFits
  EventsLocal
PROPERTIES
  ResultsComplete
CHECK_DEADLOCK FALSE
