SPECIFICATION HostSpec
CONSTANTS
  k1 = k1
  k2 = k2
  k3 = k3
  k4 = k4
  Key <- MCKey
  Entry = {e1, e2}
  NotFound = NotFound
  Requested <- MCRequested
  Prefix <- MCPrefix
  Matching <- MCMatching
  Uri = {a, b, c}
  NoUri = NoUri
INVARIANTS
  MapMatchesList
  EdgesMirrored
PROPERTIES
  ImplementsRecency
  InvalidateExact
  InvalidateReturns
