SPECIFICATION DebounceSpec
CONSTANTS
  Key = {u1}
  MaxTimers = 3
INVARIANTS
  OnePendingPerKey
