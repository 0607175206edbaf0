SPECIFICATION Spec
CONSTANTS
  Devices = {1, 2}
  Times = {1, 2, 3}
  Contents = {c1, c2}
  NoResult = NoResult
  MaxWrites = 3
  MaxFaults = 1
SYMMETRY Alike
INVARIANTS TypeOK BasesKnown KeepsCurrent
PROPERTIES StaleReplayLoses RowFollowsCurrent
CHECK_DEADLOCK FALSE
