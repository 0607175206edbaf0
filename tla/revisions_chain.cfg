SPECIFICATION Spec
CONSTANTS
  Devices = {1, 2}
  Times = {1, 2, 3}
  Contents = {c1, c2}
  NoResult = NoResult
  MaxWrites = 3
  MaxFaults = 0
INVARIANTS SettledDevicesAgree
CHECK_DEADLOCK FALSE
