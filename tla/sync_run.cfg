\* A run with an import of two projects and a deletion, at most two disturbances.
SPECIFICATION FairSpec
CONSTANTS
  p1 = p1  p2 = p2  d1 = d1  a1 = a1  a2 = a2  a3 = a3  common = common  other = other
  Projects <- TwoProjects
  Tombstones <- OneDeletion
  Requests <- RoundRobin
  Owner <- OwnerOf
  Content <- ContentOf
  Starts <- MCStarts
  StreamCap = 2  ByteBudget = 2  QueueCap = 1  ApplyMax = 2  MaxFaults = 2
CHECK_DEADLOCK FALSE
INVARIANTS TypeOK AppliedIsStaged ScratchBounded OneResultEach NoLeaseOutlives TimeoutNoticed
PROPERTIES Completes
