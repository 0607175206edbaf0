SPECIFICATION FairSpec
CONSTANTS
  j1 = j1
  j2 = j2
  j3 = j3
  t1 = t1
  t2 = t2
  p1 = p1
  NoJob = NoJob
  Jobs <- TwoJobs
  Targets <- OneTarget
  TargetOf <- TwoOfOne
  Projects = {p1}
  ProjectOf <- ItsProject
  MaxCancels = 1
  MaxEdits = 1
  MaxCrashes = 1
  MaxUnreported = 0
INVARIANTS OneActivePerTarget
PROPERTIES NewerWorkKept FailureSignalled JobsEnd
CHECK_DEADLOCK FALSE
