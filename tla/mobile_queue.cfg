SPECIFICATION Spec
CONSTANTS
  j1 = j1
  j2 = j2
  j3 = j3
  t1 = t1
  t2 = t2
  p1 = p1
  NoJob = NoJob
  Jobs <- ThreeJobs
  Targets <- TwoTargets
  TargetOf <- ThreeTargets
  Projects = {p1}
  ProjectOf <- OneProject
  MaxCancels = 1
  MaxEdits = 0
  MaxCrashes = 0
  MaxUnreported = 1
INVARIANTS TypeOK ServiceKept CpuFollowsWork OneDrain JobsAccounted
PROPERTIES TerminalStable
CHECK_DEADLOCK FALSE
SYMMETRY Symmetry
