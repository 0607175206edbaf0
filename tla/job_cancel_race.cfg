CONSTANTS
  j1 = j1  j2 = j2  j3 = j3
  p1 = p1  p2 = p2
  r1 = r1  r2 = r2
  Jobs = {j1, j2}
  Projects = {p1}
  Requests = {r1}
  Cancels = {c1}
  Bulk = {}
  Conversions = {}
  Plan <- ImportPlan
  ProjectOf <- ImportProject
  TypeOf <- ImportType
  ProcJobs = {j1}
  MaxCrashes = 0
  NoJob = NoJob
  Poison = Poison
SPECIFICATION Spec
CHECK_DEADLOCK FALSE
INVARIANTS CancelledPendingJobDoesNotExecute
