CONSTANTS
  j1 = j1  j2 = j2  j3 = j3
  p1 = p1  p2 = p2
  r1 = r1  r2 = r2
  Jobs = {j1, j2, j3}
  Projects = {p1, p2}
  Requests = {r1, r2}
  Cancels = {c1}
  Bulk = {r1, r2}
  Conversions = {r1, r2}
  Plan <- ConvPlan
  ProjectOf <- ConvProject
  TypeOf <- ConvType
  ProcJobs = {}
  MaxCrashes = 1
  NoJob = NoJob
  Poison = Poison
SPECIFICATION Spec
CHECK_DEADLOCK FALSE
INVARIANTS ConversionsDisjoint 
