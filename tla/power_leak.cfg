SPECIFICATION Spec
CONSTANTS
  Requests = {{}, {"listener"}, {"playback", "transfer"}, {"tuner"}}
  MaxRequests = 3
  MaxObjects = 2
  MaxActivities = 2
INVARIANTS ReleasesAfterFinalOwner
CHECK_DEADLOCK FALSE
