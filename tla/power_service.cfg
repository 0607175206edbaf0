SPECIFICATION Spec
CONSTANTS
  Requests = {{"tuner"}, {"playback", "transfer"}}
  MaxRequests = 4
  MaxObjects = 2
  MaxActivities = 2
INVARIANTS TypeOK Settles ScreenFollows
CHECK_DEADLOCK FALSE
PROPERTY NewerRequestKept
