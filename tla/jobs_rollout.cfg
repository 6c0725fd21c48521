SPECIFICATION ReplicaFairSpec
CONSTANTS
  h1 = h1
  h2 = h2
  r1 = r1
  r2 = r2
  Jobs = {j1}
  Foreign = {}
  Handlers = {h1, h2}
  MaxDeliver = 3
  DeleteInput = TRUE
  Faults = {"overrun", "crash", "publish"}
  None = None
  Replicas = {r1, r2}
  Home <- Apart
  MaxStops = 1
  Outages = TRUE
INVARIANT DrainLeavesNobody
PROPERTIES JobsSurviveRollout UploadIsDeleted
CHECK_DEADLOCK FALSE
