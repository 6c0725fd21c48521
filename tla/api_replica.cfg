SPECIFICATION ReplicaFairSpec
CONSTANTS
  Connections = {c1, c2}
  MaxSessions = 1
  Faults = {"handshake", "scope", "cancel"}
  Probes = {p1, p2}
  TTL = 2
  Slow = 1
INVARIANTS CountIsExact NoLandmarkerLeaks NotClosedInUse
PROPERTIES AdmittedEnds ReadyIsFresh OutageIsReported
CHECK_DEADLOCK FALSE
