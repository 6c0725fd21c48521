SPECIFICATION FairSpec
CONSTANTS
  Images = {i1, i2}
  Videos = {v1, v2}
  Landmarkers = {l1}
  Threads = 2
  MaxVideoFrames = 2
  None = None
INVARIANTS TypeOK PoolExact SlotsExact AnalysesBounded NothingLeftBehind ClosedUnderNobody
PROPERTY RequestsEnd
CHECK_DEADLOCK FALSE
