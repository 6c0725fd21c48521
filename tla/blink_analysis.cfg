SPECIFICATION VideoSpec
CONSTANTS
  Times <- SmallTimes
  Closures = {1, 2, 3, 4, 5}
  Full = 4
  CloseThreshold = 3
  OpenThreshold = 1
  MinDuration = 2
  MaxDuration = 3
  MaxFaceGap = 1
  Second = 12
  FrameRates = {5, 8, 12}
  Caps = {5, 6, 12}
  FilmClosures <- FewClosures
  MaxVideoFrames = 8
INVARIANTS MatchesReference Accounted EventsOrdered EventsSound ClosureIsReported
CHECK_DEADLOCK FALSE
