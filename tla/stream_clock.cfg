SPECIFICATION ClockSpec
CONSTANTS
  MaxFps = 12
  Gaps = {0, 20, 83, 84, 1000}
  MaxFrames = 6
  Decoding = {0, 30}
  Analysing = {1, 60}
  Work = 90
INVARIANTS RateBounded OnlyExcessDropped LatencyBounded StampLag
CHECK_DEADLOCK FALSE
