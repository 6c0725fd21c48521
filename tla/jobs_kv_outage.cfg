SPECIFICATION Spec
CONSTANTS
  Jobs = {j1}
  Foreign = {}
  Handlers = {h1, h2}
  MaxDeliver = 4
  DeleteInput = TRUE
  Faults = {"dependency"}
  None = None
INVARIANT ExhaustedIsFailed
CHECK_DEADLOCK FALSE
