SPECIFICATION Spec
CONSTANTS
  Jobs = {j1}
  Foreign = {}
  Handlers = {h1, h2}
  MaxDeliver = 4
  DeleteInput = TRUE
  Faults = {"overrun"}
  None = None
PROPERTIES TerminalIsFinal
CHECK_DEADLOCK FALSE
