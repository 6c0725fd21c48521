SPECIFICATION Spec
CONSTANTS
  Jobs = {j1, j2}
  Foreign = {}
  Handlers = {h1, h2}
  MaxDeliver = 2
  DeleteInput = TRUE
  Faults = {"crash", "publish", "dependency"}
  None = None
SYMMETRY Symmetry
INVARIANT OneHandlerPerJob
PROPERTIES TerminalIsFinal AttemptsNeverDecrease ImplementsLifecycle
CHECK_DEADLOCK FALSE
