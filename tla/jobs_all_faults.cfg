SPECIFICATION FairSpec
CONSTANTS
  Jobs = {j1}
  Foreign = {f1}
  Handlers = {h1, h2}
  MaxDeliver = 2
  DeleteInput = TRUE
  Faults = {"overrun", "crash", "publish", "dependency", "expiry"}
  None = None
INVARIANTS PersistBeforeAck InputKeptUntilSettled AcceptedIsNotLost
PROPERTY MessagesSettle
CHECK_DEADLOCK FALSE
