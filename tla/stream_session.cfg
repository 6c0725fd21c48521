SPECIFICATION FairSpec
CONSTANTS
  MaxFrames = 4
  Faults = {"undecodable", "broken", "deadline", "disconnect", "idle"}
INVARIANTS WaitingFrameWakes DrainedBeforeReturn
PROPERTIES NewestFrameNext EndIsNoticed DeadlineEndsSession
CHECK_DEADLOCK FALSE
