SPECIFICATION FairSpec
CONSTANTS
  MaxFrames = 2
  Faults = {"undecodable"}
PROPERTY OutcomeEndsSession
CHECK_DEADLOCK FALSE
