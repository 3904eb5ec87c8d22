SPECIFICATION FairSpec
CONSTANTS
  MaxMsgs = 2
  PulseMissed = TRUE
CHECK_DEADLOCK FALSE
PROPERTIES
  EveryMessageArrives
