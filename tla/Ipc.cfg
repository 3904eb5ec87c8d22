SPECIFICATION FairSpec
CONSTANTS
  MaxMsgs = 2
  PulseMissed = FALSE
CHECK_DEADLOCK FALSE
INVARIANTS
  TypeOK
  AnswerFindsMessage
  OngoingCoversUart
  NeverStuck
PROPERTIES
  LinkSpec
  EveryMessageArrives
