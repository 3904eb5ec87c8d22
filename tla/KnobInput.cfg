SPECIFICATION FairSpec
CONSTANTS
  LiveKeys = {0}
  LONG_TIME = 3
  SHORT_TIME = 2
  KEY_FIFO_NUM = 10
INVARIANTS TypeOK NeverDeaf OneDetentPerTick NoGhostKey
PROPERTIES EncoderRearmed MailboxDrained
