SPECIFICATION KeySpec
CONSTANTS
  LiveKeys = {0, 1, 2}
  LONG_TIME = 3
  SHORT_TIME = 2
  KEY_FIFO_NUM = 10
INVARIANTS KeyTypeOK OneEventPerPress ClickWindowClosed FifoBacklog
