SPECIFICATION KeySpec
CONSTANTS
  LiveKeys = {0}
  LONG_TIME = 50
  SHORT_TIME = 2
  KEY_FIFO_NUM = 10
PROPERTIES DoubleClickReported
