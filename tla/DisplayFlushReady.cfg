SPECIFICATION Spec
CONSTANTS
  FRAME_WORDS = 4
  LINK_WORDS = 2
  LINK_MAX = 2
  MaxFrame = 2
INVARIANTS
  FlushReadyGetsDriver
CHECK_DEADLOCK FALSE
