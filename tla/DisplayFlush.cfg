SPECIFICATION FairSpec
CONSTANTS
  FRAME_WORDS = 4
  LINK_WORDS = 2
  LINK_MAX = 2
  MaxFrame = 6
INVARIANTS
  TypeOK
  ShownWhole
  SentBufferNotDrawn
  PanelQuiet
PROPERTIES
  EveryFrameInTurn
  FrameShown
CHECK_DEADLOCK FALSE
