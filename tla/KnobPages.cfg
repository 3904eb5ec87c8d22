SPECIFICATION FairSpec
CONSTANTS
  DIAL_STEP = 25
  DIAL_INIT = 0
  LED_MOD = 8
  LED_TOP = 6
  LED_STEP = 3
  LED_INIT = 1
INVARIANTS
  TypeOK
  ShownIsStored
PROPERTIES
  WorkPageLeft
