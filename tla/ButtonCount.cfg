SPECIFICATION Spec
CONSTANTS
  Buttons = {b1, b2}
  CNT_RANGE = 256
  MaxToggles = 1
INVARIANTS
  CountOnlyForClicks
