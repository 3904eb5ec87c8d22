SPECIFICATION FairSpec
CONSTANTS
  Buttons = {b1, b2}
  CNT_RANGE = 3
  MaxToggles = 2
INVARIANTS
  TypeOK
  RestsWhenReleased
  StateTimed
  PressingTimed
  LongReleasedOnce
  CombMeansSeveral
  LevelSettled
PROPERTIES
  ReleaseSettles
