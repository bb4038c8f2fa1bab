SPECIFICATION LifeSpec
CONSTANTS
  Window = {w1, w2}
  Self = Self
  Unlisted = Unlisted
  MaxTime = 2
PROPERTY KeyGoesUnlisted
CHECK_DEADLOCK FALSE
