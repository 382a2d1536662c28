SPECIFICATION LegacySpec
CONSTANTS
  Written <- Nowadays
  MaxOps = 3
INVARIANT HintIsHonest
CHECK_DEADLOCK FALSE
