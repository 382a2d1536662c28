SPECIFICATION IdentitySpec
CONSTANTS
  Generations = 2
  MaxPages = 4
  Ordered = TRUE
  Careful = FALSE
INVARIANT
  SurvivesRebuild
CHECK_DEADLOCK FALSE
