SPECIFICATION FairSpec
CONSTANTS
  b1 = b1
  b2 = b2
  t1 = t1
  p = p
  q = q
  mallory = mallory
  None = None
  BoardEdit = {b1, b2}
  TaskEdit = {t1}
  MaxSockets = 6
  Generations = 3
  MaxPages = 4
  Ordered = TRUE
  Careful = TRUE
  Page = {p, q}
  Mine <- Boards
  Rivals <- FutureClaim
  Forged <- Fakes
  Days = 1
  BROWSE_LIMIT = 1
  Faults = 1
  Patient = TRUE
  Merges = TRUE
INVARIANTS
  NoEditAbandoned
  NextLoadAgrees
  SamePerson
  OwnListingsCount
PROPERTIES
  EditsReachNode
  IdentityArrives
  ClaimsStand
  NewsArrives
CHECK_DEADLOCK FALSE
