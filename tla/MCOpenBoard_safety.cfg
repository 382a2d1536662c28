SPECIFICATION FairSpec
CONSTANTS
  m1 = m1
  m2 = m2
  o1 = o1
  Mine = {m1, m2}
  Others = {}
  None = None
  Attempts = 2
  MaxTimers = 1
INVARIANTS
  OneBoardAtATime
  BadgeIsAboutOpenBoard
PROPERTIES
  SettledMeansStored
  StoringEnds
