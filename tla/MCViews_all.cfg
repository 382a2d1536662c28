SPECIFICATION FairSpec
CONSTANTS
  o = o
  m = m
  d = d
  b1 = b1
  b2 = b2
  g = g
  t1 = t1
  t2 = t2
  Key <- Three
  Owner = o
  OrgOwner <- NoOrg
  OrgScope <- NoOrg
  Here = "here"
  Places = 4
  MaxLen = 4
  Contracts <- AllKinds
  Pool <- Pools
  BASE = 3
  Peer = {1, 2}
  Starts <- SomeStarts
  NewCards = {4}
  NewColumns = {4}
  me = me
  restored = restored
  n1 = n1
  tab = tab
  tab2 = tab2
  None = None
  Person = {me, restored}
  Openable = {b1}
  Named = {n1}
  MaxWrites = 2
  MaxBreaks = 2
  MaxRequests = 2
  Tab = {tab, tab2}
  Nothing = Nothing
  MaxClicks = 2
  MaxLoads = 2
  Written <- Writings
  MaxOps = 4
INVARIANTS
  RecoveredAsShown
  OwnProfile
  
  ThemeComesBack
  LandsWhereAimed
  OwnMovesKeepApart
  AcceptedWorkIsShown
  ShownAsDone
PROPERTIES
  NothingComesBack
  WritesAreStored
  OthersSettingsKept
CHECK_DEADLOCK FALSE
