SPECIFICATION Spec
CONSTANTS
  founder = founder
  ann = ann
  mel = mel
  b1 = b1
  b2 = b2
  g1 = g1
  g2 = g2
  t1 = t1
  None = None
  OldBoards = {}
  NewBoards = {b1, b2}
  OldOrgs = {g1}
  NewOrgs = {g2}
  OrgOf <- Owners
  Tasks = {t1}
  Key <- Three
  Owner = founder
  OrgOwner <- Nobody
  Here = "here"
  OrgScope <- Nobody
  Places = 12
  Page <- Two
  Clocks <- SomeClocks
  MaxGrants = 3
INVARIANTS
  ScreenIsOfAddress
  OneOrgAtATime
  OffersAreKept
  EveryPowerIsOffered
  WritesStandAlone
PROPERTY NothingReenters
CHECK_DEADLOCK FALSE
