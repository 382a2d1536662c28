SPECIFICATION Spec
CONSTANTS
  owner = owner
  founder = founder
  ann = ann
  mel = mel
  phone = phone
  p1 = p1
  p2 = p2
  p3 = p3
  Key = {owner, founder, ann, mel, phone}
  Owner = owner
  OrgOwner <- Founder
  Here = "here"
  OrgScope <- Org
  Places = 7
  Accepts <- Policy
  Peer = {p1, p2}
  Batches <- TaskBatches
  Forged <- TaskForged
  Capacity = 2
INVARIANTS
  StatesStayValid
  WorkIsVouchedFor
  PeersCanMerge
PROPERTIES
  ImplementsGrowOnlySets
