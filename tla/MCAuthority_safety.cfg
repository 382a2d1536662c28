SPECIFICATION Spec
SYMMETRY Symmetry
CONSTANTS
  o = o
  a = a
  b = b
  Key <- Three
  Owner = o
  OrgOwner <- NoOrg
  Request <- Requests
INVARIANTS
  NoForgedRight
  TwoTiers
PROPERTIES
  AdminsUnmadeByAppointers
