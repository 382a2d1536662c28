SPECIFICATION FairSpec
CONSTANTS
  m1 = m1
  m2 = m2
  o1 = o1
  b1 = b1
  b2 = b2
  l1 = l1
  l2 = l2
  Mine = {m1, m2}
  Others = {o1}
  Board = {b1, b2}
  Old <- FewOld
  None = None
  Attempts = 3
  Patient = TRUE
INVARIANT RetiredWhenReplaced
