SPECIFICATION Spec
CONSTANTS
  t1 = t1
  t2 = t2
  Tabs = {t1, t2}
  Subjects = {u1, u2}
  None = None
  MaxRevision = 1
  Environments <- MCEnvironments
SYMMETRY MCSymmetry
INVARIANTS
  PageShowsItsOwn
  LockMovesOn
  StaleIsTold
PROPERTIES
  RenewsWhenDue
  LogoutSurvives
CHECK_DEADLOCK FALSE
