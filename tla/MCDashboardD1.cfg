SPECIFICATION D1Spec
CONSTANTS
  m1 = m1
  m2 = m2
  x = x
  y = y
  Attempts = {a1, a2, a3}
  MutationIds = {m1, m2}
  Documents = {x, y}
  Defaults = x
  Requests <- MCRequests
  NoRequest = NoRequest
  NoRow = NoRow
  NoMutation = NoMutation
  NoWrite = NoWrite
SYMMETRY Symmetry
INVARIANT HistoryMatchesRow
CHECK_DEADLOCK FALSE
PROPERTIES
  D1ImplementsLog
