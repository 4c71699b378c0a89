SPECIFICATION Spec
CONSTANTS
  m1 = m1
  m2 = m2
  x = x
  y = y
  Attempts = {a1, a2, a3}
  Clients = {a1, a2}
  MutationIds = {m1, m2}
  Documents = {x, y}
  Defaults = x
  Requests <- MCRequests
  ClientRequests <- MCClientRequests
  PoolSizes = {1, 2}
  NoRequest = NoRequest
  NoRow = NoRow
  NoMutation = NoMutation
  NoWrite = NoWrite
  Free = Free
  NoHolder = NoHolder
INVARIANT OneWriterAtATime
PROPERTIES
  ImplementsLog
  EveryAttemptSettles
CHECK_DEADLOCK FALSE
