SPECIFICATION StoresSpec
CONSTANTS
  m1 = m1
  m2 = m2
  i1 = i1
  i2 = i2
  clock = clock
  chart = chart
  left = left
  right = right
  empty = empty
  c1 = c1
  c2 = c2
  alice = alice
  bob = bob
  Absent = Absent
  Refused = Refused
  NoRequest = NoRequest
  NoRow = NoRow
  NoMutation = NoMutation
  NoWrite = NoWrite
  NoEvent = NoEvent
  Attempts = {"a1", "a2"}
  MutationIds = {m1, m2}
  Documents <- MCDocuments
  Defaults <- MCDefaults
  Requests <- Saves
  Principals = {alice, bob}
  PrincipalOf <- MCPrincipalOf
  Instances = {i1, i2}
  Cells <- MCCells
  Redacted = empty
  Grants <- MCGrants
  InitialGrant <- MCInitialGrant
  MaxRevision = 3
  DefinedFor <- MCDefinedFor
  Parse <- MCParse
  Calls = {"a1", "a2", "a3"}
  Unaudited = {"a3"}
  Contents = {c1, c2}
  Sends <- MCSends
INVARIANTS
  NothingRestrictedShown
  OneSavePerIntent
  TrailTellsTheTruth
  ToldWhatIsRecorded
PROPERTIES
  EditsStayWithinGrant
  StaleInstancesSurvive
CHECK_DEADLOCK FALSE
