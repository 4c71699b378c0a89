SPECIFICATION Spec
CONSTANTS
  owner = owner
  deputy = deputy
  other = other
  custom = custom
  Subjects = {owner, deputy, other}
  Owner = owner
  CustomRoles = {custom}
  Calls = {c1, c2}
  Requests <- MCRequests
  MaxRevision = 4
SYMMETRY Symmetry
INVARIANTS
  OwnerRemains
  TrailTellsTheTruth
  AnswersTellTheTruth
PROPERTIES
  AuthorizedAtCommit
  GainsWithinRights
  RevisionCoversStanding
