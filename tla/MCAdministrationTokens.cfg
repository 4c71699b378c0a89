\* One key, rotated twice at most. The profiles: everything; a person who may still
\* issue but no longer read users; one who lost his tokens; none.
SPECIFICATION Spec
CONSTANTS
  None = None
  Ids = {q1}
  Profiles = {{"users.list", "tokens.list", "tokens.issue", "tokens.rotate", "tokens.revoke", "sessions.revoke"},
              {"tokens.list", "tokens.issue", "tokens.rotate"},
              {"users.list", "sessions.revoke"},
              {}}
  MaxRevision = 3
INVARIANTS DisclosedWithinRights OutcomesAreTrue
CHECK_DEADLOCK FALSE
