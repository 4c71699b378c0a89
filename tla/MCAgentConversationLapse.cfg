SPECIFICATION Spec
CONSTANTS
  MaxKeys = 3
  MaxDrafts = 2
  MaxTries = 2
  Unfit = {}
  Lapses = TRUE
INVARIANT OneRunPerDraft
