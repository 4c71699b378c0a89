SPECIFICATION FairSpec
CONSTANTS
  MaxKeys = 3
  MaxDrafts = 3
  MaxTries = 2
  Unfit = {2}
  Lapses = FALSE
INVARIANTS
  OneRunPerDraft
PROPERTIES
  ReadNeverGoesBack
  EndedIsShown
