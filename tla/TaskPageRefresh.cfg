SPECIFICATION FairSpec
CONSTANTS
  Jobs = {j1, j2}
  MaxCalls = 2
  MaxSteps = 1
  None = None
PROPERTY ReadsGoOn
CHECK_DEADLOCK FALSE
