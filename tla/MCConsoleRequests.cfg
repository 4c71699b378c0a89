SPECIFICATION RequestSpec
CONSTANT Scoped = {TRUE, FALSE}
INVARIANT ScopesEnd
PROPERTIES
  AuthorityIsFresh
  ScopedAnswersHoldTogether
CHECK_DEADLOCK FALSE
