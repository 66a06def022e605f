SPECIFICATION Spec
CONSTANTS
  owner = owner
  Public = Public
  WebIds = {owner}
  Segments = {"a", "x"}
  Urls <- MCUrls
  Inputs <- GetsOnly
  MaxBodyBytes = 2
  MaxTime = 7
  MAX_AGE_SECONDS = 3
  FUTURE_SKEW_SECONDS = 1
INVARIANT TagIsCurrent
