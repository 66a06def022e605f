SPECIFICATION Spec
SYMMETRY Sym
CONSTANTS
  Reqs = {r1, r2}
  Jtis = {j1, j2}
  Iats <- MCIats
  MAX_AGE_SECONDS = 2
  FUTURE_SKEW_SECONDS = 1
  EVICTION_INTERVAL_SECONDS = 1
  MaxClock = 7
  StepsBack = TRUE
INVARIANTS TypeOK NoReplayInOrder RetentionBounded
