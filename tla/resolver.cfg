SPECIFICATION Spec
SYMMETRY Sym
CONSTANTS
  Reqs = {r1, r2}
  Docs = {d1, d2}
  Items = {i1}
  CACHE_TTL = 2
  NEGATIVE_CACHE_TTL = 1
  TOTAL_TIMEOUT = 1
  MAX_CACHE_ENTRIES = 1
INVARIANTS TypeOK CachesBounded
PROPERTIES WithdrawalTakesEffect NoProbeAfterOutcome
