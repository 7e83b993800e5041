SPECIFICATION QuerySpec
CONSTANTS
  Controllers = {c1, c2}
  Rows = {m1, m2}
  MaxCorpus = 1
  MaxClaims = 2
  MaxFound = 1
INVARIANTS ReuseStillMatches
CHECK_DEADLOCK FALSE
