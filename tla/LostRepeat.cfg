SPECIFICATION IngestSpec
CONSTANTS
  w1 = w1  w2 = w2
  Workers = {w1}
  System = "sys"
  Users = {"ask"}
  Tools = {"result"}
  Internal = {"thought"}
  MaxTurns = 3
  MaxTime = 2
  MaxReloads = 1
  MaxRewrites = 1
  Window = 0
  FreshTail = 1
  Stamps = {FALSE}
CHECK_DEADLOCK FALSE
INVARIANTS EveryMessagePersisted
