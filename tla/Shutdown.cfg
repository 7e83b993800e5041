\* A prototype and a clone, their work, and the unload of the plugin.
SPECIFICATION FairSpec
CONSTANTS
  e1 = e1  e2 = e2  k1 = k1
  Keys = {k1}
  Owners = {e1, e2}
  MaxJobs = 1
  Prototype = e1
  Unload = Unload
  Nobody = Nobody
  Extraction = TRUE
  Working = {e1, e2}
  MaxGen = 1
CHECK_DEADLOCK FALSE
INVARIANTS WorkIsSeen UnloadIsQuiet SchedulesOnOpenStore
PROPERTIES WaitsEnd
CONSTRAINT TwoAtWorkLive
