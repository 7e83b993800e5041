\* Three keys for a queue of two; and one process, one day and its week, any past, then calm;
\* and two searches of one node, in a pool of one store, one of two keys.
SPECIFICATION MaintenanceSpec
CONSTANTS
    k1 = k1  k2 = k2  k3 = k3  o1 = o1  o2 = o2
    Keys = {k1, k2, k3}
    Owners = {o1, o2}
    MaxJobs = 2
    NumDays = 2
    Calendar <- OneWeek
    Builders = {b1}
    Operators = {}
    NoBuilder = NoBuilder
    EventLimit = 1
    DayBudget = 1
    BuildsPerPass = 1
    History <- Nothing
    Spans <- AllSpans
    MaxNodes = 1
    MaxPending = 1
    Asked = {}
    Searches = {s1, s2}
    grep = grep  recall = recall
    Grep <- OneGrep
    Recall <- OneRecall
    Nodes = {1}
    ScanRows = 1
    PoolMax = 1
    CacheMax = 1
    MaxVersion = 0
INVARIANTS AcceptedIsKept RebuildsAlone DrainedIsDone StoresOutliveUse
PROPERTIES EveryRequestRuns EverythingFresh SearchUnloadEnds
CHECK_DEADLOCK FALSE
