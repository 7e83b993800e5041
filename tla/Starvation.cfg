\* The aggregates of the first day cannot be built, and the second month waits for ever.
CONSTANTS
    NumDays = 6
    Calendar <- TwoMonths
    Builders = {b1}
    Operators = {b1}
    NoBuilder = NoBuilder
    EventLimit = 2
    DayBudget = 2
    BuildsPerPass = 2
    History <- Enabled
    Spans = {}
    MaxNodes = 3
    MaxPending = 2
    Asked = {1, 4}
SPECIFICATION BacklogSpec
PROPERTIES QueuedIsBuilt
CHECK_DEADLOCK FALSE
