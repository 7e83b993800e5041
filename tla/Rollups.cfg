\* Two processes maintain two days and their week, nodes are condensed, and a
\* reader asks for both days.
CONSTANTS
    NumDays = 2
    Calendar <- OneWeek
    Builders = {b1, b2}
    Operators = {b1, b2}
    NoBuilder = NoBuilder
    EventLimit = 1
    DayBudget = 1
    BuildsPerPass = 1
    History <- Nothing
    Spans <- TwoSpans
    MaxNodes = 2
    MaxPending = 1
    Window = {1, 2}
SPECIFICATION ReaderSpec
SYMMETRY Symmetry
VIEW LiveReader
CONSTRAINT OneBesideOne
INVARIANTS ReadyIsCurrent NoPeriodLost ServedWasCurrent
PROPERTIES PublishesCurrent ImplementsView
CHECK_DEADLOCK FALSE
