\* Two engines that race, restart sessions under a running compress and crash.
CONSTANTS
    Sessions = {s1, s2}
    NoSession = NoSession
    Engines = {e1, e2}
    FreshTail = 1
    Fanin = 2
    MaxDepth = 1
    MaxMessages = 2
    MaxNodes = 2
    MaxBinds = 2
    RestartDuringCompress = TRUE
SPECIFICATION Spec
SYMMETRY Symmetry
INVARIANTS PublicationInv LineageOwned CursorNotAhead
PROPERTIES PublishedFromFrozenInputs FrontierMonotone
\* The bounds on rows, nodes and binds stop the system.
CHECK_DEADLOCK FALSE
