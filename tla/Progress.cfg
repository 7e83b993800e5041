\* One more row, so that a hidden prefix and an eligible window exist together.
CONSTANTS
    Sessions = {s1, s2}
    NoSession = NoSession
    Engines = {e1, e2}
    FreshTail = 1
    Fanin = 2
    MaxDepth = 1
    MaxMessages = 3
    MaxNodes = 2
    MaxBinds = 2
    RestartDuringCompress = FALSE
SPECIFICATION Spec
SYMMETRY Symmetry
INVARIANTS CondensedOnce
PROPERTIES ImplementsProgress StorePassSkipsCovered
\* The bounds on rows, nodes and binds stop the system.
CHECK_DEADLOCK FALSE
