\* A published gap leaf is summarised again after a crash.
CONSTANTS
    Sessions = {s1, s2}
    NoSession = NoSession
    Engines = {e1}
    FreshTail = 1
    Fanin = 2
    MaxDepth = 1
    MaxMessages = 3
    MaxNodes = 2
    MaxBinds = 2
    RestartDuringCompress = FALSE
SPECIFICATION UnrotatedSpec
INVARIANTS NoDuplicateLeaf
\* The bounds on rows, nodes and binds stop the system.
CHECK_DEADLOCK FALSE
