\* A session resumes with the frontier of another one.
CONSTANTS
    Sessions = {s1, s2}
    NoSession = NoSession
    Engines = {e1}
    FreshTail = 1
    Fanin = 2
    MaxDepth = 1
    MaxMessages = 3
    MaxNodes = 1
    MaxBinds = 4
    RestartDuringCompress = FALSE
SPECIFICATION UnrotatedSpec
PROPERTIES NeverBorrowsFrontier
\* The bounds on rows, nodes and binds stop the system.
CHECK_DEADLOCK FALSE
